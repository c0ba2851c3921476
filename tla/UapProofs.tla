------------------------------- MODULE UapProofs -------------------------------
(***************************************************************************)
(* The endpoint implements EffectOnce, for every set of sessions, keys,    *)
(* commands, results and messages and every backend.  The inductive        *)
(* invariant types the session table; the refinement then follows the      *)
(* paths of Handle: each ends in a table in which at most the message's    *)
(* own slot has moved, by one step of its life.                            *)
(*                                                                         *)
(* Then what the endpoint answers: an error is confined to its request, a  *)
(* request identifier stands for one message, and all observations of one  *)
(* session and key agree.  These three rest on one description of an       *)
(* answer (Sound): what it may change, what it shows, and of what it       *)
(* leaves behind; the paths of Handle establish it, and the invariants     *)
(* carry what earlier answers showed.                                      *)
(***************************************************************************)
EXTENDS UapEndpoint, TLAPS

Terminals == {None} \cup {Some(r) : r \in Encodable}

Entry == [fingerprint : Commands, operation : {"held", "dropped"},
          terminal : Terminals, reclaimed : BOOLEAN]

IsSession(session) ==
  /\ DOMAIN session = {"version", "hello", "requests", "idempotency"}
  /\ DOMAIN session.idempotency \subseteq Keys
  /\ \A k \in DOMAIN session.idempotency : session.idempotency[k] \in Entry

IsTable(table) ==
  /\ DOMAIN table \subseteq Sessions
  /\ \A s \in DOMAIN table : IsSession(table[s])

TypeInv ==
  /\ IsTable(sessions)
  /\ effects \in [Slots -> Nat]

\* The life of an entry after one of a slot's steps.
Finished(before, after) ==
  /\ before.stage = "running"
  /\ \E r \in Encodable : after = [stage |-> "done", command |-> before.command,
                                   result |-> r]
Begun(after) ==
  \E c \in Commands :
    \/ after = [stage |-> "running", command |-> c]
    \/ \E r \in Encodable : after = [stage |-> "done", command |-> c, result |-> r]

Dropped(before, after) ==
  /\ before.stage \in {"running", "done"}
  /\ after = [stage |-> "given-up", command |-> before.command]

\* What a handled message may do to the table.
Same(table, next) ==
  \A slot \in Slots : LifeOf(next, slot) = LifeOf(table, slot)

OnlyAt(table, next, slot) ==
  \A other \in Slots \ {slot} : LifeOf(next, other) = LifeOf(table, other)

-------------------------------------------------------------------------------
(* Lives of entries.                                                       *)

LEMMA NoneIsNoSome == \A x : None # Some(x)
  BY DEF None, Some

\* An observation keeps the entry, or fills in its terminal fact.
LEMMA ObserveKeeps ==
  ASSUME NEW entry \in Entry, NEW poll, \E b \in Backend : poll = b.poll
  PROVE  \/ Observe(entry, poll).entry = entry
         \/ /\ entry.terminal = None
            /\ Observe(entry, poll).code = "ok"
            /\ \E r \in Encodable :
                 Observe(entry, poll).entry = [entry EXCEPT !.terminal = Some(r)]
<1>1. poll \in {PollPending, PollRaises} \cup {PollTerminal(r) : r \in Results}
  BY DEF Backend, Asked
<1>2. CASE poll = PollPending
  BY <1>2 DEF Observe, PollPending
<1>3. CASE poll = PollRaises
  BY <1>3 DEF Observe, PollRaises
<1>4. CASE \E r \in Results : poll = PollTerminal(r)
  <2>1. PICK r \in Results : poll = PollTerminal(r)
    BY <1>4
  <2>2. CASE r \in Encodable
    BY <2>1, <2>2 DEF Observe, PollTerminal
  <2>3. CASE r \notin Encodable
    BY <2>1, <2>3 DEF Observe, PollTerminal
  <2> QED
    BY <2>2, <2>3
<1> QED
  BY <1>1, <1>2, <1>3, <1>4

\* The life of an entry that is filled in.
LEMMA FilledLife ==
  ASSUME NEW entry \in Entry, entry.terminal = None, ~entry.reclaimed,
         NEW r \in Encodable
  PROVE  /\ [entry EXCEPT !.terminal = Some(r)] \in Entry
         /\ EntryLife(entry) = [stage |-> "running", command |-> entry.fingerprint]
         /\ EntryLife([entry EXCEPT !.terminal = Some(r)])
              = [stage |-> "done", command |-> entry.fingerprint, result |-> r]
<1> DEFINE filled == [entry EXCEPT !.terminal = Some(r)]
<1>1. filled \in Entry
  BY DEF Entry, Terminals
<1>2. /\ filled.terminal = Some(r) /\ filled.reclaimed = entry.reclaimed
      /\ filled.fingerprint = entry.fingerprint
  BY DEF Entry
<1>3. Some(r) # None /\ Some(r)[1] = r
  BY DEF Some, None
<1>4. EntryLife(entry) = [stage |-> "running", command |-> entry.fingerprint]
  BY DEF EntryLife
<1> HIDE DEF filled
<1>5. EntryLife(filled)
        = [stage |-> "done", command |-> entry.fingerprint, result |-> r]
  BY <1>2, <1>3 DEF EntryLife
<1> QED
  BY <1>1, <1>4, <1>5 DEF filled

LEMMA LiveEntryLife ==
  ASSUME NEW entry \in Entry, ~entry.reclaimed
  PROVE  \/ /\ entry.terminal = None
            /\ EntryLife(entry)
                 = [stage |-> "running", command |-> entry.fingerprint]
         \/ \E r \in Encodable :
              EntryLife(entry)
                = [stage |-> "done", command |-> entry.fingerprint, result |-> r]
<1>1. CASE entry.terminal = None
  BY <1>1 DEF EntryLife
<1>2. CASE entry.terminal # None
  <2>1. PICK r \in Encodable : entry.terminal = Some(r)
    BY <1>2 DEF Entry, Terminals
  <2>2. EntryLife(entry)
          = [stage |-> "done", command |-> entry.fingerprint, result |-> r]
    BY <1>2, <2>1 DEF EntryLife, Some
  <2> QED
    BY <2>2
<1> QED
  BY <1>1, <1>2
-------------------------------------------------------------------------------
(* Tables.                                                                 *)

\* The two tables hold the same entries.
SameEntries(table, next) ==
  /\ DOMAIN next = DOMAIN table
  /\ \A s \in DOMAIN table : next[s].idempotency = table[s].idempotency

LEMMA SameEntriesSame ==
  ASSUME NEW table, NEW next, SameEntries(table, next)
  PROVE  Same(table, next)
BY DEF SameEntries, Same, LifeOf, Used

LEMMA BindKeeps ==
  ASSUME NEW table, IsTable(table), NEW m, m.session \in DOMAIN table
  PROVE  IsTable(Bind(table, m)) /\ SameEntries(table, Bind(table, m))
<1> DEFINE bound == Bind(table, m)
<1>1. /\ DOMAIN bound = DOMAIN table
      /\ \A s \in DOMAIN table : s # m.session => bound[s] = table[s]
  BY DEF Bind
<1>2. /\ DOMAIN bound[m.session] = DOMAIN table[m.session]
      /\ bound[m.session].idempotency = table[m.session].idempotency
  BY DEF Bind, IsTable, IsSession
<1>3. SameEntries(table, bound)
  BY <1>1, <1>2 DEF SameEntries
<1>4. \A s \in DOMAIN bound : IsSession(bound[s])
  BY <1>1, <1>2 DEF IsTable, IsSession
<1> QED
  BY <1>1, <1>3, <1>4 DEF IsTable

\* Storing an entry moves the message's slot to that entry and no other.
LEMMA StoreAt ==
  ASSUME NEW table, IsTable(table), NEW m, m.session \in DOMAIN table,
         m.key \in Keys, NEW entry \in Entry
  PROVE  /\ IsTable(Store(table, m, entry))
         /\ Slot(m) \in Slots
         /\ OnlyAt(table, Store(table, m, entry), Slot(m))
         /\ DOMAIN Store(table, m, entry) = DOMAIN table
         /\ Used(Store(table, m, entry), Slot(m))
         /\ Store(table, m, entry)[m.session].idempotency[m.key] = entry
<1> DEFINE next == Store(table, m, entry)
           cache == table[m.session].idempotency
           stored == [k \in DOMAIN cache \cup {m.key} |->
                        IF k = m.key THEN entry ELSE cache[k]]
<1>1. /\ DOMAIN next = DOMAIN table
      /\ \A s \in DOMAIN table : s # m.session => next[s] = table[s]
  BY DEF Store
<1>2. /\ DOMAIN next[m.session] = DOMAIN table[m.session]
      /\ next[m.session].idempotency = stored
  BY DEF Store, IsTable, IsSession
<1>3. Slot(m) \in Slots /\ Slot(m)[1] = m.session /\ Slot(m)[2] = m.key
  BY DEF Slot, Slots, IsTable
<1> HIDE DEF next
<1>4. IsSession(next[m.session])
  <2>1. DOMAIN stored \subseteq Keys
    BY DEF IsTable, IsSession
  <2>2. \A k \in DOMAIN stored : stored[k] \in Entry
    BY DEF IsTable, IsSession
  <2> QED
    BY <1>2, <2>1, <2>2 DEF IsTable, IsSession
<1>5. IsTable(next)
  BY <1>1, <1>4 DEF IsTable
<1>6. \A s \in DOMAIN table : \A k : << s, k >> # Slot(m) =>
        /\ k \in DOMAIN next[s].idempotency <=> k \in DOMAIN table[s].idempotency
        /\ k \in DOMAIN table[s].idempotency =>
             next[s].idempotency[k] = table[s].idempotency[k]
  BY <1>1, <1>2 DEF Slot
<1>7. OnlyAt(table, next, Slot(m))
  <2> SUFFICES ASSUME NEW other \in Slots, other # Slot(m)
               PROVE  LifeOf(next, other) = LifeOf(table, other)
    BY DEF OnlyAt
  <2>1. other = << other[1], other[2] >>
    BY DEF Slots
  <2>2. CASE other[1] \in DOMAIN table
    BY <1>1, <1>6, <2>1, <2>2 DEF LifeOf, Used
  <2>3. CASE other[1] \notin DOMAIN table
    BY <1>1, <2>3 DEF LifeOf, Used
  <2> QED
    BY <2>2, <2>3
<1>8. Used(next, Slot(m)) /\ next[m.session].idempotency[m.key] = entry
  BY <1>1, <1>2, <1>3 DEF Used
<1> QED
  BY <1>1, <1>3, <1>5, <1>7, <1>8 DEF next

\* A tombstone is an entry like another.
LEMMA ReclaimIsStore ==
  ASSUME NEW table, IsTable(table), NEW m, m.session \in DOMAIN table,
         m.key \in DOMAIN table[m.session].idempotency
  PROVE  LET tomb == [table[m.session].idempotency[m.key] EXCEPT
                        !.operation = "dropped", !.terminal = None,
                        !.reclaimed = TRUE]
         IN  /\ tomb \in Entry
             /\ EntryLife(tomb) =
                  [stage |-> "given-up",
                   command |-> table[m.session].idempotency[m.key].fingerprint]
             /\ ReclaimEntry(table, m) = Store(table, m, tomb)
<1> DEFINE cache == table[m.session].idempotency
           entry == cache[m.key]
           tomb == [entry EXCEPT !.operation = "dropped", !.terminal = None,
                                 !.reclaimed = TRUE]
<1>1. entry \in Entry
  BY DEF IsTable, IsSession
<1>2. /\ tomb \in Entry /\ tomb.reclaimed = TRUE
      /\ tomb.fingerprint = entry.fingerprint
  <2> HIDE DEF entry
  <2> QED
    BY <1>1 DEF Entry, Terminals
<1>3. EntryLife(tomb) = [stage |-> "given-up", command |-> entry.fingerprint]
  <2> HIDE DEF tomb
  <2> QED
    BY <1>2 DEF EntryLife
<1>4. ReclaimEntry(table, m)
        = [table EXCEPT ![m.session].idempotency = [cache EXCEPT ![m.key] = tomb]]
  BY DEF ReclaimEntry
<1>5. [cache EXCEPT ![m.key] = tomb]
        = [k \in DOMAIN cache \cup {m.key} |-> IF k = m.key THEN tomb ELSE cache[k]]
  <2> HIDE DEF tomb, cache
  <2>1. m.key \in DOMAIN cache
    BY DEF cache
  <2> QED
    BY <2>1
<1>6. Store(table, m, tomb)
        = [table EXCEPT ![m.session].idempotency =
             [k \in DOMAIN cache \cup {m.key} |->
                IF k = m.key THEN tomb ELSE cache[k]]]
  BY DEF Store
<1> QED
  BY <1>2, <1>3, <1>4, <1>5, <1>6
-------------------------------------------------------------------------------
(* Answers.                                                                *)

\* An answer that starts nothing and moves at most the message's slot.
Settles(table, answer, m) ==
  /\ IsTable(answer.sessions)
  /\ answer.started = FALSE
  /\ \/ Same(table, answer.sessions)
     \/ /\ Slot(m) \in Slots
        /\ OnlyAt(table, answer.sessions, Slot(m))
        /\ \/ Finished(LifeOf(table, Slot(m)), LifeOf(answer.sessions, Slot(m)))
           \/ Dropped(LifeOf(table, Slot(m)), LifeOf(answer.sessions, Slot(m)))

\* An answer that starts the effect of the message's unused slot.
Starts(table, answer, m) ==
  /\ IsTable(answer.sessions)
  /\ answer.started = TRUE
  /\ Slot(m) \in Slots
  /\ OnlyAt(table, answer.sessions, Slot(m))
  /\ LifeOf(table, Slot(m)) = [stage |-> "unused"]
  /\ Begun(LifeOf(answer.sessions, Slot(m)))

LEMMA ErrorSettles ==
  ASSUME NEW table, IsTable(table), NEW next, IsTable(next),
         SameEntries(table, next), NEW m, NEW code
  PROVE  Settles(table, Error(next, m, code), m)
BY SameEntriesSame DEF Settles, Error, Answer

LEMMA FingerprintTyped ==
  ASSUME NEW entry \in Entry
  PROVE  entry.fingerprint \in Commands
BY DEF Entry

\* A report stores its entry, as it was or with its terminal fact.
LEMMA ReportStores ==
  ASSUME NEW table, IsTable(table), NEW m, m.session \in DOMAIN table,
         m.key \in Keys, NEW entry \in Entry, ~entry.reclaimed,
         NEW version, NEW cached, NEW withResult,
         NEW poll, \E b \in Backend : poll = b.poll
  PROVE  \E kept \in Entry :
           /\ Report(table, m, version, entry, cached, withResult, poll).sessions
                = Store(table, m, kept)
           /\ ~kept.reclaimed /\ kept.fingerprint = entry.fingerprint
           /\ \/ kept = entry
              \/ Finished(EntryLife(entry), EntryLife(kept))
<1> DEFINE seen == Observe(entry, poll)
           report == Report(table, m, version, entry, cached, withResult, poll)
<1>1. report.sessions = Store(table, m, seen.entry)
  BY DEF Report, Error, Answer
<1>2. CASE seen.entry = entry
  BY <1>1, <1>2
<1>3. CASE /\ entry.terminal = None
           /\ \E r \in Encodable : seen.entry = [entry EXCEPT !.terminal = Some(r)]
  <2>1. PICK r \in Encodable : seen.entry = [entry EXCEPT !.terminal = Some(r)]
    BY <1>3
  <2>2. /\ seen.entry \in Entry
        /\ EntryLife(entry) = [stage |-> "running", command |-> entry.fingerprint]
        /\ EntryLife(seen.entry)
             = [stage |-> "done", command |-> entry.fingerprint, result |-> r]
    BY <1>3, <2>1, FilledLife
  <2>3. Finished(EntryLife(entry), EntryLife(seen.entry))
    BY <2>2 DEF Finished
  <2>4. /\ ~seen.entry.reclaimed
        /\ seen.entry.fingerprint = entry.fingerprint
    BY <2>1 DEF Entry
  <2> QED
    BY <1>1, <2>2, <2>3, <2>4
<1>4. \/ seen.entry = entry
      \/ /\ entry.terminal = None
         /\ \E r \in Encodable : seen.entry = [entry EXCEPT !.terminal = Some(r)]
  BY ObserveKeeps
<1> QED
  BY <1>2, <1>3, <1>4

LEMMA StoredLife ==
  ASSUME NEW table, IsTable(table), NEW m, m.session \in DOMAIN table,
         m.key \in Keys, NEW entry \in Entry
  PROVE  LifeOf(Store(table, m, entry), Slot(m)) = EntryLife(entry)
<1>1. /\ Used(Store(table, m, entry), Slot(m))
      /\ Store(table, m, entry)[m.session].idempotency[m.key] = entry
  BY StoreAt
<1> QED
  BY <1>1 DEF LifeOf, Slot

\* The entry a message names, and the life it shows.
LEMMA EntryHeld ==
  ASSUME NEW table, IsTable(table), NEW m, m.session \in DOMAIN table,
         m.key \in DOMAIN table[m.session].idempotency
  PROVE  /\ table[m.session].idempotency[m.key] \in Entry
         /\ m.key \in Keys
         /\ LifeOf(table, Slot(m)) = EntryLife(table[m.session].idempotency[m.key])
BY DEF IsTable, IsSession, LifeOf, Used, Slot

LEMMA SameAt ==
  ASSUME NEW table, NEW next, NEW slot \in Slots, OnlyAt(table, next, slot),
         LifeOf(next, slot) = LifeOf(table, slot)
  PROVE  Same(table, next)
BY DEF OnlyAt, Same

\* A report on the entry a slot already has.
LEMMA ReportSettles ==
  ASSUME NEW table, IsTable(table), NEW m, m.session \in DOMAIN table,
         m.key \in DOMAIN table[m.session].idempotency,
         ~table[m.session].idempotency[m.key].reclaimed,
         NEW version, NEW cached, NEW withResult,
         NEW poll, \E b \in Backend : poll = b.poll
  PROVE  Settles(table, Report(table, m, version,
                               table[m.session].idempotency[m.key],
                               cached, withResult, poll), m)
<1> DEFINE entry == table[m.session].idempotency[m.key]
           report == Report(table, m, version, entry, cached, withResult, poll)
<1>1. /\ entry \in Entry /\ m.key \in Keys /\ ~entry.reclaimed
      /\ LifeOf(table, Slot(m)) = EntryLife(entry)
  BY EntryHeld
<1>2. PICK kept \in Entry :
        /\ report.sessions = Store(table, m, kept)
        /\ \/ kept = entry
           \/ Finished(EntryLife(entry), EntryLife(kept))
  <2> HIDE DEF entry
  <2>1. \E k \in Entry :
          /\ Report(table, m, version, entry, cached, withResult, poll).sessions
               = Store(table, m, k)
          /\ \/ k = entry
             \/ Finished(EntryLife(entry), EntryLife(k))
    BY <1>1, ReportStores
  <2> QED
    BY <2>1
<1>3. report.started = FALSE
  BY DEF Report, Error, Answer
<1>4. /\ IsTable(report.sessions) /\ Slot(m) \in Slots
      /\ OnlyAt(table, report.sessions, Slot(m))
      /\ LifeOf(report.sessions, Slot(m)) = EntryLife(kept)
  BY <1>1, <1>2, StoreAt, StoredLife
<1>5. Settles(table, report, m)
  <2> HIDE DEF report, entry
  <2>1. CASE kept = entry
    BY <1>1, <1>3, <1>4, <2>1, SameAt DEF Settles
  <2>2. CASE Finished(EntryLife(entry), EntryLife(kept))
    BY <1>1, <1>3, <1>4, <2>2 DEF Settles
  <2> QED
    BY <1>2, <2>1, <2>2
<1> QED
  BY <1>5
-------------------------------------------------------------------------------
(* The requests of a session, on a table the request is bound in.          *)

LEMMA CachedCommandSettles ==
  ASSUME NEW table, IsTable(table), NEW m, m.session \in DOMAIN table,
         m.key \in DOMAIN table[m.session].idempotency,
         NEW poll, \E b \in Backend : poll = b.poll
  PROVE  Settles(table, CachedCommand(table, m, poll), m)
<1> DEFINE entry == table[m.session].idempotency[m.key]
<1>1. \A code : Settles(table, Error(table, m, code), m)
  BY ErrorSettles DEF SameEntries
<1>2. ~entry.reclaimed =>
        Settles(table, Report(table, m, table[m.session].version, entry,
                              TRUE, TRUE, poll), m)
  BY ReportSettles
<1> QED
  BY <1>1, <1>2 DEF CachedCommand

LEMMA StartedStarts ==
  ASSUME NEW table, IsTable(table), NEW m, m.session \in DOMAIN table,
         m.key \in Keys, m.key \notin DOMAIN table[m.session].idempotency,
         m.command \in Commands,
         NEW poll, \E b \in Backend : poll = b.poll
  PROVE  Starts(table, Started(table, m, poll), m)
<1> DEFINE fresh == NewEntry(m.command)
           report == Report(table, m, table[m.session].version, fresh, FALSE,
                            TRUE, poll)
           answer == Started(table, m, poll)
<1>1. /\ fresh \in Entry /\ ~fresh.reclaimed
      /\ EntryLife(fresh) = [stage |-> "running", command |-> m.command]
  BY DEF NewEntry, Entry, Terminals, EntryLife
<1>2. PICK kept \in Entry :
        /\ report.sessions = Store(table, m, kept)
        /\ kept = fresh \/ Finished(EntryLife(fresh), EntryLife(kept))
  <2> HIDE DEF fresh
  <2>1. \A version, cached, withResult : \E k \in Entry :
          /\ Report(table, m, version, fresh, cached, withResult, poll).sessions
               = Store(table, m, k)
          /\ k = fresh \/ Finished(EntryLife(fresh), EntryLife(k))
    BY <1>1, ReportStores
  <2> QED
    BY <2>1, Zenon
<1>3. answer.started = TRUE /\ answer.sessions = report.sessions
  BY DEF Started, Report, Error, Answer
<1>4. /\ IsTable(answer.sessions) /\ Slot(m) \in Slots
      /\ OnlyAt(table, answer.sessions, Slot(m))
      /\ LifeOf(answer.sessions, Slot(m)) = EntryLife(kept)
  <2>1. answer.sessions = Store(table, m, kept)
    BY <1>2, <1>3
  <2> HIDE DEF answer
  <2> QED
    BY <2>1, StoreAt, StoredLife
<1>5. LifeOf(table, Slot(m)) = [stage |-> "unused"]
  BY DEF LifeOf, Used, Slot
<1>6. Begun(EntryLife(kept))
  <2> HIDE DEF fresh
  <2>1. CASE kept = fresh
    BY <1>1, <2>1 DEF Begun
  <2>2. CASE Finished(EntryLife(fresh), EntryLife(kept))
    BY <1>1, <2>2 DEF Begun, Finished
  <2> QED
    BY <1>2, <2>1, <2>2
<1> HIDE DEF answer
<1>7. Starts(table, answer, m)
  BY <1>3, <1>4, <1>5, <1>6 DEF Starts
<1> QED
  BY <1>7 DEF answer

LEMMA FirstCommandHandled ==
  ASSUME NEW table, IsTable(table), NEW m, m.session \in DOMAIN table,
         m.key \in Keys, m.key \notin DOMAIN table[m.session].idempotency,
         m.command \in Commands, NEW backend \in Backend
  PROVE  \/ Settles(table, FirstCommand(table, m, backend), m)
         \/ Starts(table, FirstCommand(table, m, backend), m)
<1> DEFINE answer == FirstCommand(table, m, backend)
<1>1. \A code : Settles(table, Error(table, m, code), m)
  BY ErrorSettles DEF SameEntries
<1>2. \A code : Settles(table, [Error(table, m, code) EXCEPT !.called = TRUE], m)
  <2> TAKE code
  <2>1. LET e == [Error(table, m, code) EXCEPT !.called = TRUE]
        IN  e.sessions = Error(table, m, code).sessions
            /\ e.started = Error(table, m, code).started
    BY DEF Error, Answer
  <2> QED
    BY <1>1, <2>1 DEF Settles
<1>3. Starts(table, Started(table, m, backend.poll), m)
  BY StartedStarts
<1>4. \/ backend.validate = "refused"
      \/ backend.validate = "raises"
      \/ backend.validate = "ok" /\ backend.start = "raises"
      \/ backend.validate = "ok" /\ backend.start = "no-operation"
      \/ backend.validate = "ok" /\ backend.start = "operation"
  BY DEF Backend, Asked
<1>5. CASE backend.validate = "refused" \/ backend.validate = "raises"
  BY <1>1, <1>5 DEF FirstCommand
<1>6. CASE backend.validate = "ok" /\ backend.start = "raises"
  BY <1>2, <1>6 DEF FirstCommand
<1>7. CASE backend.validate = "ok" /\ backend.start = "no-operation"
  BY <1>2, <1>7 DEF FirstCommand
<1>8. CASE backend.validate = "ok" /\ backend.start = "operation"
  BY <1>3, <1>8 DEF FirstCommand
<1> QED
  BY <1>4, <1>5, <1>6, <1>7, <1>8

LEMMA CommandHandled ==
  ASSUME NEW table, IsTable(table), NEW m, m.session \in DOMAIN table,
         m.command \in Commands, NEW backend \in Backend
  PROVE  \/ Settles(table, CommandRequest(table, m, backend), m)
         \/ Starts(table, CommandRequest(table, m, backend), m)
<1>1. \A code : Settles(table, Error(table, m, code), m)
  BY ErrorSettles DEF SameEntries
<1>2. CASE m.key \notin Keys
  BY <1>1, <1>2 DEF CommandRequest
<1>3. CASE m.key \in Keys /\ m.key \in DOMAIN table[m.session].idempotency
  BY <1>3, CachedCommandSettles DEF CommandRequest
<1>4. CASE m.key \in Keys /\ m.key \notin DOMAIN table[m.session].idempotency
  BY <1>4, FirstCommandHandled DEF CommandRequest
<1> QED
  BY <1>2, <1>3, <1>4

\* A terminal collect with reclaim reports the entry and then drops it.
LEMMA ReclaimSettles ==
  ASSUME NEW table, IsTable(table), NEW m, m.session \in DOMAIN table,
         m.key \in DOMAIN table[m.session].idempotency,
         ~table[m.session].idempotency[m.key].reclaimed,
         NEW version, NEW cached, NEW withResult,
         NEW poll, \E b \in Backend : poll = b.poll
  PROVE  LET report == Report(table, m, version,
                              table[m.session].idempotency[m.key],
                              cached, withResult, poll)
         IN  Settles(table, [report EXCEPT !.sessions = ReclaimEntry(@, m)], m)
<1> DEFINE entry == table[m.session].idempotency[m.key]
           report == Report(table, m, version, entry, cached, withResult, poll)
           answer == [report EXCEPT !.sessions = ReclaimEntry(@, m)]
<1>1. /\ entry \in Entry /\ m.key \in Keys /\ ~entry.reclaimed
      /\ LifeOf(table, Slot(m)) = EntryLife(entry)
  BY EntryHeld
<1>2. PICK kept \in Entry :
        /\ report.sessions = Store(table, m, kept)
        /\ kept.fingerprint = entry.fingerprint
  <2> HIDE DEF entry
  <2>1. \E k \in Entry :
          /\ Report(table, m, version, entry, cached, withResult, poll).sessions
               = Store(table, m, k)
          /\ k.fingerprint = entry.fingerprint
    BY <1>1, ReportStores
  <2> QED
    BY <2>1
<1>3. answer.started = FALSE /\ answer.sessions = ReclaimEntry(report.sessions, m)
  BY DEF Report, Error, Answer
<1> DEFINE stored == Store(table, m, kept)
<1>4. /\ IsTable(stored) /\ m.session \in DOMAIN stored
      /\ m.key \in DOMAIN stored[m.session].idempotency
      /\ stored[m.session].idempotency[m.key] = kept
      /\ OnlyAt(table, stored, Slot(m)) /\ Slot(m) \in Slots
  BY <1>1, StoreAt DEF Used, Slot
<1> HIDE DEF stored
<1>5. PICK tomb \in Entry :
        /\ EntryLife(tomb) = [stage |-> "given-up", command |-> kept.fingerprint]
        /\ ReclaimEntry(stored, m) = Store(stored, m, tomb)
  BY <1>4, ReclaimIsStore
<1>6. /\ IsTable(answer.sessions)
      /\ OnlyAt(stored, answer.sessions, Slot(m))
      /\ LifeOf(answer.sessions, Slot(m))
           = [stage |-> "given-up", command |-> entry.fingerprint]
  <2>1. answer.sessions = Store(stored, m, tomb)
    BY <1>2, <1>3, <1>5 DEF stored
  <2> HIDE DEF answer
  <2>2. IsTable(answer.sessions) /\ OnlyAt(stored, answer.sessions, Slot(m))
    BY <1>1, <1>4, <2>1, StoreAt
  <2>3. LifeOf(answer.sessions, Slot(m)) = EntryLife(tomb)
    BY <1>1, <1>4, <2>1, StoredLife
  <2> QED
    BY <1>2, <1>5, <2>2, <2>3
<1>7. OnlyAt(table, answer.sessions, Slot(m))
  BY <1>4, <1>6 DEF OnlyAt
<1>8. /\ EntryLife(entry).stage \in {"running", "done"}
      /\ EntryLife(entry).command = entry.fingerprint
  BY <1>1, LiveEntryLife
<1>9. Dropped(LifeOf(table, Slot(m)), LifeOf(answer.sessions, Slot(m)))
  BY <1>1, <1>6, <1>8 DEF Dropped
<1>10. Settles(table, answer, m)
  <2> HIDE DEF answer
  <2> QED
    BY <1>3, <1>4, <1>6, <1>7, <1>9 DEF Settles
<1> QED
  BY <1>10
LEMMA QueryHandled ==
  ASSUME NEW table, IsTable(table), NEW m, m.session \in DOMAIN table,
         NEW backend \in Backend
  PROVE  Settles(table, Query(table, m, backend), m)
<1> DEFINE session == table[m.session]
           entry == session.idempotency[m.key]
           report == Report(table, m, session.version, entry, TRUE,
                            m.kind = "collect", backend.poll)
<1>1. \A code : Settles(table, Error(table, m, code), m)
  BY ErrorSettles DEF SameEntries
<1>2. ASSUME m.key \in DOMAIN session.idempotency, ~entry.reclaimed
      PROVE  /\ Settles(table, report, m)
             /\ Settles(table, [report EXCEPT !.sessions = ReclaimEntry(@, m)], m)
  <2>1. \A version, cached, withResult :
          Settles(table, Report(table, m, version, entry, cached, withResult,
                                backend.poll), m)
    BY <1>2, ReportSettles
  <2>2. \A version, cached, withResult :
          Settles(table, [Report(table, m, version, entry, cached, withResult,
                                 backend.poll)
                            EXCEPT !.sessions = ReclaimEntry(@, m)], m)
    BY <1>2, ReclaimSettles
  <2> QED
    BY <2>1, <2>2, Zenon
<1> HIDE DEF report
<1>3. Query(table, m, backend)
        = IF m.key \notin Keys THEN Error(table, m, "invalid-idempotency-key")
          ELSE IF m.kind = "collect" /\ m.reclaim \notin {"true", "false"}
          THEN Error(table, m, "invalid-reclaim")
          ELSE IF m.key \notin DOMAIN session.idempotency
          THEN Error(table, m, "unknown-idempotency-key")
          ELSE IF entry.reclaimed
          THEN Error(table, m, "idempotency-result-reclaimed")
          ELSE IF /\ m.kind = "collect" /\ m.reclaim = "true"
                  /\ report.response.kind = "observation"
                  /\ report.response.status = "terminal"
          THEN [report EXCEPT !.sessions = ReclaimEntry(@, m)]
          ELSE report
  BY DEF Query, report
<1> QED
  BY <1>1, <1>2, <1>3

\* A new session starts with no entry; no other session moves.
LEMMA HelloHandled ==
  ASSUME NEW table, IsTable(table), NEW m, m.session \in Sessions
  PROVE  Settles(table, Hello(table, m), m)
<1>1. \A code : Settles(table, Error(table, m, code), m)
  BY ErrorSettles DEF SameEntries
<1>2. \A response : Settles(table, Answer(table, response), m)
  BY DEF Settles, Answer, Same
<1>3. ASSUME m.session \notin DOMAIN table, NEW version, NEW response
      PROVE  Settles(table,
               Answer([s \in DOMAIN table \cup {m.session} |->
                         IF s = m.session THEN NewSession(m, version)
                         ELSE table[s]], response), m)
  <2> DEFINE next == [s \in DOMAIN table \cup {m.session} |->
                        IF s = m.session THEN NewSession(m, version) ELSE table[s]]
  <2>1. IsSession(NewSession(m, version))
    BY DEF IsSession, NewSession
  <2>2. DOMAIN NewSession(m, version).idempotency = {}
    BY DEF NewSession
  <2>3. /\ DOMAIN next = DOMAIN table \cup {m.session}
        /\ next[m.session] = NewSession(m, version)
        /\ \A s \in DOMAIN table : next[s] = table[s]
    BY <1>3
  <2> HIDE DEF next
  <2>4. IsTable(next)
    BY <2>1, <2>3 DEF IsTable
  <2>5. \A slot : LifeOf(next, slot) = LifeOf(table, slot)
    BY <1>3, <2>2, <2>3 DEF LifeOf, Used
  <2>6. Settles(table, Answer(next, response), m)
    BY <2>4, <2>5 DEF Settles, Answer, Same
  <2> QED
    BY <2>6 DEF next
<1> QED
  BY <1>1, <1>2, <1>3 DEF Hello

\* From the bound table back to the table the request met.
LEMMA SettlesFrom ==
  ASSUME NEW table, NEW bound, Same(table, bound), NEW answer, NEW m,
         Settles(bound, answer, m)
  PROVE  Settles(table, answer, m)
<1>1. CASE Same(bound, answer.sessions)
  BY <1>1 DEF Settles, Same
<1>2. CASE ~Same(bound, answer.sessions)
  <2>1. /\ Slot(m) \in Slots /\ OnlyAt(bound, answer.sessions, Slot(m))
        /\ LifeOf(bound, Slot(m)) = LifeOf(table, Slot(m))
    BY <1>2 DEF Settles, Same
  <2>2. OnlyAt(table, answer.sessions, Slot(m))
    BY <2>1 DEF OnlyAt, Same
  <2> QED
    BY <1>2, <2>1, <2>2 DEF Settles
<1> QED
  BY <1>1, <1>2

LEMMA StartsFrom ==
  ASSUME NEW table, NEW bound, Same(table, bound), NEW answer, NEW m,
         Starts(bound, answer, m)
  PROVE  Starts(table, answer, m)
BY DEF Starts, Same, OnlyAt

LEMMA Handled ==
  ASSUME NEW table, IsTable(table), NEW m \in Messages, NEW backend \in Backend
  PROVE  \/ Settles(table, Handle(table, m, backend), m)
         \/ Starts(table, Handle(table, m, backend), m)
<1> DEFINE bound == Bind(table, m)
<1>1. \A code : Settles(table, Error(table, m, code), m)
  BY ErrorSettles DEF SameEntries
<1>2. CASE m.kind = "other" \/ m.shape # "ok"
  BY <1>1, <1>2 DEF Handle
<1>3. CASE m.kind = "hello" /\ m.shape = "ok"
  BY <1>3, HelloHandled, MessagesAssumption DEF Handle
<1>4. CASE m.kind \notin {"hello", "other"} /\ m.shape = "ok"
  <2>1. CASE RequestCode(table, m) # "ok"
    BY <1>1, <1>4, <2>1 DEF Handle
  <2>2. CASE RequestCode(table, m) = "ok"
    <3>1. m.session \in DOMAIN table
      BY <2>2 DEF RequestCode
    <3>2. /\ IsTable(bound) /\ Same(table, bound)
          /\ m.session \in DOMAIN bound
      BY <3>1, BindKeeps, SameEntriesSame DEF SameEntries
    <3> HIDE DEF bound
    <3>3. CASE m.kind = "command"
      <4>1. Handle(table, m, backend) = CommandRequest(bound, m, backend)
        BY <1>4, <2>2, <3>3 DEF Handle, bound
      <4>2. m.command \in Commands
        BY <1>4, <3>3, MessagesAssumption
      <4> QED
        BY <3>2, <4>1, <4>2, CommandHandled, SettlesFrom, StartsFrom
    <3>4. CASE m.kind # "command"
      <4>1. Handle(table, m, backend) = Query(bound, m, backend)
        BY <1>4, <2>2, <3>4 DEF Handle, bound
      <4> QED
        BY <3>2, <4>1, QueryHandled, SettlesFrom
    <3> QED
      BY <3>3, <3>4
  <2> QED
    BY <2>1, <2>2
<1> QED
  BY <1>2, <1>3, <1>4
-------------------------------------------------------------------------------
(* The refinement.                                                         *)

\* The table keeps its types whatever is sent and whatever the backend does.
LEMMA TypeInvKept == Spec => []TypeInv
<1>1. Init => TypeInv
  BY DEF Init, TypeInv, IsTable
<1>2. TypeInv /\ [Next]_vars => TypeInv'
  <2> SUFFICES ASSUME TypeInv, [Next]_vars PROVE TypeInv'
    OBVIOUS
  <2>1. ASSUME NEW m \in Messages, NEW backend \in Backend, Receive(m, backend)
        PROVE  TypeInv'
    <3> DEFINE answer == Handle(sessions, m, backend)
    <3>1. sessions' = answer.sessions
      BY <2>1 DEF Receive
    <3>2. \/ Settles(sessions, answer, m)
          \/ Starts(sessions, answer, m)
      BY Handled DEF TypeInv
    <3>3. effects' = IF answer.started THEN [effects EXCEPT ![Slot(m)] = @ + 1]
                     ELSE effects
      BY <2>1 DEF Receive
    <3> HIDE DEF answer
    <3>4. IsTable(sessions')
      BY <3>1, <3>2 DEF Settles, Starts
    <3>5. effects' \in [Slots -> Nat]
      BY <3>2, <3>3 DEF TypeInv, Settles, Starts
    <3> QED
      BY <3>4, <3>5 DEF TypeInv
  <2>2. CASE UNCHANGED vars
    BY <2>2 DEF vars, TypeInv
  <2> QED
    BY <2>1, <2>2 DEF Next
<1> QED
  BY <1>1, <1>2, PTL DEF Spec

LEMMA LifeFunction ==
  ASSUME NEW before, NEW after, NEW slot \in Slots, OnlyAt(before, after, slot)
  PROVE  [s \in Slots |-> LifeOf(after, s)]
           = [[s \in Slots |-> LifeOf(before, s)]
                EXCEPT ![slot] = LifeOf(after, slot)]
BY DEF OnlyAt

\* The life a slot of a well-formed table shows is of a known command.
LEMMA LifeTyped ==
  ASSUME NEW table, IsTable(table), NEW slot \in Slots
  PROVE  LET life == LifeOf(table, slot)
         IN  \/ life = Abstract!Unused
             \/ \E c \in Commands :
                  \/ life = Abstract!Running(c)
                  \/ \E r \in Encodable : life = Abstract!Done(c, r)
                  \/ life = Abstract!GivenUp(c)
<1>1. CASE ~Used(table, slot)
  BY <1>1 DEF LifeOf, Abstract!Unused
<1>2. CASE Used(table, slot)
  <2> DEFINE entry == table[slot[1]].idempotency[slot[2]]
  <2>1. entry \in Entry /\ LifeOf(table, slot) = EntryLife(entry)
    BY <1>2 DEF Used, IsTable, IsSession, LifeOf
  <2> HIDE DEF entry
  <2>2. entry.fingerprint \in Commands
    BY <2>1 DEF Entry
  <2>3. CASE entry.reclaimed
    BY <2>1, <2>2, <2>3 DEF EntryLife, Abstract!GivenUp
  <2>4. CASE ~entry.reclaimed
    BY <2>1, <2>2, <2>4, LiveEntryLife DEF Abstract!Running, Abstract!Done
  <2> QED
    BY <2>3, <2>4
<1> QED
  BY <1>1, <1>2

\* The endpoint implements the at-most-once effect of uap.md: every handled
\* message performs the effect of an unused slot, finishes or gives up a used
\* one, or changes no slot.
THEOREM EndpointImplementsEffectOnce == Spec => ImplementsEffectOnce
<1>1. Init => Abstract!Init
  BY DEF Init, Abstract!Init, Abstract!Unused, LifeOf, Used
<1>2. TypeInv /\ [Next]_vars => [Abstract!Next]_(Abstract!vars)
  <2> SUFFICES ASSUME TypeInv, [Next]_vars
               PROVE  Abstract!Next \/ UNCHANGED Abstract!vars
    OBVIOUS
  <2>1. ASSUME NEW m \in Messages, NEW backend \in Backend, Receive(m, backend)
        PROVE  Abstract!Next \/ UNCHANGED Abstract!vars
    <3> DEFINE answer == Handle(sessions, m, backend)
               slot == Slot(m)
               before == LifeOf(sessions, slot)
               after == LifeOf(answer.sessions, slot)
    <3>1. /\ sessions' = answer.sessions
          /\ effects' = IF answer.started THEN [effects EXCEPT ![slot] = @ + 1]
                        ELSE effects
      BY <2>1 DEF Receive
    <3>2. \/ Settles(sessions, answer, m)
          \/ Starts(sessions, answer, m)
      BY Handled DEF TypeInv
    <3> HIDE DEF answer
    <3>3. CASE Settles(sessions, answer, m) /\ Same(sessions, answer.sessions)
      <4>1. effects' = effects
        BY <3>1, <3>3 DEF Settles
      <4>2. [s \in Slots |-> LifeOf(sessions, s)]'
              = [s \in Slots |-> LifeOf(sessions, s)]
        BY <3>1, <3>3 DEF Same
      <4> QED
        BY <4>1, <4>2 DEF Abstract!vars
    <3>4. CASE Settles(sessions, answer, m) /\ ~Same(sessions, answer.sessions)
      <4>1. /\ slot \in Slots /\ effects' = effects
            /\ OnlyAt(sessions, answer.sessions, slot)
            /\ Finished(before, after) \/ Dropped(before, after)
        BY <3>1, <3>4 DEF Settles
      <4>2. [s \in Slots |-> LifeOf(sessions, s)]'
              = [[s \in Slots |-> LifeOf(sessions, s)] EXCEPT ![slot] = after]
        BY <3>1, <4>1, LifeFunction
      <4>3. [s \in Slots |-> LifeOf(sessions, s)][slot] = before
        BY <4>1
      <4> HIDE DEF slot, before, after
      <4>4. \/ before = Abstract!Unused
            \/ \E c \in Commands :
                 \/ before = Abstract!Running(c)
                 \/ \E r \in Encodable : before = Abstract!Done(c, r)
                 \/ before = Abstract!GivenUp(c)
        BY <4>1, LifeTyped DEF TypeInv, before
      <4>5. CASE Finished(before, after)
        <5>1. PICK c \in Commands : before = Abstract!Running(c)
          BY <4>4, <4>5 DEF Finished, Abstract!Unused, Abstract!Running,
                            Abstract!Done, Abstract!GivenUp
        <5>2. PICK r \in Encodable : after = Abstract!Done(c, r)
          BY <4>5, <5>1 DEF Finished, Abstract!Running, Abstract!Done
        <5>3. Abstract!Finish(slot, c)
          BY <4>1, <4>2, <4>3, <5>1, <5>2 DEF Abstract!Finish
        <5> QED
          BY <4>1, <5>3 DEF Abstract!Next
      <4>6. CASE Dropped(before, after)
        <5>1. PICK c \in Commands :
                \/ before = Abstract!Running(c)
                \/ \E r \in Encodable : before = Abstract!Done(c, r)
          BY <4>4, <4>6 DEF Dropped, Abstract!Unused, Abstract!Running,
                            Abstract!Done, Abstract!GivenUp
        <5>2. after = Abstract!GivenUp(c)
          BY <4>6, <5>1 DEF Dropped, Abstract!Running, Abstract!Done,
                            Abstract!GivenUp
        <5>3. Abstract!GiveUp(slot, c)
          BY <4>1, <4>2, <4>3, <5>1, <5>2 DEF Abstract!GiveUp
        <5> QED
          BY <4>1, <5>3 DEF Abstract!Next
      <4> QED
        BY <4>1, <4>5, <4>6
    <3>5. CASE Starts(sessions, answer, m)
      <4>1. /\ slot \in Slots
            /\ effects' = [effects EXCEPT ![slot] = @ + 1]
            /\ OnlyAt(sessions, answer.sessions, slot)
            /\ before = Abstract!Unused /\ Begun(after)
        BY <3>1, <3>5 DEF Starts, Abstract!Unused
      <4>2. [s \in Slots |-> LifeOf(sessions, s)]'
              = [[s \in Slots |-> LifeOf(sessions, s)] EXCEPT ![slot] = after]
        BY <3>1, <4>1, LifeFunction
      <4>3. [s \in Slots |-> LifeOf(sessions, s)][slot] = before
        BY <4>1
      <4> HIDE DEF slot, before, after
      <4>4. PICK c \in Commands :
              \/ after = Abstract!Running(c)
              \/ \E r \in Encodable : after = Abstract!Done(c, r)
        BY <4>1 DEF Begun, Abstract!Running, Abstract!Done
      <4>5. Abstract!Perform(slot, c)
        BY <4>1, <4>2, <4>3, <4>4 DEF Abstract!Perform
      <4> QED
        BY <4>1, <4>4, <4>5 DEF Abstract!Next
    <3> QED
      BY <3>2, <3>3, <3>4, <3>5
  <2>2. CASE UNCHANGED vars
    BY <2>2 DEF vars, Abstract!vars
  <2> QED
    BY <2>1, <2>2 DEF Next
<1> QED
  BY <1>1, <1>2, TypeInvKept, PTL DEF Spec, ImplementsEffectOnce, Abstract!Spec

-------------------------------------------------------------------------------
(* What an answer may change.                                              *)

\* An entry's command stands, so does its terminal fact, until it is a tombstone.
EntryGrows(before, after) ==
  /\ after.fingerprint = before.fingerprint
  /\ before.reclaimed => after.reclaimed
  /\ after.reclaimed \/ before.terminal = None \/ after.terminal = before.terminal

SessionGrows(before, after) ==
  /\ after.version = before.version /\ after.hello = before.hello
  /\ \A r \in DOMAIN before.requests :
       r \in DOMAIN after.requests /\ after.requests[r] = before.requests[r]
  /\ \A k \in DOMAIN before.idempotency :
       /\ k \in DOMAIN after.idempotency
       /\ EntryGrows(before.idempotency[k], after.idempotency[k])

\* The request identifier of a session's hello stands for that hello.
HelloBound(session) ==
  /\ session.hello.request \in DOMAIN session.requests
  /\ session.requests[session.hello.request] = session.hello

TableGrows(table, next) ==
  /\ \A s \in DOMAIN table : s \in DOMAIN next /\ SessionGrows(table[s], next[s])
  /\ \A s \in DOMAIN next \ DOMAIN table : HelloBound(next[s])

Untouched(table, next, m) ==
  /\ DOMAIN next = DOMAIN table
  /\ \A s \in DOMAIN table :
       /\ s # m.session => next[s] = table[s]
       /\ \A k \in DOMAIN table[s].idempotency :
            next[s].idempotency[k] = table[s].idempotency[k]

\* What an observation that was shown means for the entry it was made of.
Remembers(entry, m, response) ==
  /\ response.fingerprint = entry.fingerprint
  /\ response.status = "terminal" => entry.reclaimed \/ entry.terminal # None
  /\ response.result # None =>
       /\ response.status = "terminal"
       /\ entry.reclaimed \/ entry.terminal = response.result
  /\ m.kind = "collect" /\ m.reclaim = "true" /\ response.status = "terminal"
       => entry.reclaimed

\* What an observation shows of an entry that was there before.
Agrees(entry, response) ==
  /\ ~entry.reclaimed /\ response.fingerprint = entry.fingerprint
  /\ entry.terminal # None =>
       /\ response.status = "terminal"
       /\ response.result # None => response.result = entry.terminal

Shows(table, next, m, response) ==
  /\ m.session \in DOMAIN table /\ m.session \in DOMAIN next
  /\ m.key \in DOMAIN next[m.session].idempotency
  /\ response.version = next[m.session].version
  /\ m.kind = "command" => response.fingerprint = m.command
  /\ Remembers(next[m.session].idempotency[m.key], m, response)
  /\ m.key \in DOMAIN table[m.session].idempotency =>
       Agrees(table[m.session].idempotency[m.key], response)

Sound(table, answer, m) ==
  /\ TableGrows(table, answer.sessions)
  /\ \/ answer.response.kind \in {"error", "observation"}
     \/ answer.response.kind = "selection" /\ m.kind = "hello"
  /\ answer.response.kind = "error" => Untouched(table, answer.sessions, m)
  /\ answer.response.kind = "observation" =>
       Shows(table, answer.sessions, m, answer.response)

LEMMA GrowsTransitive ==
  ASSUME NEW first, NEW second, NEW third,
         TableGrows(first, second), TableGrows(second, third)
  PROVE  TableGrows(first, third)
<1>1. ASSUME NEW s \in DOMAIN third \ DOMAIN first
      PROVE  HelloBound(third[s])
  <2>1. CASE s \notin DOMAIN second
    BY <1>1, <2>1 DEF TableGrows
  <2>2. CASE s \in DOMAIN second
    <3>1. HelloBound(second[s]) /\ SessionGrows(second[s], third[s])
      BY <1>1, <2>2 DEF TableGrows
    <3> QED
      BY <3>1 DEF HelloBound, SessionGrows
  <2> QED
    BY <2>1, <2>2
<1>2. ASSUME NEW s \in DOMAIN first
      PROVE  s \in DOMAIN third /\ SessionGrows(first[s], third[s])
  <2>1. /\ s \in DOMAIN second /\ s \in DOMAIN third
        /\ SessionGrows(first[s], second[s]) /\ SessionGrows(second[s], third[s])
    BY <1>2 DEF TableGrows
  <2>2. ASSUME NEW k \in DOMAIN first[s].idempotency
        PROVE  /\ k \in DOMAIN third[s].idempotency
               /\ EntryGrows(first[s].idempotency[k], third[s].idempotency[k])
    <3>1. /\ k \in DOMAIN second[s].idempotency /\ k \in DOMAIN third[s].idempotency
          /\ EntryGrows(first[s].idempotency[k], second[s].idempotency[k])
          /\ EntryGrows(second[s].idempotency[k], third[s].idempotency[k])
      BY <2>1, <2>2 DEF SessionGrows
    <3> QED
      BY <3>1 DEF EntryGrows
  <2> QED
    BY <2>1, <2>2 DEF SessionGrows
<1> QED
  BY <1>1, <1>2 DEF TableGrows

LEMMA ErrorSound ==
  ASSUME NEW table, NEW m, NEW code
  PROVE  /\ Sound(table, Error(table, m, code), m)
         /\ Sound(table, [Error(table, m, code) EXCEPT !.called = TRUE], m)
<1>1. TableGrows(table, table) /\ Untouched(table, table, m)
  BY DEF TableGrows, SessionGrows, EntryGrows, Untouched
<1>2. /\ Error(table, m, code).sessions = table
      /\ Error(table, m, code).response.kind = "error"
  BY DEF Error, Answer, ErrorRecord
<1>3. /\ [Error(table, m, code) EXCEPT !.called = TRUE].sessions = table
      /\ [Error(table, m, code) EXCEPT !.called = TRUE].response.kind = "error"
  BY DEF Error, Answer, ErrorRecord
<1> QED
  BY <1>1, <1>2, <1>3 DEF Sound

-------------------------------------------------------------------------------
(* Reports.                                                                *)

\* Storing what an entry has grown to.
LEMMA StoreGrows ==
  ASSUME NEW table, IsTable(table), NEW m, m.session \in DOMAIN table,
         NEW entry,
         m.key \in DOMAIN table[m.session].idempotency
           => EntryGrows(table[m.session].idempotency[m.key], entry)
  PROVE  /\ TableGrows(table, Store(table, m, entry))
         /\ DOMAIN Store(table, m, entry) = DOMAIN table
         /\ Store(table, m, entry)[m.session].version = table[m.session].version
         /\ m.key \in DOMAIN Store(table, m, entry)[m.session].idempotency
         /\ Store(table, m, entry)[m.session].idempotency[m.key] = entry
         /\ \/ m.key \notin DOMAIN table[m.session].idempotency
            \/ entry = table[m.session].idempotency[m.key]
            => Untouched(table, Store(table, m, entry), m)
<1> DEFINE next == Store(table, m, entry)
           cache == table[m.session].idempotency
           stored == [k \in DOMAIN cache \cup {m.key} |->
                        IF k = m.key THEN entry ELSE cache[k]]
<1>1. /\ DOMAIN next = DOMAIN table
      /\ \A s \in DOMAIN table : s # m.session => next[s] = table[s]
  BY DEF Store
<1>2. /\ next[m.session].version = table[m.session].version
      /\ next[m.session].hello = table[m.session].hello
      /\ next[m.session].requests = table[m.session].requests
      /\ next[m.session].idempotency = stored
  BY DEF Store, IsTable, IsSession
<1> HIDE DEF next
<1>3. /\ DOMAIN stored = DOMAIN cache \cup {m.key} /\ stored[m.key] = entry
      /\ \A k \in DOMAIN cache : k # m.key => stored[k] = cache[k]
  OBVIOUS
<1> HIDE DEF stored
<1>4. \A x : EntryGrows(x, x)
  BY DEF EntryGrows
<1>5. SessionGrows(table[m.session], next[m.session])
  BY <1>2, <1>3, <1>4 DEF SessionGrows
<1>6. TableGrows(table, next)
  BY <1>1, <1>4, <1>5 DEF TableGrows, SessionGrows
<1>7. \/ m.key \notin DOMAIN cache
      \/ entry = cache[m.key]
      => Untouched(table, next, m)
  BY <1>1, <1>2, <1>3 DEF Untouched
<1> QED
  BY <1>1, <1>2, <1>3, <1>6, <1>7 DEF next

\* What is seen of an entry.
LEMMA SeenGrows ==
  ASSUME NEW entry \in Entry, ~entry.reclaimed,
         NEW poll, \E b \in Backend : poll = b.poll
  PROVE  LET seen == Observe(entry, poll)
         IN  /\ EntryGrows(entry, seen.entry)
             /\ ~seen.entry.reclaimed
             /\ seen.code # "ok" => seen.entry = entry
             /\ seen.entry \in Entry
<1>1. CASE Observe(entry, poll).entry = entry
  BY <1>1 DEF EntryGrows
<1>2. CASE /\ entry.terminal = None /\ Observe(entry, poll).code = "ok"
           /\ \E r \in Encodable :
                Observe(entry, poll).entry = [entry EXCEPT !.terminal = Some(r)]
  <2>1. PICK r \in Encodable :
          Observe(entry, poll).entry = [entry EXCEPT !.terminal = Some(r)]
    BY <1>2
  <2>2. /\ [entry EXCEPT !.terminal = Some(r)].fingerprint = entry.fingerprint
        /\ [entry EXCEPT !.terminal = Some(r)].reclaimed = entry.reclaimed
    BY DEF Entry
  <2>3. [entry EXCEPT !.terminal = Some(r)] \in Entry
    BY <1>2, FilledLife
  <2> QED
    BY <1>2, <2>1, <2>2, <2>3 DEF EntryGrows
<1> QED
  BY <1>1, <1>2, ObserveKeeps

\* A report stores what it saw, and shows that or an error.
LEMMA ReportSees ==
  ASSUME NEW table, NEW m, NEW version, NEW entry \in Entry, ~entry.reclaimed,
         NEW cached, NEW withResult,
         NEW poll, \E b \in Backend : poll = b.poll
  PROVE  \E kept \in Entry :
           /\ Report(table, m, version, entry, cached, withResult, poll).sessions
                = Store(table, m, kept)
           /\ EntryGrows(entry, kept) /\ ~kept.reclaimed
           /\ \/ /\ Report(table, m, version, entry, cached, withResult,
                           poll).response.kind = "error"
                 /\ kept = entry
              \/ Report(table, m, version, entry, cached, withResult, poll).response
                   = Observation(m, version, kept, cached, withResult)
<1> DEFINE seen == Observe(entry, poll)
<1>1. seen.entry \in Entry /\ EntryGrows(entry, seen.entry) /\ ~seen.entry.reclaimed
  BY SeenGrows
<1>2. seen.code # "ok" => seen.entry = entry
  BY SeenGrows
<1> HIDE DEF seen
<1>3. Report(table, m, version, entry, cached, withResult, poll)
        = IF seen.code # "ok" THEN Error(Store(table, m, seen.entry), m, seen.code)
          ELSE Answer(Store(table, m, seen.entry),
                      Observation(m, version, seen.entry, cached, withResult))
  BY DEF Report, seen
<1>4. \A next, code : /\ Error(next, m, code).sessions = next
                      /\ Error(next, m, code).response.kind = "error"
  BY DEF Error, Answer, ErrorRecord
<1>5. \A next, response : /\ Answer(next, response).sessions = next
                          /\ Answer(next, response).response = response
  BY DEF Answer
<1> QED
  BY <1>1, <1>2, <1>3, <1>4, <1>5

\* What an observation shows of the entry it was made of.
LEMMA ObservationShows ==
  ASSUME NEW m, NEW version, NEW entry, NEW cached, NEW withResult
  PROVE  LET response == Observation(m, version, entry, cached, withResult)
         IN  /\ response.kind = "observation" /\ response.version = version
             /\ response.fingerprint = entry.fingerprint
             /\ response.status = "terminal" <=> entry.terminal # None
             /\ response.result # None => response.result = entry.terminal
BY DEF Observation

\* A report on an entry, of the slot's own or a new one, that reclaims nothing.
LEMMA ReportSound ==
  ASSUME NEW table, IsTable(table), NEW m, m.session \in DOMAIN table,
         NEW entry \in Entry, ~entry.reclaimed,
         m.key \in DOMAIN table[m.session].idempotency
           => entry = table[m.session].idempotency[m.key],
         m.kind = "command" => entry.fingerprint = m.command,
         NEW cached, NEW withResult,
         NEW poll, \E b \in Backend : poll = b.poll,
         NEW report,
         report = Report(table, m, table[m.session].version, entry, cached,
                         withResult, poll),
         ~(/\ m.kind = "collect" /\ m.reclaim = "true"
           /\ report.response.kind = "observation"
           /\ report.response.status = "terminal")
  PROVE  Sound(table, report, m)
<1> DEFINE version == table[m.session].version
<1>1. PICK kept :
        /\ report.sessions = Store(table, m, kept)
        /\ EntryGrows(entry, kept) /\ ~kept.reclaimed
        /\ \/ report.response.kind = "error" /\ kept = entry
           \/ report.response = Observation(m, version, kept, cached, withResult)
  BY ReportSees
<1>2. /\ TableGrows(table, report.sessions)
      /\ DOMAIN report.sessions = DOMAIN table
      /\ report.sessions[m.session].version = version
      /\ m.key \in DOMAIN report.sessions[m.session].idempotency
      /\ report.sessions[m.session].idempotency[m.key] = kept
      /\ kept = entry => Untouched(table, report.sessions, m)
  BY <1>1, StoreGrows
<1>3. CASE report.response.kind = "error" /\ kept = entry
  BY <1>2, <1>3 DEF Sound
<1>4. CASE report.response = Observation(m, version, kept, cached, withResult)
  <2>1. /\ report.response.kind = "observation"
        /\ report.response.version = version
        /\ report.response.fingerprint = kept.fingerprint
        /\ report.response.status = "terminal" <=> kept.terminal # None
        /\ report.response.result # None => report.response.result = kept.terminal
    BY <1>4, ObservationShows
  <2>2. Remembers(kept, m, report.response)
    BY <2>1 DEF Remembers
  <2>3. kept.fingerprint = entry.fingerprint
    BY <1>1 DEF EntryGrows
  <2>4. Agrees(entry, report.response)
    BY <1>1, <2>1 DEF Agrees, EntryGrows
  <2>5. Shows(table, report.sessions, m, report.response)
    BY <1>2, <2>1, <2>2, <2>3, <2>4 DEF Shows
  <2> QED
    BY <1>2, <2>1, <2>5 DEF Sound
<1> QED
  BY <1>1, <1>3, <1>4

\* A terminal collect with reclaim shows the fact and leaves a tombstone.
LEMMA ReclaimSound ==
  ASSUME NEW table, IsTable(table), NEW m, m.session \in DOMAIN table,
         m.key \in DOMAIN table[m.session].idempotency,
         ~table[m.session].idempotency[m.key].reclaimed,
         m.kind = "collect",
         NEW cached, NEW withResult,
         NEW poll, \E b \in Backend : poll = b.poll,
         NEW report,
         report = Report(table, m, table[m.session].version,
                         table[m.session].idempotency[m.key], cached,
                         withResult, poll),
         report.response.kind = "observation"
  PROVE  Sound(table, [report EXCEPT !.sessions = ReclaimEntry(@, m)], m)
<1> DEFINE version == table[m.session].version
           entry == table[m.session].idempotency[m.key]
           answer == [report EXCEPT !.sessions = ReclaimEntry(@, m)]
<1>1. entry \in Entry /\ m.key \in Keys
  BY EntryHeld
<1>2. PICK kept \in Entry :
        /\ report.sessions = Store(table, m, kept)
        /\ EntryGrows(entry, kept) /\ ~kept.reclaimed
        /\ \/ report.response.kind = "error" /\ kept = entry
           \/ report.response = Observation(m, version, kept, cached, withResult)
  <2> HIDE DEF entry
  <2> QED
    BY <1>1, ReportSees DEF entry
<1> DEFINE stored == Store(table, m, kept)
           tomb == [kept EXCEPT !.operation = "dropped", !.terminal = None,
                                !.reclaimed = TRUE]
<1>3. /\ TableGrows(table, stored) /\ IsTable(stored)
      /\ m.session \in DOMAIN stored /\ m.key \in DOMAIN stored[m.session].idempotency
      /\ stored[m.session].idempotency[m.key] = kept
      /\ stored[m.session].version = version
  BY <1>1, <1>2, StoreGrows, StoreAt
<1> HIDE DEF stored
<1>4. ReclaimEntry(stored, m) = Store(stored, m, tomb)
  BY <1>3, ReclaimIsStore
<1>5. tomb.fingerprint = kept.fingerprint /\ tomb.reclaimed = TRUE
  BY DEF Entry
<1> HIDE DEF tomb
<1> DEFINE next == Store(stored, m, tomb)
<1>6. /\ TableGrows(stored, next) /\ DOMAIN next = DOMAIN stored
      /\ next[m.session].version = version
      /\ m.key \in DOMAIN next[m.session].idempotency
      /\ next[m.session].idempotency[m.key] = tomb
  <2>1. EntryGrows(kept, tomb)
    BY <1>5 DEF EntryGrows
  <2> QED
    BY <1>3, <2>1, StoreGrows
<1>7. TableGrows(table, next)
  BY <1>3, <1>6, GrowsTransitive
<1>8. /\ report.response.version = version
      /\ report.response.fingerprint = kept.fingerprint
      /\ report.response.status = "terminal" <=> kept.terminal # None
      /\ report.response.result # None => report.response.result = kept.terminal
  <2>1. report.response = Observation(m, version, kept, cached, withResult)
    BY <1>2
  <2> QED
    BY <2>1, ObservationShows
<1>9. Remembers(tomb, m, report.response)
  BY <1>5, <1>8 DEF Remembers
<1>10. Agrees(entry, report.response)
  BY <1>2, <1>8 DEF Agrees, EntryGrows
<1>11. Shows(table, next, m, report.response)
  BY <1>3, <1>6, <1>8, <1>9, <1>10 DEF Shows
<1>12. answer.sessions = next /\ answer.response = report.response
  <2>1. \A next_ : /\ [report EXCEPT !.sessions = next_].sessions = next_
                   /\ [report EXCEPT !.sessions = next_].response = report.response
    BY DEF Report, Error, Answer
  <2> QED
    BY <1>2, <1>4, <2>1 DEF stored
<1>13. Sound(table, answer, m)
  <2> HIDE DEF answer, next
  <2> QED
    BY <1>7, <1>11, <1>12 DEF Sound
<1> QED
  BY <1>13
-------------------------------------------------------------------------------
(* Requests.                                                               *)

Granted(next, m, response) ==
  /\ m.session \in DOMAIN next
  /\ response.version = next[m.session].version
  /\ m.request \in DOMAIN next[m.session].requests
  /\ next[m.session].requests[m.request] = m

LEMMA CommandSound ==
  ASSUME NEW table, IsTable(table), NEW m, m.session \in DOMAIN table,
         m.kind = "command", m.command \in Commands, NEW backend \in Backend
  PROVE  Sound(table, CommandRequest(table, m, backend), m)
<1> DEFINE cache == table[m.session].idempotency
           version == table[m.session].version
<1>1. \A code : /\ Sound(table, Error(table, m, code), m)
                /\ Sound(table, [Error(table, m, code) EXCEPT !.called = TRUE], m)
  BY ErrorSound
<1>2. CASE m.key \notin Keys
  BY <1>1, <1>2 DEF CommandRequest
<1>3. CASE m.key \in Keys /\ m.key \in DOMAIN cache
  <2> DEFINE entry == cache[m.key]
  <2>1. CommandRequest(table, m, backend) = CachedCommand(table, m, backend.poll)
    BY <1>3 DEF CommandRequest
  <2>2. CASE entry.fingerprint # m.command \/ entry.reclaimed
    BY <1>1, <2>1, <2>2 DEF CachedCommand
  <2>3. CASE entry.fingerprint = m.command /\ ~entry.reclaimed
    <3>1. entry \in Entry
      BY <1>3, EntryHeld
    <3>2. CommandRequest(table, m, backend)
            = Report(table, m, version, entry, TRUE, TRUE, backend.poll)
      BY <2>1, <2>3 DEF CachedCommand
    <3> QED
      BY <2>3, <3>1, <3>2, ReportSound
  <2> QED
    BY <2>2, <2>3
<1>4. CASE m.key \in Keys /\ m.key \notin DOMAIN cache
  <2> DEFINE fresh == NewEntry(m.command)
             report == Report(table, m, version, fresh, FALSE, TRUE, backend.poll)
  <2>1. fresh \in Entry /\ ~fresh.reclaimed /\ fresh.fingerprint = m.command
    BY DEF NewEntry, Entry, Terminals
  <2> HIDE DEF fresh
  <2>2. Sound(table, report, m)
    BY <1>4, <2>1, ReportSound
  <2>3. /\ Started(table, m, backend.poll).sessions = report.sessions
        /\ Started(table, m, backend.poll).response = report.response
    BY DEF Started, fresh, Report, Error, Answer
  <2>4. Sound(table, Started(table, m, backend.poll), m)
    <3> HIDE DEF report
    <3> QED
      BY <2>2, <2>3 DEF Sound
  <2>5. \/ backend.validate = "refused"
        \/ backend.validate = "raises"
        \/ backend.validate = "ok" /\ backend.start = "raises"
        \/ backend.validate = "ok" /\ backend.start = "no-operation"
        \/ backend.validate = "ok" /\ backend.start = "operation"
    BY DEF Backend, Asked
  <2>6. Sound(table, FirstCommand(table, m, backend), m)
    BY <1>1, <2>4, <2>5 DEF FirstCommand
  <2> QED
    BY <1>4, <2>6 DEF CommandRequest
<1> QED
  BY <1>2, <1>3, <1>4

LEMMA QuerySound ==
  ASSUME NEW table, IsTable(table), NEW m, m.session \in DOMAIN table,
         m.kind # "command", NEW backend \in Backend
  PROVE  Sound(table, Query(table, m, backend), m)
<1> DEFINE session == table[m.session]
           entry == session.idempotency[m.key]
           report == Report(table, m, session.version, entry, TRUE,
                            m.kind = "collect", backend.poll)
           reclaims == /\ m.kind = "collect" /\ m.reclaim = "true"
                       /\ report.response.kind = "observation"
                       /\ report.response.status = "terminal"
<1>1. \A code : Sound(table, Error(table, m, code), m)
  BY ErrorSound
<1>2. ASSUME m.key \in DOMAIN session.idempotency, ~entry.reclaimed
      PROVE  /\ ~reclaims => Sound(table, report, m)
             /\ reclaims => Sound(table, [report EXCEPT !.sessions = ReclaimEntry(@, m)], m)
  <2>1. entry \in Entry
    BY <1>2, EntryHeld
  <2>2. ~reclaims => Sound(table, report, m)
    BY <1>2, <2>1, ReportSound
  <2>3. reclaims => Sound(table, [report EXCEPT !.sessions = ReclaimEntry(@, m)], m)
    BY <1>2, <2>1, ReclaimSound
  <2> QED
    BY <2>2, <2>3
<1> HIDE DEF report
<1>3. Query(table, m, backend)
        = IF m.key \notin Keys THEN Error(table, m, "invalid-idempotency-key")
          ELSE IF m.kind = "collect" /\ m.reclaim \notin {"true", "false"}
          THEN Error(table, m, "invalid-reclaim")
          ELSE IF m.key \notin DOMAIN session.idempotency
          THEN Error(table, m, "unknown-idempotency-key")
          ELSE IF entry.reclaimed
          THEN Error(table, m, "idempotency-result-reclaimed")
          ELSE IF reclaims
          THEN [report EXCEPT !.sessions = ReclaimEntry(@, m)]
          ELSE report
  BY DEF Query, report
<1> HIDE DEF reclaims
<1> QED
  BY <1>1, <1>2, <1>3

\* A hello opens a session, or repeats what its session's hello selected.
LEMMA HelloSound ==
  ASSUME NEW table, NEW m, m.kind = "hello",
         \A s \in DOMAIN table : HelloBound(table[s])
  PROVE  /\ Sound(table, Hello(table, m), m)
         /\ Hello(table, m).response.kind # "error" =>
              Granted(Hello(table, m).sessions, m, Hello(table, m).response)
<1> DEFINE Fine(answer) ==
             /\ Sound(table, answer, m)
             /\ answer.response.kind # "error" =>
                  Granted(answer.sessions, m, answer.response)
<1>1. \A code : Fine(Error(table, m, code))
  BY ErrorSound DEF Error, Answer, ErrorRecord
<1>2. ASSUME m.session \in DOMAIN table, table[m.session].hello = m
      PROVE  Fine(Answer(table, Selection(m, table[m.session].version)))
  <2>1. TableGrows(table, table)
    BY DEF TableGrows, SessionGrows, EntryGrows
  <2>2. Granted(table, m, Selection(m, table[m.session].version))
    BY <1>2 DEF Granted, HelloBound, Selection
  <2> QED
    BY <2>1, <2>2 DEF Sound, Answer, Selection
<1>3. ASSUME m.session \notin DOMAIN table, NEW version
      PROVE  Fine(Answer([s \in DOMAIN table \cup {m.session} |->
                            IF s = m.session THEN NewSession(m, version)
                            ELSE table[s]], Selection(m, version)))
  <2> DEFINE next == [s \in DOMAIN table \cup {m.session} |->
                        IF s = m.session THEN NewSession(m, version) ELSE table[s]]
  <2>1. /\ NewSession(m, version).version = version
        /\ NewSession(m, version).hello = m
        /\ m.request \in DOMAIN NewSession(m, version).requests
        /\ NewSession(m, version).requests[m.request] = m
    BY DEF NewSession
  <2>2. /\ DOMAIN next = DOMAIN table \cup {m.session}
        /\ next[m.session] = NewSession(m, version)
        /\ \A s \in DOMAIN table : next[s] = table[s]
    BY <1>3
  <2> HIDE DEF next
  <2>3. TableGrows(table, next)
    BY <2>1, <2>2 DEF TableGrows, SessionGrows, EntryGrows, HelloBound
  <2>4. Granted(next, m, Selection(m, version))
    BY <2>1, <2>2 DEF Granted, Selection
  <2>5. Fine(Answer(next, Selection(m, version)))
    BY <2>3, <2>4 DEF Sound, Answer, Selection
  <2> QED
    BY <2>5 DEF next
<1> HIDE DEF Fine
<1>4. Fine(Hello(table, m))
  BY <1>1, <1>2, <1>3 DEF Hello
<1> QED
  BY <1>4 DEF Fine

\* Binding a request identifier that is new or stands for this message.
LEMMA BindGrows ==
  ASSUME NEW table, IsTable(table), NEW m, m.session \in DOMAIN table,
         \/ m.request \notin DOMAIN table[m.session].requests
         \/ table[m.session].requests[m.request] = m
  PROVE  /\ TableGrows(table, Bind(table, m))
         /\ m.request \in DOMAIN Bind(table, m)[m.session].requests
         /\ Bind(table, m)[m.session].requests[m.request] = m
         /\ DOMAIN Bind(table, m) = DOMAIN table
         /\ \A s \in DOMAIN table :
              /\ s # m.session => Bind(table, m)[s] = table[s]
              /\ Bind(table, m)[s].idempotency = table[s].idempotency
<1> DEFINE bound == Bind(table, m)
           old == table[m.session].requests
           requests == [r \in DOMAIN old \cup {m.request} |->
                          IF r = m.request THEN m ELSE old[r]]
<1>1. /\ DOMAIN bound = DOMAIN table
      /\ \A s \in DOMAIN table : s # m.session => bound[s] = table[s]
  BY DEF Bind
<1>2. /\ bound[m.session].version = table[m.session].version
      /\ bound[m.session].hello = table[m.session].hello
      /\ bound[m.session].idempotency = table[m.session].idempotency
      /\ bound[m.session].requests = requests
  BY DEF Bind, IsTable, IsSession
<1> HIDE DEF bound
<1>3. /\ m.request \in DOMAIN requests /\ requests[m.request] = m
      /\ \A r \in DOMAIN old : r \in DOMAIN requests /\ requests[r] = old[r]
  OBVIOUS
<1> HIDE DEF requests
<1>4. \A x : EntryGrows(x, x)
  BY DEF EntryGrows
<1>5. SessionGrows(table[m.session], bound[m.session])
  BY <1>2, <1>3, <1>4 DEF SessionGrows
<1>6. TableGrows(table, bound)
  BY <1>1, <1>4, <1>5 DEF TableGrows, SessionGrows
<1> QED
  BY <1>1, <1>2, <1>3, <1>6 DEF bound

\* From the table the request is bound in back to the table it met.
LEMMA SoundFrom ==
  ASSUME NEW table, IsTable(table), NEW m, m.session \in DOMAIN table,
         \/ m.request \notin DOMAIN table[m.session].requests
         \/ table[m.session].requests[m.request] = m,
         m.kind # "hello",
         NEW answer, Sound(Bind(table, m), answer, m)
  PROVE  /\ Sound(table, answer, m)
         /\ answer.response.kind # "error" =>
              Granted(answer.sessions, m, answer.response)
<1> DEFINE bound == Bind(table, m)
           next == answer.sessions
<1>1. /\ TableGrows(table, bound)
      /\ m.request \in DOMAIN bound[m.session].requests
      /\ bound[m.session].requests[m.request] = m
      /\ DOMAIN bound = DOMAIN table
      /\ \A s \in DOMAIN table :
           /\ s # m.session => bound[s] = table[s]
           /\ bound[s].idempotency = table[s].idempotency
  BY BindGrows
<1> HIDE DEF bound
<1>2. Sound(bound, answer, m)
  BY DEF bound
<1>3. TableGrows(table, next)
  BY <1>1, <1>2, GrowsTransitive DEF Sound
<1>4. Untouched(bound, next, m) => Untouched(table, next, m)
  BY <1>1 DEF Untouched
<1>5. Shows(bound, next, m, answer.response) => Shows(table, next, m, answer.response)
  BY <1>1 DEF Shows
<1>6. Sound(table, answer, m)
  BY <1>2, <1>3, <1>4, <1>5 DEF Sound
<1>7. ASSUME answer.response.kind # "error"
      PROVE  Granted(next, m, answer.response)
  <2>1. Shows(bound, next, m, answer.response)
    BY <1>2, <1>7 DEF Sound
  <2>2. SessionGrows(bound[m.session], next[m.session])
    BY <1>1, <1>2 DEF Sound, TableGrows
  <2> QED
    BY <1>1, <2>1, <2>2 DEF Granted, Shows, SessionGrows
<1> QED
  BY <1>6, <1>7

LEMMA HandleSound ==
  ASSUME NEW table, IsTable(table), \A s \in DOMAIN table : HelloBound(table[s]),
         NEW m \in Messages, NEW backend \in Backend
  PROVE  /\ Sound(table, Handle(table, m, backend), m)
         /\ Handle(table, m, backend).response.kind # "error" =>
              Granted(Handle(table, m, backend).sessions, m,
                      Handle(table, m, backend).response)
<1> DEFINE bound == Bind(table, m)
           Fine(answer) ==
             /\ Sound(table, answer, m)
             /\ answer.response.kind # "error" =>
                  Granted(answer.sessions, m, answer.response)
<1>1. \A code : Fine(Error(table, m, code))
  BY ErrorSound DEF Error, Answer, ErrorRecord
<1>2. m.kind = "hello" => Fine(Hello(table, m))
  BY HelloSound
<1>3. ASSUME m.kind \notin {"hello", "other"}, m.shape = "ok",
             RequestCode(table, m) = "ok"
      PROVE  Fine(IF m.kind = "command" THEN CommandRequest(bound, m, backend)
                  ELSE Query(bound, m, backend))
  <2>1. /\ m.session \in DOMAIN table
        /\ \/ m.request \notin DOMAIN table[m.session].requests
           \/ table[m.session].requests[m.request] = m
    BY <1>3 DEF RequestCode
  <2>2. IsTable(bound) /\ m.session \in DOMAIN bound
    BY <2>1, BindKeeps DEF SameEntries
  <2> HIDE DEF bound
  <2>3. CASE m.kind = "command"
    <3>1. m.command \in Commands
      BY <1>3, <2>3, MessagesAssumption
    <3>2. Sound(bound, CommandRequest(bound, m, backend), m)
      BY <2>2, <2>3, <3>1, CommandSound
    <3> QED
      BY <2>1, <2>3, <3>2, SoundFrom DEF bound
  <2>4. CASE m.kind # "command"
    <3>1. Sound(bound, Query(bound, m, backend), m)
      BY <2>2, <2>4, QuerySound
    <3> QED
      BY <1>3, <2>1, <2>4, <3>1, SoundFrom DEF bound
  <2> QED
    BY <2>3, <2>4
<1> HIDE DEF Fine
<1>4. Fine(Handle(table, m, backend))
  BY <1>1, <1>2, <1>3 DEF Handle
<1> QED
  BY <1>4 DEF Fine

-------------------------------------------------------------------------------
(* What earlier answers showed.                                            *)

Spoken == Answers("observation") \cup Answers("selection")

AnswerInv ==
  /\ \E S : answered \in Seq(S)
  /\ \A s \in DOMAIN sessions : HelloBound(sessions[s])
  /\ \A i \in Spoken : Granted(sessions, answered[i].message, answered[i].response)
  /\ \A i \in Answers("observation") :
       LET m == answered[i].message
       IN  /\ m.session \in DOMAIN sessions
           /\ m.key \in DOMAIN sessions[m.session].idempotency
           /\ Remembers(sessions[m.session].idempotency[m.key], m, answered[i].response)

\* An answer is appended to those before it.
LEMMA Appended ==
  ASSUME NEW m \in Messages, NEW backend \in Backend, Receive(m, backend),
         \E S : answered \in Seq(S)
  PROVE  LET answer == Handle(sessions, m, backend)
             n == Len(answered)
         IN  /\ n \in Nat /\ DOMAIN answered = 1 .. n /\ DOMAIN answered' = 1 .. n + 1
             /\ Len(answered') = n + 1
             /\ \A i \in 1 .. n : answered'[i] = answered[i]
             /\ answered'[n + 1].message = m
             /\ answered'[n + 1].response = answer.response
             /\ sessions' = answer.sessions
             /\ \E S : answered' \in Seq(S)
<1> DEFINE answer == Handle(sessions, m, backend)
           record == [message |-> m, response |-> answer.response]
<1>1. PICK S : answered \in Seq(S)
  OBVIOUS
<1>2. answered' = Append(answered, record) /\ sessions' = answer.sessions
  BY DEF Receive
<1>3. record.message = m /\ record.response = answer.response
  OBVIOUS
<1> HIDE DEF record
<1>4. answered \in Seq(S \cup {record})
  BY <1>1
<1>5. answered' \in Seq(S \cup {record})
  BY <1>2, <1>4
<1> QED
  BY <1>1, <1>2, <1>3, <1>5

LEMMA StillRemembers ==
  ASSUME NEW entry, NEW after, EntryGrows(entry, after), NEW m, NEW response,
         Remembers(entry, m, response)
  PROVE  Remembers(after, m, response)
BY DEF EntryGrows, Remembers

LEMMA AnswerStep ==
  ASSUME TypeInv, AnswerInv, NEW m \in Messages, NEW backend \in Backend,
         Receive(m, backend)
  PROVE  AnswerInv'
<1> DEFINE answer == Handle(sessions, m, backend)
           n == Len(answered)
<1>1. /\ n \in Nat /\ DOMAIN answered = 1 .. n /\ DOMAIN answered' = 1 .. n + 1
      /\ \A i \in 1 .. n : answered'[i] = answered[i]
      /\ answered'[n + 1].message = m
      /\ answered'[n + 1].response = answer.response
      /\ sessions' = answer.sessions
      /\ \E S : answered' \in Seq(S)
  BY Appended DEF AnswerInv
<1>2. /\ Sound(sessions, answer, m)
      /\ answer.response.kind # "error" =>
           Granted(answer.sessions, m, answer.response)
  BY HandleSound DEF TypeInv, AnswerInv
<1> HIDE DEF answer, n
<1>3. TableGrows(sessions, sessions')
  BY <1>1, <1>2 DEF Sound
<1>4. \A s \in DOMAIN sessions' : HelloBound(sessions'[s])
  <2> SUFFICES ASSUME NEW s \in DOMAIN sessions' PROVE HelloBound(sessions'[s])
    OBVIOUS
  <2>1. CASE s \notin DOMAIN sessions
    BY <1>3, <2>1 DEF TableGrows
  <2>2. CASE s \in DOMAIN sessions
    <3>1. HelloBound(sessions[s]) /\ SessionGrows(sessions[s], sessions'[s])
      BY <1>3, <2>2 DEF TableGrows, AnswerInv
    <3> QED
      BY <3>1 DEF HelloBound, SessionGrows
  <2> QED
    BY <2>1, <2>2
<1>5. ASSUME NEW i \in Spoken'
      PROVE  Granted(sessions', answered'[i].message, answered'[i].response)
  <2>1. /\ i \in 1 .. n + 1
        /\ answered'[i].response.kind \in {"observation", "selection"}
    BY <1>1, <1>5 DEF Spoken, Answers
  <2>2. CASE i = n + 1
    BY <1>1, <1>2, <2>1, <2>2
  <2>3. CASE i \in 1 .. n
    <3> DEFINE old == answered[i].message
    <3>1. answered'[i] = answered[i] /\ i \in Spoken
      BY <1>1, <2>1, <2>3 DEF Spoken, Answers
    <3>2. Granted(sessions, old, answered[i].response)
      BY <3>1 DEF AnswerInv
    <3>3. old.session \in DOMAIN sessions'
          /\ SessionGrows(sessions[old.session], sessions'[old.session])
      BY <1>3, <3>2 DEF TableGrows, Granted
    <3> QED
      BY <3>1, <3>2, <3>3 DEF Granted, SessionGrows
  <2> QED
    BY <1>1, <2>1, <2>2, <2>3
<1>6. ASSUME NEW i \in Answers("observation")'
      PROVE  LET by == answered'[i].message
             IN  /\ by.session \in DOMAIN sessions'
                 /\ by.key \in DOMAIN sessions'[by.session].idempotency
                 /\ Remembers(sessions'[by.session].idempotency[by.key], by,
                              answered'[i].response)
  <2>1. i \in 1 .. n + 1 /\ answered'[i].response.kind = "observation"
    BY <1>1, <1>6 DEF Answers
  <2>2. CASE i = n + 1
    <3>1. Shows(sessions, sessions', m, answer.response)
      BY <1>1, <1>2, <2>1, <2>2 DEF Sound
    <3> QED
      BY <1>1, <2>2, <3>1 DEF Shows
  <2>3. CASE i \in 1 .. n
    <3> DEFINE old == answered[i].message
    <3>1. answered'[i] = answered[i] /\ i \in Answers("observation")
      BY <1>1, <2>1, <2>3 DEF Answers
    <3>2. /\ old.session \in DOMAIN sessions
          /\ old.key \in DOMAIN sessions[old.session].idempotency
          /\ Remembers(sessions[old.session].idempotency[old.key], old,
                       answered[i].response)
      BY <3>1 DEF AnswerInv
    <3> HIDE DEF old
    <3>3. /\ old.session \in DOMAIN sessions'
          /\ old.key \in DOMAIN sessions'[old.session].idempotency
          /\ EntryGrows(sessions[old.session].idempotency[old.key],
                        sessions'[old.session].idempotency[old.key])
      BY <1>3, <3>2 DEF TableGrows, SessionGrows
    <3>4. Remembers(sessions'[old.session].idempotency[old.key], old,
                    answered[i].response)
      BY <3>2, <3>3, StillRemembers
    <3> QED
      BY <3>1, <3>3, <3>4 DEF old
  <2> QED
    BY <1>1, <2>1, <2>2, <2>3, SMTT(60)
<1> QED
  BY <1>1, <1>4, <1>5, <1>6 DEF AnswerInv

LEMMA AnswerInvKept == Spec => []AnswerInv
<1>1. Init => AnswerInv
  BY DEF Init, AnswerInv, Spoken, Answers
<1>2. TypeInv /\ AnswerInv /\ [Next]_vars => AnswerInv'
  <2>1. CASE UNCHANGED vars
    BY <2>1 DEF vars, AnswerInv, Spoken, Answers
  <2> QED
    BY <2>1, AnswerStep DEF Next
<1> QED
  BY <1>1, <1>2, TypeInvKept, PTL DEF Spec

-------------------------------------------------------------------------------
(***************************************************************************)
(* In one session a request identifier stands for one message and the      *)
(* version stays the one the hello selected, for every caller              *)
(* (_validate_session_request, protocol.py).                               *)
(***************************************************************************)
THEOREM RequestIdentifiersBind == Spec => []RequestsBind
<1>1. AnswerInv => RequestsBind
  BY DEF AnswerInv, RequestsBind, Spoken, Granted
<1> QED
  BY <1>1, AnswerInvKept, PTL

(***************************************************************************)
(* An error changes no entry that exists and touches no other session, for *)
(* every message, state and backend (handle, protocol.py).                 *)
(***************************************************************************)
THEOREM ErrorsAreConfined == Spec => ErrorsConfined
<1>1. TypeInv /\ AnswerInv /\ [Next]_vars =>
        [LET last == answered'[Len(answered')]
         IN  last.response.kind = "error" =>
               /\ DOMAIN sessions' = DOMAIN sessions
               /\ \A slot \in Entries : sessions'[slot[1]].idempotency[slot[2]]
                                          = EntryOf(slot)
               /\ \A s \in DOMAIN sessions :
                    s # last.message.session => sessions'[s] = sessions[s]]_vars
  <2> SUFFICES ASSUME TypeInv, AnswerInv, NEW m \in Messages, NEW backend \in Backend,
                      Receive(m, backend),
                      answered'[Len(answered')].response.kind = "error"
               PROVE  /\ DOMAIN sessions' = DOMAIN sessions
                      /\ \A slot \in Entries :
                           sessions'[slot[1]].idempotency[slot[2]] = EntryOf(slot)
                      /\ \A s \in DOMAIN sessions :
                           s # answered'[Len(answered')].message.session
                             => sessions'[s] = sessions[s]
    BY DEF Next
  <2> DEFINE answer == Handle(sessions, m, backend)
  <2>1. /\ answered'[Len(answered')].message = m
        /\ answered'[Len(answered')].response = answer.response
        /\ sessions' = answer.sessions
    BY Appended DEF AnswerInv
  <2>2. Sound(sessions, answer, m)
    BY HandleSound DEF TypeInv, AnswerInv
  <2> HIDE DEF answer
  <2>3. Untouched(sessions, sessions', m)
    BY <2>1, <2>2 DEF Sound
  <2> QED
    BY <2>1, <2>3 DEF Untouched, Entries, EntryOf, Used
<1> QED
  BY <1>1, TypeInvKept, AnswerInvKept, PTL DEF Spec, ErrorsConfined

(***************************************************************************)
(* All observations of one session and key agree, however the caller       *)
(* repeats, queries and reclaims and whatever the backend reports later    *)
(* (_observe, _collect, protocol.py).                                      *)
(***************************************************************************)
THEOREM ObservationsAlwaysAgree == Spec => []ObservationsAgree
<1>1. Init => ObservationsAgree
  BY DEF Init, ObservationsAgree, Answers
<1>2. ASSUME TypeInv, AnswerInv, ObservationsAgree, NEW m \in Messages,
             NEW backend \in Backend, Receive(m, backend)
      PROVE  ObservationsAgree'
  <2> DEFINE answer == Handle(sessions, m, backend)
             n == Len(answered)
  <2>1. /\ n \in Nat /\ DOMAIN answered = 1 .. n /\ DOMAIN answered' = 1 .. n + 1
        /\ \A i \in 1 .. n : answered'[i] = answered[i]
        /\ answered'[n + 1].message = m
        /\ answered'[n + 1].response = answer.response
        /\ sessions' = answer.sessions
    BY <1>2, Appended DEF AnswerInv
  <2>2. Sound(sessions, answer, m)
    BY <1>2, HandleSound DEF TypeInv, AnswerInv
  <2> HIDE DEF answer, n
  <2>3. \A i \in 1 .. n : i \in Answers("observation")' <=> i \in Answers("observation")
    BY <2>1 DEF Answers
  <2>4. \A i \in Answers("observation")' : i \in 1 .. n \/ i = n + 1
    BY <2>1 DEF Answers
  <2>5. n + 1 \in Answers("observation")' =>
          Shows(sessions, sessions', m, answer.response)
    BY <2>1, <2>2 DEF Answers, Sound
  <2>6. ASSUME NEW i \in Answers("observation")', answered'[i].message.kind = "command"
        PROVE  answered'[i].response.fingerprint = answered'[i].message.command
    <3>1. CASE i \in 1 .. n
      BY <1>2, <2>1, <2>3, <2>6, <3>1 DEF ObservationsAgree
    <3>2. CASE i = n + 1
      BY <2>1, <2>5, <2>6, <3>2 DEF Shows
    <3> QED
      BY <2>4, <2>6, <3>1, <3>2
  <2>7. ASSUME NEW i \in Answers("observation")', NEW j \in Answers("observation")',
               i < j, SlotOf(i)' = SlotOf(j)'
        PROVE  LET earlier == answered'[i].response
                   later   == answered'[j].response
               IN  /\ ~Reclaims(i)'
                   /\ earlier.fingerprint = later.fingerprint
                   /\ earlier.status = "terminal" => later.status = "terminal"
                   /\ earlier.result # None /\ later.result # None =>
                        earlier.result = later.result
    <3>1. i \in 1 .. n /\ i \in Answers("observation") /\ answered'[i] = answered[i]
      BY <2>1, <2>3, <2>4, <2>7
    <3>2. CASE j \in 1 .. n
      <4>1. j \in Answers("observation") /\ answered'[j] = answered[j]
        BY <2>1, <2>3, <2>7, <3>2
      <4>2. SlotOf(i) = SlotOf(j)
        BY <2>7, <3>1, <4>1 DEF SlotOf
      <4> QED
        BY <1>2, <2>7, <3>1, <4>1, <4>2 DEF ObservationsAgree, Reclaims
    <3>3. CASE j = n + 1
      <4> DEFINE by == answered[i].message
                 entry == sessions[m.session].idempotency[m.key]
      <4>1. by.session = m.session /\ by.key = m.key
        BY <2>1, <2>7, <3>1, <3>3 DEF SlotOf, Slot
      <4>2. /\ m.key \in DOMAIN sessions[m.session].idempotency
            /\ Remembers(entry, by, answered[i].response)
        BY <1>2, <3>1, <4>1 DEF AnswerInv
      <4>3. Agrees(entry, answer.response)
        BY <2>5, <2>7, <3>3, <4>2 DEF Shows
      <4>4. answered'[j].response = answer.response
        BY <2>1, <3>3
      <4> HIDE DEF entry
      <4> QED
        BY <3>1, <4>2, <4>3, <4>4 DEF Remembers, Agrees, Reclaims
    <3> QED
      BY <2>4, <2>7, <3>2, <3>3
  <2> QED
    BY <2>6, <2>7 DEF ObservationsAgree
<1>3. ObservationsAgree /\ UNCHANGED vars => ObservationsAgree'
  BY DEF vars, ObservationsAgree, Answers, SlotOf, Reclaims
<1>4. TypeInv /\ AnswerInv /\ ObservationsAgree /\ [Next]_vars => ObservationsAgree'
  BY <1>2, <1>3 DEF Next
<1> QED
  BY <1>1, <1>4, TypeInvKept, AnswerInvKept, PTL DEF Spec
===============================================================================
