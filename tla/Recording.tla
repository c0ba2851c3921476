------------------------------- MODULE Recording -------------------------------
(***************************************************************************)
(* A run of the world kernel and what is recorded of it: its event log and *)
(* the artifact a replay is verified against.  The environment of these    *)
(* properties is everything a verifier may be handed: a transcript or an   *)
(* artifact that was altered, and another engine, which is the same kernel *)
(* with handlers that behave differently (OtherHandler).                   *)
(***************************************************************************)
EXTENDS World, ReplayVerify

CONSTANT OtherHandler(_, _, _, _)

Other == INSTANCE ReplayVerify WITH Handler <- OtherHandler

-------------------------------------------------------------------------------
Log == OfRun(InitialWorld, world.transcript)

IsDispatch(r) == r.type[1] = "advance"

\* The delivery of a record repeats a fact of an earlier dispatch in the
\* same instant, on a route from that fact's component.
CausedByFact(records, i) ==
  \E j \in 1 .. i - 1, f \in ToSet(world.facts) :
    /\ IsDispatch(records[j]) /\ records[j].origin = f.event
    /\ f.time = records[i].time
    /\ f.value = records[i].payload.value
    /\ records[i].actor \in
         {Registry[m[3]] :
            m \in Matches(f.component, << [name |-> f.name, value |-> f.value] >>)}

\* The parent of a dispatch is the schedule record of the very event.
CausedBySchedule(records, i, parent) ==
  /\ parent < i
  /\ records[parent].type = << "schedule", records[i].type[2] >>
  /\ records[parent].payload = records[i].payload
  /\ world.transcript[parent].at = records[i].time

(***************************************************************************)
(* The log tells the true cause of every dispatch, although it is built    *)
(* from the transcript alone, which holds no routed delivery, and although *)
(* events are dispatched in another order than they were scheduled in: a   *)
(* dispatch with a parent repeats that schedule, no schedule is the parent *)
(* of two, and a dispatch without one delivers a fact that an earlier      *)
(* record of the same instant published ("parents", eventlog.shen).        *)
(***************************************************************************)
CausesTraced ==
  error = NoError =>
    LET records    == Log.records
        dispatches == {i \in DOMAIN records : IsDispatch(records[i])}
    IN  /\ \A i \in dispatches :
             IF records[i].parents = << >>
             THEN records[i].type[2] = "component" /\ CausedByFact(records, i)
             ELSE CausedBySchedule(records, i, records[i].parents[1] + 1)
        /\ \A i, j \in dispatches :
             i # j /\ records[i].parents # << >>
               => records[i].parents # records[j].parents
-------------------------------------------------------------------------------
(* Alterations: what a verifier is handed, with the verdict it deserves.   *)

Advanced == [op |-> "advance"]
Submission(in) ==
  [op |-> "schedule", at |-> in.at, kind |-> in.kind, payload |-> in.payload]
Later(t) == {[e EXCEPT !.at = @ + 1] : e \in {t[i] : i \in Submitted(world)}}

\* Entries that may be slipped in: repeated, postponed, an advance.
Slipped(t) == ToSet(t) \cup Later(t) \cup {Advanced}

Swapped(t, i, j) == [t EXCEPT ![i] = t[j], ![j] = t[i]]

Truncations(t) ==
  {[transcript |-> RemoveAt(t, i),
    verdict |-> Failed("replay-transcript-truncated", << >>)] : i \in DOMAIN t}

Extensions(t) ==
  {[transcript |-> InsertAt(t, i, e),
    verdict |-> Failed("replay-transcript-extended", << >>)] :
      i \in 1 .. Len(t) + 1, e \in Slipped(t)}

Reorderings(t) ==
  {[transcript |-> Swapped(t, p[1], p[2]),
    verdict |-> Failed("replay-transcript-reordered", << p[1] - 1 >>)] :
      p \in {q \in (DOMAIN t) \X (DOMAIN t) : q[1] < q[2] /\ t[q[1]] # t[q[2]]}}

Tamperings(t) ==
  {[transcript |-> [t EXCEPT ![p[1]] = p[2]],
    verdict |-> Failed("replay-transcript-tampered", << p[1] - 1 >>)] :
      p \in {q \in (DOMAIN t) \X Slipped(t) : t[q[1]] # q[2]}}

AlteredTranscripts(t) ==
  Truncations(t) \cup Extensions(t) \cup Reorderings(t) \cup Tamperings(t)

\* A record that is no record of the log.
Forged(r) == [r EXCEPT !.id = @ + 1]

AlteredArtifacts(r) ==
  {[recorded |-> [r EXCEPT !.events[i] = Forged(@)],
    verdict |-> Failed("replay-event-divergence", << i - 1 >>)] :
      i \in DOMAIN r.events}
  \cup {[recorded |-> [r EXCEPT !.events = SubSeq(@, 1, n)],
         verdict |-> Failed("replay-event-count", << n >>)] :
           n \in 0 .. Len(r.events) - 1}
  \cup {[recorded |-> [r EXCEPT !.eventRoot = Append(@, "forged")],
         verdict |-> Failed("replay-event-divergence", << >>)],
        [recorded |-> [r EXCEPT !.stateRoot.time = @ + 1],
         verdict |-> Failed("replay-state-divergence", << >>)],
        [recorded |-> r, verdict |-> Verified]}

\* An artifact that claims one more input, which the world refuses.
ClaimVerdict(code) ==
  Failed(IF code = "choice-selection-not-member"
         THEN "replay-selection-divergence" ELSE "eventlog-reduction-error",
         << code >>)

(***************************************************************************)
(* Verification is fail-closed and tells how: a run verifies against its   *)
(* own artifact, and every alteration of the transcript or the artifact is *)
(* refused with the code and the first position of that alteration, also   *)
(* when entries of the run occur twice (replay.shen section 3).  Checked   *)
(* of the runs that came to rest.                                          *)
(***************************************************************************)
AlterationsClassified ==
  error = NoError /\ world.pending = << >> =>
    LET recorded == Recorded(InitialWorld, world.transcript)
    IN  /\ \A a \in AlteredTranscripts(world.transcript) :
             Verify(InitialWorld, a.transcript, recorded) = a.verdict
        /\ \A a \in AlteredArtifacts(recorded) :
             Verify(InitialWorld, world.transcript, a.recorded) = a.verdict
        /\ \A in \in Inputs :
             LET code == ScheduleError(world, in.at, in.kind, in.payload)
                 claimed == Append(world.transcript, Submission(in))
             IN  EntryCode(Submission(in)) = "ok" /\ code # "ok" =>
                   Verify(InitialWorld, claimed,
                          [recorded EXCEPT !.entries = EntryDigests(claimed)])
                     = ClaimVerdict(code)

(***************************************************************************)
(* Another engine is caught at the first input it handles differently.     *)
(* The records bind a world by its snapshot, which leaves out what the     *)
(* queue and the transcript hold; still, when the replay verifies, the two *)
(* engines went through the same worlds, and when it diverges at a         *)
(* position, they agree up to there and no further.  An engine that comes  *)
(* to an error instead is reported with the error its replay ends with     *)
(* (eventlog.shen section 4, world.shen on the facts root).                *)
(***************************************************************************)
SameAfter(t, n) ==
  Replay(SubSeq(t, 1, n)).world = Other!Replay(SubSeq(t, 1, n)).world

ByOther == Other!Verify(InitialWorld, world.transcript,
                        Recorded(InitialWorld, world.transcript))

DivergenceLocated ==
  error = NoError =>
    LET t == world.transcript
    IN  CASE ByOther.code = "verified" -> \A n \in 0 .. Len(t) : SameAfter(t, n)
          [] ByOther.code = "replay-event-divergence" ->
               /\ \A n \in 0 .. ByOther.detail[1] : SameAfter(t, n)
               /\ ~SameAfter(t, ByOther.detail[1] + 1)
          [] ByOther.code \in {"eventlog-reduction-error",
                              "replay-selection-divergence"} ->
               Other!Replay(t).error = ByOther.detail[1]
          [] ByOther.code = "eventlog-no-pending-event" ->
               Other!Replay(t).error = "no-pending-event"
          [] OTHER -> FALSE
===============================================================================
