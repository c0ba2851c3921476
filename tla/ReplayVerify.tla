----------------------------- MODULE ReplayVerify -----------------------------
(***************************************************************************)
(* Replay verification (shen/world/replay.shen): a candidate transcript is *)
(* first classified against the recorded entry digests, and only when it   *)
(* is the recorded one is the world driven again, its event log compared   *)
(* record by record, and then its event root and final state.              *)
(***************************************************************************)
EXTENDS EventLog

\* A verdict: a code and, where the code is about one, a position.
Failed(code, detail) == [code |-> code, detail |-> detail]
Verified == Failed("verified", << >>)
Then(verdict, next) == IF verdict.code = "verified" THEN next ELSE verdict

-------------------------------------------------------------------------------
(* The written transcript.                                                 *)

EntryCode(input) ==
  CASE input.op = "schedule" -> PayloadCode(input.kind, input.payload)
    [] input.op = "advance"  -> "ok"
    [] OTHER                 -> "replay-entry-shape"

WriteCode(transcript) ==
  FirstError([i \in DOMAIN transcript |-> EntryCode(transcript[i])])

Entry(input) ==
  IF input.op = "advance" THEN [type |-> "advance"]
  ELSE [type |-> "schedule", at |-> input.at, kind |-> input.kind,
        payload |-> input.payload]

EntryDigests(transcript) == [i \in DOMAIN transcript |-> Entry(transcript[i])]

-------------------------------------------------------------------------------
(* The recorded artifact.                                                  *)

RecordedOf(entries, log) ==
  [entries |-> entries, transcriptRoot |-> entries,
   events |-> log.records, eventRoot |-> log.records,
   stateRoot |-> StateDigest(log.world)]

\* urdr.replay.recorded of urdr.replay.run, when that run has no error.
Recorded(initial, transcript) ==
  RecordedOf(EntryDigests(transcript), OfRun(initial, transcript))

-------------------------------------------------------------------------------
(* Comparison.  Positions count from zero, as in the code.                 *)

Differences(as, bs) == {i \in DOMAIN as : as[i] # bs[i]}
First(positions) == CHOOSE i \in positions : \A j \in positions : i <= j

CountOf(d, ds) == Cardinality({i \in DOMAIN ds : ds[i] = d})

\* Fault: two lists with the same digests count as a reordering.
PermutationOfSets(as, bs) == ToSet(as) = ToSet(bs)

\* The sorted lists are equal: every digest occurs as often in both.
Permutation(as, bs) ==
  \A d \in ToSet(as) \cup ToSet(bs) : CountOf(d, as) = CountOf(d, bs)

ClassifyOrder(actual, expected) ==
  IF Differences(actual, expected) = {} THEN Verified
  ELSE Failed(IF Permutation(actual, expected)
              THEN "replay-transcript-reordered"
              ELSE "replay-transcript-tampered",
              << First(Differences(actual, expected)) - 1 >>)

ClassifyTranscript(actual, expected) ==
  IF Len(actual) < Len(expected)
  THEN Failed("replay-transcript-truncated", << >>)
  ELSE IF Len(actual) > Len(expected)
  THEN Failed("replay-transcript-extended", << >>)
  ELSE ClassifyOrder(actual, expected)

\* The first record that differs, or the end of the shorter list.
CompareEvents(actual, expected) ==
  LET shorter == IF Len(actual) < Len(expected) THEN Len(actual) ELSE Len(expected)
      differ  == {i \in 1 .. shorter : actual[i] # expected[i]}
  IN  IF differ # {} THEN Failed("replay-event-divergence", << First(differ) - 1 >>)
      ELSE IF Len(actual) # Len(expected)
      THEN Failed("replay-event-count", << shorter >>)
      ELSE Verified

CompareRoots(log, recorded) ==
  IF log.records # recorded.eventRoot
  THEN Failed("replay-event-divergence", << >>)
  ELSE IF StateDigest(log.world) # recorded.stateRoot
  THEN Failed("replay-state-divergence", << >>)
  ELSE Verified

\* A recorded selection the world's own door refuses is a divergence; every
\* other error of the re-drive is passed on as it is.
ClassifyRedrive(log) ==
  IF /\ log.code = "eventlog-reduction-error"
     /\ log.detail = << "choice-selection-not-member" >>
  THEN Failed("replay-selection-divergence", log.detail)
  ELSE Failed(log.code, log.detail)

CheckRun(log, recorded) ==
  IF log.code # "ok" THEN ClassifyRedrive(log)
  ELSE Then(CompareEvents(log.records, recorded.events),
            CompareRoots(log, recorded))

\* The recorded transcript root is not read.
Verify(initial, transcript, recorded) ==
  IF WriteCode(transcript) # "ok" THEN Failed(WriteCode(transcript), << >>)
  ELSE Then(ClassifyTranscript(EntryDigests(transcript), recorded.entries),
            CheckRun(OfRun(initial, transcript), recorded))
===============================================================================
