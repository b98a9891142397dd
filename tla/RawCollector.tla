----------------------------- MODULE RawCollector -----------------------------
(***************************************************************************)
(* RawCollector of oxicrypt-entropy: unconditioned samples for the entropy *)
(* estimators.  The health tests run beside the collection and only        *)
(* annotate it; what they find decides whether a certification run may be  *)
(* submitted.  collect holds the samples, stream_to writes them in chunks. *)
(* The sequence `source' is what the noise source is about to emit.        *)
(***************************************************************************)
EXTENDS HealthTests, SequencesExt

CONSTANTS
  StartupMin,    \* STARTUP_MIN_SAMPLES
  Narrow,        \* the samples that fit the declared width
  ChunkSamples,  \* STREAM_CHUNK_SAMPLES
  MaxAnnotations \* MAX_TRIP_ANNOTATIONS

Postures == {"Characterization", "Certification"}

\* run_startup: a fresh monitor over the first samples, of any width. The collector is
\* operational, or poisoned by the first sample that trips the monitor.
RunStartup(source) ==
  LET monitor == FoldLeft(Fed, FreshMonitor, SubSeq(source, 1, StartupMin))
  IN IF monitor.poisoned THEN "Poisoned" ELSE "Operational"

\* next_bounded refuses the first sample that is wider than declared.
Emitted(source, count) ==
  LET wide == {i \in 1..count : source[i] \notin Narrow}
  IN IF wide = {} THEN SubSeq(source, 1, count)
     ELSE SubSeq(source, 1, (CHOOSE i \in wide : \A j \in wide : i <= j) - 1)

-----------------------------------------------------------------------------
(* CharacterizationHealth: the tests of a monitor that is never poisoned.  *)

FreshHealth == [last |-> NoSample, run |-> 0, reference |-> NoSample, count |-> 0, pos |-> 0]

\* Fault: a window that trips the APT does not end.
AfterSample_TripHoldsWindow(m, s) ==
  LET over == m.pos + 1 >= AptWindow /\ CountWith(m, s) < AptCutoff
  IN [last |-> s, run |-> RunWith(m, s),
      reference |-> IF over THEN NoSample ELSE IF m.reference = NoSample THEN s ELSE m.reference,
      count |-> IF over THEN 0 ELSE CountWith(m, s),
      pos |-> IF over THEN 0 ELSE m.pos + 1]

\* A run ends only with another value, a window only when it is full.
AfterSample(m, s) ==
  LET over == m.pos + 1 >= AptWindow
  IN [last |-> s, run |-> RunWith(m, s),
      reference |-> IF over THEN NoSample ELSE IF m.reference = NoSample THEN s ELSE m.reference,
      count |-> IF over THEN 0 ELSE CountWith(m, s),
      pos |-> IF over THEN 0 ELSE m.pos + 1]

\* observe: the trips of sample s at index i, the RCT before the APT and one at most.
Annotation(m, s, i) ==
  IF RunWith(m, s) >= RctCutoff THEN <<[index |-> i, test |-> "Rct", value |-> RunWith(m, s)]>>
  ELSE IF CountWith(m, s) >= AptCutoff
       THEN <<[index |-> i, test |-> "Apt", value |-> CountWith(m, s)]>> ELSE <<>>

\* What stays of a collection while its samples come in: none is dropped. A chunk goes to
\* the sink when it is full.
Take(c, s) ==
  LET trip == Annotation(c.health, s, Len(c.samples))
      chunk == Append(c.chunk, s)
      full == Len(chunk) >= ChunkSamples
  IN [health |-> AfterSample(c.health, s),
      samples |-> Append(c.samples, s),
      trips |-> c.trips \o trip,
      kept |-> IF Len(c.kept) < MaxAnnotations THEN c.kept \o trip ELSE c.kept,
      tripped |-> c.tripped \/ trip # <<>>,
      chunk |-> IF full THEN <<>> ELSE chunk,
      sink |-> IF full THEN c.sink \o chunk ELSE c.sink]

Taken(samples) ==
  FoldLeft(Take, [health |-> FreshHealth, samples |-> <<>>, trips |-> <<>>, kept |-> <<>>,
                  tripped |-> FALSE, chunk |-> <<>>, sink |-> <<>>], samples)

CertVerdict(posture, tripped) ==
  IF posture = "Characterization" THEN "ValidForCharacterization"
  ELSE IF tripped THEN "InvalidReCollect" ELSE "ValidForSubmission"

Refused == [ok |-> FALSE]

\* collect: the samples, the verdict and every trip, or an error.
Collect(source, posture, count) ==
  LET c == Taken(Emitted(source, count))
  IN IF Len(c.samples) < count THEN Refused
     ELSE [ok |-> TRUE, samples |-> c.samples, trips |-> c.trips,
           verdict |-> CertVerdict(posture, c.trips # <<>>)]

\* stream_to: what reached the sink, and the verdict and the first trips, or an error.
StreamTo(source, posture, count) ==
  LET c == Taken(Emitted(source, count))
  IN IF Len(c.samples) < count THEN [sink |-> c.sink, summary |-> Refused]
     ELSE [sink |-> c.sink \o c.chunk,
           summary |-> [ok |-> TRUE, trips |-> c.kept, verdict |-> CertVerdict(posture, c.tripped)]]

-----------------------------------------------------------------------------
(* What a collection is worth.                                             *)

\* Startup admits exactly the sources whose first samples trip no test; the trips
\* annotated after it are those of a test started afresh, also behind an earlier trip;
\* both ways of collecting agree on the samples, on the verdict and on the trips the
\* stream has room for; and a stream that fails has written whole chunks of the same
\* samples.
CollectorsAgree(source) ==
  LET count == Len(source) - StartupMin
      rest == SubSeq(source, StartupMin + 1, Len(source))
      trips == SelectSeq([i \in 1..count |-> i], LAMBDA i : Repeats(rest, i) \/ Dominates(rest, i))
  IN /\ (RunStartup(source) = "Poisoned") <=> Tripped(SubSeq(source, 1, StartupMin))
     /\ \A posture \in Postures :
          LET held == Collect(rest, posture, count)
              streamed == StreamTo(rest, posture, count)
          IN /\ held.ok <=> \A i \in 1..count : rest[i] \in Narrow
             /\ held.ok <=> streamed.summary.ok
             /\ held.ok =>
                  /\ held.samples = rest /\ streamed.sink = rest
                  /\ [i \in DOMAIN held.trips |-> held.trips[i].index + 1] = trips
                  /\ IsPrefix(streamed.summary.trips, held.trips)
                  /\ Len(streamed.summary.trips) = IF Len(trips) < MaxAnnotations THEN Len(trips)
                                                   ELSE MaxAnnotations
                  /\ held.verdict = streamed.summary.verdict
                  /\ (held.verdict = "ValidForSubmission")
                       <=> (posture = "Certification" /\ trips = <<>>)
             /\ ~held.ok =>
                  IsPrefix(streamed.sink, rest) /\ Len(streamed.sink) % ChunkSamples = 0
=============================================================================
