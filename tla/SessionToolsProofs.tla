------------------------- MODULE SessionToolsProofs -------------------------
(***************************************************************************)
(* Proofs about the tools that keep a session on disk.                     *)
(*                                                                         *)
(* The ESV log (EsvSession), for any operations and any number of calls    *)
(* and faults: the log stays readable, and, where the only fault is a loss *)
(* of power or there is none, what an append returned Ok for stays on      *)
(* file, and every submission is told by its outcome or found open on      *)
(* replay.                                                                 *)
(*                                                                         *)
(* The ACVP client (AcvpSession), for any number of vector sets, of deaths *)
(* and of failed writes: what the files of a vector set say is true, the   *)
(* retries of a submit end, and answers that are on file stay there.       *)
(*                                                                         *)
(* The collection of raw data sets (RawCollection), for any plans, runs    *)
(* and failures: a command that ends well leaves whole data sets.          *)
(***************************************************************************)
EXTENDS EsvSession, AcvpSession, RawCollection, FiniteSetTheorems, SequenceTheorems, TLAPS

\* A record is written only behind whole lines, and what is being written is a record.
LineInv ==
  /\ log \in Seq(Records)
  /\ pc = "write" => torn = NoRecord
  /\ pc \in {"heal", "write", "sync", "syncDir", "submit"} => writing \in Records
  /\ pc = "submit" => writing \in Intents

\* Whether a session directory and its log are on the disk, when only the power can fail.
EntryInv ==
  /\ directory = "visible" => pc = "syncParent"
  /\ directory # "durable" => entry = "absent" /\ ~handle
  /\ pc \notin {"idle", "syncParent"} => handle
  /\ entry = "visible" => pc \in {"sync", "syncDir"} /\ ~existed
  /\ existed => entry = "durable"

\* What has returned is on the disk.
SyncedInv ==
  /\ appended <= synced
  /\ appended > 0 => entry = "durable"
  /\ pc = "syncDir" => synced = Len(log)

\* Only the power fails, or it does not.
PowerAlone == \A kinds \in Regimes : "power" \in kinds => kinds = {"power"}

DurableInv ==
  /\ "power" \notin regime => appended <= Len(log)
  /\ regime = {"power"} => EntryInv /\ SyncedInv

-----------------------------------------------------------------------------
(* The records.                                                            *)

\* A line that two records share is no record, and neither is the absence of one.
LEMMA RecordsAreWhole == Garbled \notin Records /\ NoRecord \notin Records
BY DEF Records, Intents, Outcomes, Garbled, NoRecord

\* The records of an operation are records.
LEMMA RecordsOf ==
  ASSUME NEW o \in Ops
  PROVE  /\ Intent(o) \in Intents /\ Intent(o) \in Records
         /\ Target[o] \in Targets /\ Outcome(Target[o]) \in Records
BY DEF Records, Intents, Outcomes, Intent, Outcome, Targets

\* So is that a capture ends with.
LEMMA CaptureIsRecord == Outcome(Capture) \in Records
BY DEF Records, Outcomes, Outcome

\* An operation is named by its intent.
LEMMA OpOf ==
  ASSUME NEW r \in Intents
  PROVE  r.op \in Ops
BY DEF Intents

\* An intent is told by its kind.
LEMMA IntentByKind ==
  ASSUME NEW r \in Records, r.kind = "intent"
  PROVE  r \in Intents
BY DEF Records, Intents, Outcomes

\* Lines that are kept are the first of those there were.
LEMMA PrefixOfLog ==
  ASSUME NEW S, NEW s \in Seq(S), NEW n \in 0..Len(s)
  PROVE  SubSeq(s, 1, n) \in Seq(S) /\ Len(SubSeq(s, 1, n)) = n
  OBVIOUS

-----------------------------------------------------------------------------
(* Every variable keeps its type, and the log stays readable.              *)

\* The log begins without a line.
LEMMA LineInit == Init => TypeOK /\ LineInv
<1> SUFFICES ASSUME Init PROVE TypeOK /\ LineInv
  OBVIOUS
<1>1. log \in Seq(Records) /\ log \in Seq(Records \cup {Garbled}) /\ effects \in Seq(Targets)
  BY DEF Init
<1>2. handle \in BOOLEAN /\ existed \in BOOLEAN /\ regime \in Regimes /\ appended \in Nat
  BY DEF Init
<1>3. synced \in 0..Len(log)
  BY DEF Init
<1>4. calls \in 0..MaxCalls /\ faults \in 0..MaxFaults
  BY SessionAssumption DEF Init
<1>5. LineInv
  BY <1>1 DEF Init, LineInv
<1> QED
  BY <1>1, <1>2, <1>3, <1>4, <1>5 DEF Init, TypeOK

\* No step leaves a part of a record where another is written.
LEMMA LineStep == TypeOK /\ LineInv /\ [Next]_vars => TypeOK' /\ LineInv'
<1> SUFFICES ASSUME TypeOK, LineInv, [Next]_vars
             PROVE  TypeOK' /\ LineInv'
  OBVIOUS
<1> USE SessionAssumption, RecordsAreWhole
<1>1. CASE Open
  BY <1>1 DEF Open, Idle, TypeOK, LineInv, vars, disk, limits
<1>2. CASE MakeDirectory
  BY <1>2 DEF MakeDirectory, Idle, TypeOK, LineInv, vars, disk, limits
<1>3. CASE SyncParent
  BY <1>3 DEF SyncParent, TypeOK, LineInv, vars, disk, limits
<1>4. CASE HealTornTail
  BY <1>4 DEF HealTornTail, TypeOK, LineInv, vars, disk, limits
<1>5. CASE WriteRecord
  BY <1>5 DEF WriteRecord, TypeOK, LineInv, vars, disk, limits
<1>6. CASE SyncRecord
  <2>1. TypeOK'
    <3>1. writing' \in {writing, NoRecord} /\ existed' \in {existed, FALSE}
      BY <1>6 DEF SyncRecord, Return, Finish
    <3>2. existed' \in BOOLEAN
      BY <3>1 DEF TypeOK
    <3>3. pc' \in {"idle", "submit", "syncDir"} /\ appended' \in Nat
      BY <1>6 DEF SyncRecord, Return, Finish, TypeOK
    <3> QED
      BY <1>6, <3>1, <3>2, <3>3 DEF SyncRecord, TypeOK, limits
  <2>2. LineInv'
    BY <1>6, IntentByKind DEF SyncRecord, Return, Finish, LineInv
  <2> QED
    BY <2>1, <2>2
<1>7. CASE SyncDir
  <2>1. TypeOK'
    <3>1. writing' \in {writing, NoRecord} /\ existed' \in {existed, FALSE}
      BY <1>7 DEF SyncDir, Return, Finish
    <3>2. existed' \in BOOLEAN
      BY <3>1 DEF TypeOK
    <3>3. pc' \in {"idle", "submit", "syncDir"} /\ appended' \in Nat
      BY <1>7 DEF SyncDir, Return, Finish, TypeOK
    <3> QED
      BY <1>7, <3>1, <3>2, <3>3 DEF SyncDir, TypeOK, limits
  <2>2. LineInv'
    BY <1>7, IntentByKind DEF SyncDir, Return, Finish, LineInv
  <2> QED
    BY <2>1, <2>2
<1>8. ASSUME NEW o \in Ops, Begin(o)
      PROVE  TypeOK' /\ LineInv'
  BY <1>8, RecordsOf DEF Begin, BeginAppend, Idle, TypeOK, LineInv, vars, disk, limits
<1>9. CASE CaptureAssessment
  BY <1>9, CaptureIsRecord DEF CaptureAssessment, BeginAppend, Idle, TypeOK, LineInv, vars, disk,
     limits
<1>10. CASE SubmitConfirmed
  BY <1>10, OpOf, RecordsOf DEF SubmitConfirmed, BeginAppend, TypeOK, LineInv, vars, disk, limits
<1>11. CASE SubmitFails
  <2>1. effects' \in Seq(Targets)
    BY <1>11, OpOf, RecordsOf DEF SubmitFails, TypeOK, LineInv
  <2> QED
    BY <1>11, <2>1 DEF SubmitFails, Finish, TypeOK, LineInv, disk, limits
<1>12. CASE FileSystemFails
  <2>1. torn' \in Records \cup {NoRecord} /\ (entry' = "absent" => torn' = NoRecord)
    BY <1>12 DEF FileSystemFails, PartialStep, TypeOK, LineInv
  <2>2. entry' \in {"absent", "visible", "durable"} /\ (entry' = "absent" => log' = <<>>)
    BY <1>12 DEF FileSystemFails, PartialStep, TypeOK
  <2>3. faults' \in 0..MaxFaults
    BY <1>12 DEF FileSystemFails, Strike, TypeOK
  <2> QED
    BY <1>12, <2>1, <2>2, <2>3 DEF FileSystemFails, Finish, TypeOK, LineInv
<1>13. CASE Crash
  <2>1. torn' \in Records \cup {NoRecord} /\ (entry' = "absent" => torn' = NoRecord)
    BY <1>13 DEF Crash, PartialStep, TypeOK, LineInv
  <2>2. entry' \in {"absent", "visible", "durable"} /\ (entry' = "absent" => log' = <<>>)
    BY <1>13 DEF Crash, PartialStep, TypeOK
  <2>3. faults' \in 0..MaxFaults
    BY <1>13 DEF Crash, Strike, TypeOK
  <2> QED
    BY <1>13, <2>1, <2>2, <2>3 DEF Crash, Finish, TypeOK, LineInv
<1>14. CASE PowerLoss
  <2>1. /\ log' \in Seq(Records) /\ synced' \in 0..Len(log')
        /\ torn' \in Records \cup {NoRecord}
    <3>1. CASE LostFile
      BY <3>1 DEF LostFile
    <3>2. CASE SurvivingLines
      <4>1. PICK n \in synced..Len(log) :
              /\ log' = SubSeq(log, 1, n) /\ synced' = n
              /\ torn' \in {NoRecord, IF n < Len(log) THEN log[n + 1] ELSE torn}
        BY <3>2 DEF SurvivingLines
      <4>2. log' \in Seq(Records) /\ synced' \in 0..Len(log')
        BY <4>1, PrefixOfLog DEF TypeOK, LineInv
      <4>3. torn' \in Records \cup {NoRecord}
        BY <4>1 DEF TypeOK, LineInv
      <4> QED
        BY <4>2, <4>3
    <3> QED
      BY <1>14, <3>1, <3>2 DEF PowerLoss
  <2>2. /\ directory' \in {"absent", "visible", "durable"}
        /\ entry' \in {"absent", "visible", "durable"}
        /\ entry' = "absent" => log' = <<>> /\ torn' = NoRecord
    BY <1>14 DEF PowerLoss, LostFile, TypeOK
  <2>3. faults' \in 0..MaxFaults
    BY <1>14 DEF PowerLoss, Strike, TypeOK
  <2>4. log' \in Seq(Records \cup {Garbled})
    BY <2>1
  <2> QED
    BY <1>14, <2>1, <2>2, <2>3, <2>4 DEF PowerLoss, Finish, TypeOK, LineInv
<1>15. CASE UNCHANGED vars
  BY <1>15 DEF TypeOK, LineInv, vars, disk, process, limits
<1> QED
  BY <1>1, <1>2, <1>3, <1>4, <1>5, <1>6, <1>7, <1>8, <1>9, <1>10, <1>11, <1>12, <1>13, <1>14,
     <1>15 DEF Next

\* Every variable keeps its type (the state SessionDir and its directory keep).
THEOREM TypeCorrect == Spec => [](TypeOK /\ LineInv)
<1>1. Init => TypeOK /\ LineInv
  BY LineInit
<1>2. TypeOK /\ LineInv /\ [Next]_vars => (TypeOK /\ LineInv)'
  BY LineStep
<1> QED
  BY <1>1, <1>2, PTL DEF Spec

\* The log can be replayed after any number of deaths, failures and losses of power: no
\* record is written onto a part of another (append_line, heal_torn_tail).
THEOREM LogStaysReadable == Spec => []LogIsReadable
<1>1. TypeOK /\ LineInv => LogIsReadable
  BY RecordsAreWhole DEF LineInv, LogIsReadable
<1> QED
  BY <1>1, TypeCorrect, PTL

-----------------------------------------------------------------------------
(* What an append returned for stays on file.                              *)

\* Which faults strike is settled at the beginning.
LEMMA RegimeStays == [Next]_vars => regime' = regime
BY DEF Next, vars, limits, Open, MakeDirectory, SyncParent, HealTornTail, WriteRecord,
   SyncRecord, SyncDir,
       Begin, CaptureAssessment, SubmitConfirmed, SubmitFails, FileSystemFails, Crash, PowerLoss

\* While the power stays, no line of the log is ever lost.
LEMMA LinesStay ==
  ASSUME TypeOK, "power" \notin regime, [Next]_vars
  PROVE  \/ Len(log') >= Len(log) /\ appended' = appended
         \/ log' = log /\ appended' = Len(log)
<1>1. CASE Open \/ MakeDirectory \/ SyncParent \/ HealTornTail
  BY <1>1 DEF Open, MakeDirectory, SyncParent, HealTornTail, disk, limits, TypeOK
<1>2. CASE WriteRecord
  <2>1. \E r : log' = Append(log, r) /\ appended' = appended
    BY <1>2 DEF WriteRecord
  <2> QED
    BY <2>1 DEF TypeOK
<1>3. CASE SyncRecord \/ SyncDir
  BY <1>3 DEF SyncRecord, SyncDir, Return, TypeOK
<1>4. CASE \E op \in Ops : Begin(op)
  BY <1>4 DEF Begin, disk, TypeOK
<1>5. CASE CaptureAssessment \/ SubmitConfirmed \/ SubmitFails
  BY <1>5 DEF CaptureAssessment, SubmitConfirmed, SubmitFails, disk, TypeOK
<1>6. CASE FileSystemFails \/ Crash
  BY <1>6 DEF FileSystemFails, Crash, TypeOK
<1>7. CASE PowerLoss
  BY <1>7 DEF PowerLoss, Strike
<1>8. CASE UNCHANGED vars
  BY <1>8 DEF vars, disk, TypeOK
<1> QED
  BY <1>1, <1>2, <1>3, <1>4, <1>5, <1>6, <1>7, <1>8 DEF Next

\* When only the power can fail, nothing is on file that its call did not sync: what has
\* returned is on the disk, and so are the entries that lead there.
LEMMA SyncedStep ==
  ASSUME TypeOK, regime = {"power"}, EntryInv, SyncedInv, [Next]_vars
  PROVE  EntryInv' /\ SyncedInv'
<1>1. CASE Open
  BY <1>1 DEF Open, Idle, disk, limits, EntryInv, SyncedInv, TypeOK
<1>2. CASE MakeDirectory
  BY <1>2 DEF MakeDirectory, Idle, limits, EntryInv, SyncedInv
<1>3. CASE SyncParent
  BY <1>3 DEF SyncParent, limits, EntryInv, SyncedInv, TypeOK
<1>4. CASE HealTornTail
  <2>1. EntryInv'
    BY <1>4 DEF HealTornTail, EntryInv, TypeOK
  <2>2. SyncedInv'
    BY <1>4 DEF HealTornTail, SyncedInv, TypeOK
  <2> QED
    BY <2>1, <2>2
<1>5. CASE WriteRecord
  <2>1. EntryInv'
    BY <1>5 DEF WriteRecord, EntryInv, TypeOK
  <2>2. SyncedInv'
    BY <1>5 DEF WriteRecord, SyncedInv, TypeOK
  <2> QED
    BY <2>1, <2>2
<1>6. CASE SyncRecord
  <2>1. EntryInv'
    BY <1>6 DEF SyncRecord, Return, Finish, EntryInv, TypeOK
  <2>2. SyncedInv'
    BY <1>6 DEF SyncRecord, Return, Finish, EntryInv, SyncedInv, TypeOK
  <2> QED
    BY <2>1, <2>2
<1>7. CASE SyncDir
  <2>1. EntryInv'
    BY <1>7 DEF SyncDir, Return, Finish, EntryInv, TypeOK
  <2>2. SyncedInv'
    BY <1>7 DEF SyncDir, Return, Finish, SyncedInv, TypeOK
  <2> QED
    BY <2>1, <2>2
<1>8. ASSUME NEW o \in Ops, Begin(o)
      PROVE  EntryInv' /\ SyncedInv'
  BY <1>8 DEF Begin, BeginAppend, Idle, disk, EntryInv, SyncedInv
<1>9. CASE CaptureAssessment
  BY <1>9 DEF CaptureAssessment, BeginAppend, Idle, EntryInv, SyncedInv
<1>10. CASE SubmitConfirmed
  BY <1>10 DEF SubmitConfirmed, BeginAppend, disk, EntryInv, SyncedInv
<1>11. CASE SubmitFails
  BY <1>11 DEF SubmitFails, Finish, disk, EntryInv, SyncedInv
<1>12. CASE FileSystemFails \/ Crash
  BY <1>12 DEF FileSystemFails, Crash, Strike
<1>13. CASE PowerLoss
  <2>1. EntryInv'
    BY <1>13 DEF PowerLoss, LostFile, Finish, EntryInv, TypeOK
  <2>2. SyncedInv'
    <3>1. CASE LostFile
      BY <1>13, <3>1 DEF PowerLoss, LostFile, Finish, EntryInv, SyncedInv, TypeOK
    <3>2. CASE entry' = "durable" /\ SurvivingLines
      BY <1>13, <3>2 DEF PowerLoss, SurvivingLines, Finish, SyncedInv, TypeOK
    <3> QED
      BY <1>13, <3>1, <3>2 DEF PowerLoss
  <2> QED
    BY <2>1, <2>2
<1>14. CASE UNCHANGED vars
  BY <1>14 DEF vars, disk, process, EntryInv, SyncedInv
<1> QED
  BY <1>1, <1>2, <1>3, <1>4, <1>5, <1>6, <1>7, <1>8, <1>9, <1>10, <1>11, <1>12, <1>13,
     <1>14 DEF Next

\* What an append returned Ok for stays on file, whatever dies and fails, when the power
\* stays; and whatever the power does, when it is alone to fail (append_line, create,
\* sync_dir). Both at once are what the run esv_durable refutes.
THEOREM ReturnedStaysOnFile == PowerAlone => (Spec => []AppendsAreDurable)
<1> SUFFICES ASSUME PowerAlone
             PROVE  Spec => []AppendsAreDurable
  OBVIOUS
<1>1. Init => DurableInv
  BY DEF Init, DurableInv, EntryInv, SyncedInv
<1>2. TypeOK /\ DurableInv /\ [Next]_vars => DurableInv'
  <2> SUFFICES ASSUME TypeOK, DurableInv, [Next]_vars
               PROVE  DurableInv'
    OBVIOUS
  <2>1. regime' = regime
    BY RegimeStays
  <2>2. CASE "power" \notin regime
    BY <2>1, <2>2, LinesStay DEF DurableInv, TypeOK
  <2>3. CASE regime = {"power"}
    BY <2>1, <2>3, SyncedStep DEF DurableInv
  <2> QED
    BY <2>2, <2>3 DEF PowerAlone, TypeOK
<1>3. TypeOK /\ DurableInv => AppendsAreDurable
  BY DEF PowerAlone, TypeOK, DurableInv, SyncedInv, AppendsAreDurable
<1> QED
  BY <1>1, <1>2, <1>3, TypeCorrect, PTL DEF Spec

-----------------------------------------------------------------------------
(* What the log accounts for.                                              *)

\* Unconfirmed, and what a target has to its account, of any log l.
Settles(l, i, j) ==
  l[i].kind = "intent" /\ l[j].kind = "outcome" /\ Target[l[i].op] = l[j].target
OpenAt(l, i) ==
  /\ l[i].kind = "intent"
  /\ \A j \in i + 1 .. Len(l) :
       Settles(l, i, j) => \E k \in i + 1 .. j : l[k].kind = "intent"

Outs(l, t) == {i \in 1..Len(l) : l[i] = Outcome(t)}
Opens(l, t) == {i \in 1..Len(l) : OpenAt(l, i) /\ Target[l[i].op] = t}
Account(l, t) == Cardinality(Outs(l, t)) + Cardinality(Opens(l, t))
Done(t) == Cardinality({i \in DOMAIN effects : effects[i] = t})

\* A part of the places of a sequence can be counted, and one place more makes one more.
LEMMA Places ==
  ASSUME NEW n \in Nat, NEW A, A \subseteq 1..n
  PROVE  /\ IsFiniteSet(A) /\ Cardinality(A) \in Nat
         /\ Cardinality(A \cup {n + 1}) = Cardinality(A) + 1
<1>1. IsFiniteSet(1..n)
  BY FS_Interval
<1>2. IsFiniteSet(A)
  BY <1>1, FS_Subset
<1>3. n + 1 \notin A
  OBVIOUS
<1>4. QED
  BY <1>2, <1>3, FS_CardinalityType, FS_AddElement

\* One line more takes nothing from an account, and an intent adds to that of its target.
LEMMA AccountStep ==
  ASSUME NEW l \in Seq(Records), NEW r \in Records, NEW t \in Targets
  PROVE  /\ Account(l, t) \in Nat /\ Account(Append(l, r), t) \in Nat
         /\ Account(l, t) <= Account(Append(l, r), t)
         /\ r \in Intents /\ Target[r.op] = t => Account(Append(l, r), t) = Account(l, t) + 1
<1> DEFINE g == Append(l, r)
<1> DEFINE n == Len(l)
<1>1. /\ n \in Nat /\ Len(g) = n + 1 /\ g[n + 1] = r
      /\ \A i \in 1..n : g[i] = l[i] /\ l[i] \in Records
  OBVIOUS
<1> HIDE DEF g, n
<1>2. Outs(l, t) \subseteq 1..n /\ Opens(l, t) \subseteq 1..n
  BY DEF Outs, Opens, n
<1>3. Outs(g, t) \subseteq 1..n + 1 /\ Opens(g, t) \subseteq 1..n + 1
  BY <1>1 DEF Outs, Opens
<1>4. /\ Cardinality(Outs(l, t)) \in Nat /\ Cardinality(Opens(l, t)) \in Nat
      /\ Cardinality(Outs(l, t) \cup {n + 1}) = Cardinality(Outs(l, t)) + 1
      /\ Cardinality(Opens(l, t) \cup {n + 1}) = Cardinality(Opens(l, t)) + 1
      /\ IsFiniteSet(Opens(l, t))
  BY <1>1, <1>2, Places
<1>5. n + 1 \in Nat /\ Cardinality(Outs(g, t)) \in Nat /\ Cardinality(Opens(g, t)) \in Nat
      /\ IsFiniteSet(Opens(g, t))
  <2>1. n + 1 \in Nat
    BY <1>1
  <2>2. QED
    BY <1>3, <2>1, Places
<1>6. ASSUME NEW i \in 1..n
      PROVE  OpenAt(g, i) <=> /\ OpenAt(l, i)
                              /\ Settles(g, i, n + 1) => \E k \in i + 1 .. n + 1 : g[k].kind = "intent"
  <2>1. \A j \in i + 1 .. n : g[j] = l[j] /\ (Settles(g, i, j) <=> Settles(l, i, j))
    BY <1>1 DEF Settles
  <2>2. \A j \in i + 1 .. n : (\E k \in i + 1 .. j : g[k].kind = "intent")
                                <=> (\E k \in i + 1 .. j : l[k].kind = "intent")
    BY <1>1
  <2>3. \A j : j \in i + 1 .. n + 1 <=> j \in i + 1 .. n \/ j = n + 1
    BY <1>1
  <2>4. QED
    BY <1>1, <2>1, <2>2, <2>3 DEF OpenAt, n
<1>7. ASSUME r \in Intents
      PROVE  Outs(g, t) = Outs(l, t)
             /\ Opens(g, t) = IF Target[r.op] = t THEN Opens(l, t) \cup {n + 1} ELSE Opens(l, t)
  <2>1. r.kind = "intent" /\ r # Outcome(t)
    BY <1>7 DEF Intents, Outcome
  <2>2. Outs(g, t) = Outs(l, t)
    BY <1>1, <2>1 DEF Outs, n
  <2>3. \A i \in 1..n : OpenAt(g, i) <=> OpenAt(l, i)
    <3>1. \A i \in 1..n : ~Settles(g, i, n + 1)
      BY <1>1, <2>1 DEF Settles
    <3>2. QED
      BY <1>6, <3>1
  <2>4. OpenAt(g, n + 1)
    BY <1>1, <2>1 DEF OpenAt
  <2>5. QED
    BY <1>1, <2>2, <2>3, <2>4 DEF Opens, n
<1>8. ASSUME r \notin Intents
      PROVE  Account(l, t) <= Account(g, t)
  <2>1. r \in Outcomes /\ r.kind = "outcome"
    BY <1>8 DEF Records, Outcomes
  <2>2. ~OpenAt(g, n + 1)
    BY <1>1, <2>1 DEF OpenAt
  <2>3. CASE r.target = t
    <3>1. r = Outcome(t)
      BY <2>1, <2>3 DEF Outcomes, Outcome
    <3>2. Outs(g, t) = Outs(l, t) \cup {n + 1}
      BY <1>1, <3>1 DEF Outs, n
    <3>3. \E x : Opens(l, t) \subseteq Opens(g, t) \cup {x}
      <4>1. ASSUME NEW i \in Opens(l, t), i \notin Opens(g, t)
            PROVE  i \in 1..n /\ l[i].kind = "intent" /\ \A k \in i + 1 .. n : l[k].kind # "intent"
        <5>1. i \in 1..n /\ OpenAt(l, i) /\ Target[l[i].op] = t
          BY <4>1 DEF Opens, n
        <5>2. ~OpenAt(g, i)
          BY <1>1, <4>1, <5>1 DEF Opens
        <5>3. \A k \in i + 1 .. n + 1 : g[k].kind # "intent"
          BY <1>6, <5>1, <5>2
        <5>4. QED
          BY <1>1, <5>1, <5>3 DEF OpenAt
      <4>2. ASSUME NEW i \in Opens(l, t), i \notin Opens(g, t), NEW j \in Opens(l, t), j \notin Opens(g, t)
            PROVE  i = j
        <5>1. ~(i < j) /\ ~(j < i) /\ i \in Int /\ j \in Int
          BY <1>1, <4>1, <4>2
        <5>2. QED
          BY <5>1
      <4>3. QED
        BY <4>2
    <3>4. PICK x : Opens(l, t) \subseteq Opens(g, t) \cup {x}
      BY <3>3
    <3>5. Cardinality(Opens(l, t)) <= Cardinality(Opens(g, t)) + 1
      <4>1. IsFiniteSet(Opens(g, t) \cup {x}) /\ Cardinality(Opens(g, t) \cup {x}) \in Nat
            /\ Cardinality(Opens(g, t) \cup {x}) <= Cardinality(Opens(g, t)) + 1
        <5>1. /\ IsFiniteSet(Opens(g, t) \cup {x})
              /\ Cardinality(Opens(g, t) \cup {x})
                   = IF x \in Opens(g, t) THEN Cardinality(Opens(g, t)) ELSE Cardinality(Opens(g, t)) + 1
          BY <1>5, FS_AddElement
        <5>2. QED
          BY <1>5, <5>1
      <4>2. Cardinality(Opens(l, t)) <= Cardinality(Opens(g, t) \cup {x})
        BY <3>4, <4>1, FS_Subset
      <4>3. QED
        BY <1>4, <1>5, <4>1, <4>2
    <3>6. QED
      BY <1>4, <1>5, <3>2, <3>5 DEF Account
  <2>4. CASE r.target # t
    <3>1. r # Outcome(t)
      BY <2>4 DEF Outcome
    <3>2. Outs(g, t) = Outs(l, t)
      BY <1>1, <3>1 DEF Outs, n
    <3>3. ASSUME NEW i \in 1..n, Target[l[i].op] = t PROVE OpenAt(g, i) <=> OpenAt(l, i)
      <4>1. ~Settles(g, i, n + 1)
        BY <1>1, <2>4, <3>3 DEF Settles
      <4>2. QED
        BY <1>6, <4>1
    <3>4. Opens(g, t) = Opens(l, t)
      BY <1>1, <2>2, <3>3 DEF Opens, n
    <3>5. QED
      BY <1>4, <3>2, <3>4 DEF Account
  <2>5. QED
    BY <2>3, <2>4
<1>9. Account(l, t) \in Nat /\ Account(g, t) \in Nat
  BY <1>4, <1>5 DEF Account
<1>10. CASE r \in Intents
  <2>1. /\ Target[r.op] = t => Account(g, t) = Account(l, t) + 1
        /\ Target[r.op] # t => Account(g, t) = Account(l, t)
    <3>1. Outs(g, t) = Outs(l, t)
      BY <1>7, <1>10
    <3>2. CASE Target[r.op] = t
      <4>1. Opens(g, t) = Opens(l, t) \cup {n + 1}
        BY <1>7, <1>10, <3>2
      <4>2. QED
        BY <1>4, <3>1, <3>2, <4>1 DEF Account
    <3>3. CASE Target[r.op] # t
      <4>1. Opens(g, t) = Opens(l, t)
        BY <1>7, <1>10, <3>3
      <4>2. QED
        BY <3>1, <3>3, <4>1 DEF Account
    <3>4. QED
      BY <3>2, <3>3
  <2>2. QED
    BY <1>9, <2>1 DEF g
<1>11. CASE r \notin Intents
  BY <1>8, <1>9, <1>11 DEF g
<1>12. QED
  BY <1>10, <1>11

\* What the server did for a target is in its account, in every part of the log a loss of
\* power may leave; an operation that is to be submitted is in it already.
Covers(l, t, extra) == Done(t) + extra <= Account(l, t)

Shortest == IF regime = {"power"} THEN synced ELSE Len(log)

AccountInv ==
  \A t \in Targets : \A n \in Shortest .. Len(log) : Covers(SubSeq(log, 1, n), t, 0)

PendingInv ==
  /\ pc \in {"sync", "syncDir", "submit"} /\ writing \in Intents =>
       Covers(log, Target[writing.op], 1)
  /\ pc \in {"syncDir", "submit"} => synced = Len(log)
  /\ pc \in {"sync", "syncDir", "submit"} => log # <<>>

\* A log of which the server knows cannot be lost whole.
KnownInv == regime = {"power"} /\ effects # <<>> => entry = "durable" /\ directory = "durable"

AccountsInv == AccountInv /\ PendingInv /\ KnownInv

\* The counts are numbers.
LEMMA DoneIs ==
  ASSUME TypeOK, NEW t \in Targets
  PROVE  Done(t) \in Nat /\ (effects = <<>> => Done(t) = 0)
<1>1. effects \in Seq(Targets) /\ DOMAIN effects = 1..Len(effects) /\ Len(effects) \in Nat
  BY DEF TypeOK
<1>2. Done(t) \in Nat
  BY <1>1, Places DEF Done
<1>3. effects = <<>> => {i \in DOMAIN effects : effects[i] = t} = {}
  BY <1>1
<1>4. QED
  BY <1>2, <1>3, FS_EmptySet DEF Done

\* An account counts records, so it is a number.
LEMMA AccountIs ==
  ASSUME NEW l \in Seq(Records), NEW t \in Targets
  PROVE  Account(l, t) \in Nat
<1>1. Outs(l, t) \subseteq 1..Len(l) /\ Opens(l, t) \subseteq 1..Len(l) /\ Len(l) \in Nat
  BY DEF Outs, Opens
<1>2. Cardinality(Outs(l, t)) \in Nat /\ Cardinality(Opens(l, t)) \in Nat
  BY <1>1, Places
<1>3. QED
  BY <1>2 DEF Account

\* A submission that the server executed is one more of its target, and of no other.
LEMMA OneDone ==
  ASSUME TypeOK, NEW t \in Targets, NEW u \in Targets, effects' = Append(effects, u)
  PROVE  Done(t)' = IF u = t THEN Done(t) + 1 ELSE Done(t)
<1> DEFINE e == effects
<1> DEFINE f == Append(e, u)
<1> DEFINE n == Len(e)
<1>1. e \in Seq(Targets) /\ n \in Nat
  BY DEF TypeOK
<1>2. DOMAIN e = 1..n /\ DOMAIN f = 1..n + 1 /\ f[n + 1] = u /\ \A i \in 1..n : f[i] = e[i]
  BY <1>1
<1> HIDE DEF f, n, e
<1>3. {i \in DOMAIN f : f[i] = t}
        = IF u = t THEN {i \in DOMAIN e : e[i] = t} \cup {n + 1} ELSE {i \in DOMAIN e : e[i] = t}
  BY <1>1, <1>2
<1>4. Cardinality({i \in DOMAIN e : e[i] = t} \cup {n + 1}) = Cardinality({i \in DOMAIN e : e[i] = t}) + 1
  BY <1>1, <1>2, Places
<1>5. Cardinality({i \in DOMAIN f : f[i] = t})
        = IF u = t THEN Cardinality({i \in DOMAIN e : e[i] = t}) + 1 ELSE Cardinality({i \in DOMAIN e : e[i] = t})
  BY <1>3, <1>4
<1>6. QED
  BY <1>5 DEF Done, e, f

\* A step that neither submits nor writes nor loses keeps the accounts; a line of the log that
\* reaches the disk leaves less to chance.
LEMMA AccountsKept ==
  ASSUME TypeOK, AccountsInv, UNCHANGED <<effects, log, regime>>, synced' \in {synced, Len(log)}
  PROVE  AccountInv'
<1>1. \A t \in Targets : Done(t)' = Done(t)
  BY DEF Done
<1>2. \A n \in Shortest' .. Len(log') : n \in Shortest .. Len(log)
  BY DEF Shortest, TypeOK
<1>3. QED
  BY <1>1, <1>2 DEF AccountInv, AccountsInv, Covers

\* The record and its newline go to the end of the log.
LEMMA WriteAccounts ==
  ASSUME TypeOK, LineInv, AccountsInv, WriteRecord
  PROVE  AccountInv' /\ PendingInv'
<1>1. /\ log' = Append(log, writing) /\ pc' = "sync"
      /\ UNCHANGED <<synced, writing, effects, regime>>
  BY DEF WriteRecord, LineInv, limits
<1>2. log \in Seq(Records) /\ writing \in Records /\ Len(log) \in Nat /\ synced \in 0..Len(log)
  BY DEF WriteRecord, LineInv, TypeOK
<1>3. Len(log') = Len(log) + 1 /\ log' # <<>>
  BY <1>1, <1>2
<1>4. SubSeq(log, 1, Len(log)) = log /\ SubSeq(log', 1, Len(log')) = log'
  BY <1>1, <1>2, <1>3
<1>5. \A n \in 0..Len(log) : SubSeq(log', 1, n) = SubSeq(log, 1, n)
  BY <1>1, <1>2
<1>6. ASSUME NEW t \in Targets
      PROVE  /\ Done(t)' = Done(t) /\ Done(t) \in Nat /\ Done(t) <= Account(log, t)
             /\ Done(t) <= Account(log', t)
             /\ writing \in Intents /\ Target[writing.op] = t => Done(t) + 1 <= Account(log', t)
  <2>1. Done(t)' = Done(t) /\ Done(t) \in Nat
    BY <1>1, DoneIs DEF Done
  <2>2. Len(log) \in Shortest .. Len(log)
    BY <1>2 DEF Shortest
  <2>3. Done(t) <= Account(log, t)
    <3>1. Covers(SubSeq(log, 1, Len(log)), t, 0)
      BY <2>2 DEF AccountsInv, AccountInv
    <3>2. Covers(log, t, 0)
      BY <1>4, <3>1
    <3>3. QED
      BY <2>1, <3>2 DEF Covers
  <2>4. /\ Account(log, t) \in Nat /\ Account(log', t) \in Nat
        /\ Account(log, t) <= Account(log', t)
        /\ writing \in Intents /\ Target[writing.op] = t => Account(log', t) = Account(log, t) + 1
    BY <1>1, <1>2, AccountStep
  <2>5. QED
    BY <2>1, <2>3, <2>4
<1>7. AccountInv'
  <2> SUFFICES ASSUME NEW t \in Targets, NEW n \in Shortest' .. Len(log')
               PROVE  Covers(SubSeq(log, 1, n), t, 0)'
    BY DEF AccountInv
  <2>1. CASE n = Len(log')
    <3>1. SubSeq(log', 1, n) = log'
      BY <1>4, <2>1
    <3>2. Done(t)' + 0 <= Account(log', t)
      BY <1>6
    <3>3. QED
      BY <3>1, <3>2 DEF Covers
  <2>2. CASE n # Len(log')
    <3>1. n \in Shortest .. Len(log) /\ n \in 0..Len(log)
      BY <1>1, <1>2, <1>3, <2>2 DEF Shortest
    <3>2. Covers(SubSeq(log, 1, n), t, 0)
      BY <3>1 DEF AccountsInv, AccountInv
    <3>3. QED
      BY <1>5, <1>6, <3>1, <3>2 DEF Covers
  <2>3. QED
    BY <2>1, <2>2
<1>8. PendingInv'
  <2>1. ASSUME writing \in Intents PROVE Covers(log, Target[writing.op], 1)'
    <3>1. Target[writing.op] \in Targets
      BY <2>1, OpOf, RecordsOf
    <3>2. QED
      BY <1>1, <1>6, <2>1, <3>1 DEF Covers
  <2>2. QED
    BY <1>1, <1>3, <2>1 DEF PendingInv
<1>9. QED
  BY <1>7, <1>8

\* The server may have done what was submitted: its intent is on the disk.
LEMMA SubmitAccounts ==
  ASSUME TypeOK, LineInv, AccountsInv, pc = "submit",
         effects' \in {effects, Append(effects, Target[writing.op])},
         UNCHANGED <<log, synced, regime>>
  PROVE  AccountInv'
<1>1. writing \in Intents /\ log \in Seq(Records) /\ Len(log) \in Nat /\ synced = Len(log)
  BY DEF LineInv, AccountsInv, PendingInv, TypeOK
<1>2. Target[writing.op] \in Targets
  BY <1>1, OpOf, RecordsOf
<1>3. SubSeq(log, 1, Len(log)) = log /\ Shortest = Len(log) /\ Shortest' = Len(log)
  BY <1>1 DEF Shortest
<1>4. ASSUME NEW t \in Targets PROVE Done(t)' <= Account(log, t)
  <2>1. Done(t) \in Nat /\ Account(log, t) \in Nat
    BY <1>1, DoneIs, AccountIs
  <2>2. Done(t) <= Account(log, t)
    <3>1. Len(log) \in Shortest .. Len(log)
      BY <1>1, <1>3
    <3>2. Covers(SubSeq(log, 1, Len(log)), t, 0)
      BY <3>1 DEF AccountsInv, AccountInv
    <3>3. Covers(log, t, 0)
      BY <1>3, <3>2
    <3>4. QED
      BY <2>1, <3>3 DEF Covers
  <2>3. Target[writing.op] = t => Done(t) + 1 <= Account(log, t)
    BY <1>1 DEF AccountsInv, PendingInv, Covers
  <2>4. CASE effects' = effects
    BY <2>2, <2>4 DEF Done
  <2>5. CASE effects' = Append(effects, Target[writing.op])
    BY <1>2, <2>1, <2>2, <2>3, <2>5, OneDone
  <2>6. QED
    BY <2>4, <2>5
<1>5. ASSUME NEW t \in Targets PROVE Done(t)' + 0 <= Account(log, t)
  <2>1. Done(t)' \in Nat
    <3>1. Done(t) \in Nat
      BY DoneIs
    <3>2. CASE effects' = effects
      BY <3>1, <3>2 DEF Done
    <3>3. CASE effects' = Append(effects, Target[writing.op])
      BY <1>2, <3>1, <3>3, OneDone
    <3>4. QED
      BY <3>2, <3>3
  <2>2. QED
    BY <1>4, <2>1
<1>6. \A n \in Shortest' .. Len(log') : n = Len(log) /\ SubSeq(log', 1, n) = log
  BY <1>1, <1>3
<1>7. QED
  BY <1>5, <1>6 DEF AccountInv, Covers

\* Nothing the server did is lost with the power.
LEMMA PowerAccounts ==
  ASSUME TypeOK, LineInv, AccountsInv, regime = {"power"}, EntryInv, PowerLoss
  PROVE  AccountInv' /\ KnownInv'
<1>1. UNCHANGED <<effects, regime>>
  BY DEF PowerLoss
<1>2. log \in Seq(Records) /\ Len(log) \in Nat /\ synced \in 0..Len(log)
  BY DEF LineInv, TypeOK
<1>3. CASE effects = <<>>
  <2>1. log' \in Seq(Records) /\ synced' \in 0..Len(log')
    <3>1. CASE LostFile
      BY <3>1 DEF LostFile
    <3>2. CASE SurvivingLines
      BY <1>2, <3>2, PrefixOfLog DEF SurvivingLines
    <3>3. QED
      BY <3>1, <3>2 DEF PowerLoss
  <2>2. \A n \in Shortest' .. Len(log') : SubSeq(log', 1, n) \in Seq(Records)
    <3>1. \A n \in Shortest' .. Len(log') : n \in 0..Len(log')
      BY <1>1, <2>1 DEF Shortest
    <3>2. QED
      BY <2>1, <3>1, PrefixOfLog
  <2>3. \A t \in Targets : Done(t)' = 0
    BY <1>1, <1>3, DoneIs DEF Done
  <2>4. AccountInv'
    <3> SUFFICES ASSUME NEW t \in Targets, NEW n \in Shortest' .. Len(log')
                 PROVE  Covers(SubSeq(log, 1, n), t, 0)'
      BY DEF AccountInv
    <3>1. Account(SubSeq(log', 1, n), t) \in Nat
      BY <2>2, AccountIs
    <3>2. Done(t)' + 0 <= Account(SubSeq(log', 1, n), t)
      BY <2>3, <3>1
    <3>3. QED
      BY <3>2 DEF Covers
  <2>5. QED
    BY <1>1, <1>3, <2>4 DEF KnownInv
<1>4. CASE effects # <<>>
  <2>1. entry = "durable" /\ directory = "durable"
    BY <1>4 DEF AccountsInv, KnownInv
  <2>2. entry' = "durable" /\ directory' = "durable" /\ SurvivingLines
    BY <2>1 DEF PowerLoss
  <2>3. PICK n \in synced .. Len(log) : log' = SubSeq(log, 1, n) /\ synced' = n
    BY <2>2 DEF SurvivingLines
  <2>4. Len(log') = n /\ SubSeq(log', 1, n) = log' /\ n \in 0..Len(log)
    BY <1>2, <2>3
  <2>5. \A k \in Shortest' .. Len(log') : k = n /\ SubSeq(log', 1, k) = SubSeq(log, 1, n)
    BY <1>1, <2>3, <2>4 DEF Shortest
  <2>6. n \in Shortest .. Len(log)
    BY <2>3 DEF Shortest
  <2>7. \A t \in Targets : Covers(SubSeq(log, 1, n), t, 0)
    BY <2>6 DEF AccountsInv, AccountInv
  <2>8. \A t \in Targets : Done(t)' = Done(t)
    BY <1>1 DEF Done
  <2>9. AccountInv'
    BY <2>5, <2>7, <2>8 DEF AccountInv, Covers
  <2>10. QED
    BY <2>2, <2>9 DEF KnownInv
<1>5. QED
  BY <1>3, <1>4

\* Every step keeps the accounts of submissions in agreement with what was submitted.
LEMMA AccountsStep ==
  ASSUME TypeOK, LineInv, AccountsInv, [Next]_vars,
         regime = {"power"} \/ "power" \notin regime, regime = {"power"} => EntryInv
  PROVE  AccountsInv'
<1>0. regime' = regime
  BY RegimeStays
<1>1. CASE Open \/ MakeDirectory \/ SyncParent
  <2>1. UNCHANGED <<effects, log, synced, entry>> /\ pc' \in {"idle", "syncParent"}
        /\ (directory = "durable" => directory' = "durable")
    BY <1>1 DEF Open, MakeDirectory, SyncParent, Idle, disk
  <2>2. AccountInv'
    BY <1>0, <2>1, AccountsKept
  <2>3. QED
    BY <1>0, <2>1, <2>2 DEF AccountsInv, PendingInv, KnownInv
<1>2. CASE HealTornTail
  <2>1. UNCHANGED <<effects, log, entry, directory>> /\ pc' = "write" /\ synced' \in {synced,
                    Len(log)}
    BY <1>2 DEF HealTornTail
  <2>2. AccountInv'
    BY <1>0, <2>1, AccountsKept
  <2>3. QED
    BY <1>0, <2>1, <2>2 DEF AccountsInv, PendingInv, KnownInv
<1>3. CASE WriteRecord
  <2>1. AccountInv' /\ PendingInv'
    BY <1>3, WriteAccounts
  <2>2. UNCHANGED <<effects, directory>> /\ (entry = "durable" => entry' = "durable")
    BY <1>3 DEF WriteRecord
  <2>3. QED
    BY <1>0, <2>1, <2>2 DEF AccountsInv, KnownInv
<1>4. CASE SyncRecord \/ SyncDir
  <2>1. /\ UNCHANGED <<effects, log, directory>> /\ synced' \in {synced, Len(log)}
        /\ (entry = "durable" => entry' = "durable")
    BY <1>4 DEF SyncRecord, SyncDir
  <2>2. AccountInv'
    BY <1>0, <2>1, AccountsKept
  <2>3. /\ pc \in {"sync", "syncDir"} /\ pc' \in {"syncDir", "submit", "idle"} /\ synced' = Len(log)
        /\ pc' # "idle" => writing' = writing
    BY <1>4 DEF SyncRecord, SyncDir, Return, Finish, AccountsInv, PendingInv
  <2>4. \A t : Done(t)' = Done(t)
    BY <2>1 DEF Done
  <2>5. PendingInv'
    BY <2>1, <2>3, <2>4 DEF AccountsInv, PendingInv, Covers
  <2>6. QED
    BY <1>0, <2>1, <2>2, <2>5 DEF AccountsInv, KnownInv
<1>5. CASE CaptureAssessment \/ \E op \in Ops : Begin(op)
  <2>1. /\ UNCHANGED <<effects, log, synced, directory>> /\ pc' = "heal"
        /\ (entry = "durable" => entry' = "durable")
    BY <1>5 DEF CaptureAssessment, Begin, BeginAppend, disk
  <2>2. AccountInv'
    BY <1>0, <2>1, AccountsKept
  <2>3. QED
    BY <1>0, <2>1, <2>2 DEF AccountsInv, PendingInv, KnownInv
<1>6. CASE SubmitConfirmed \/ SubmitFails
  <2>1. /\ pc = "submit" /\ effects' \in {effects, Append(effects, Target[writing.op])}
        /\ pc' \in {"heal", "idle"} /\ UNCHANGED <<log, synced, entry, directory>>
    BY <1>6 DEF SubmitConfirmed, SubmitFails, BeginAppend, Finish, disk
  <2>2. AccountInv'
    BY <1>0, <2>1, SubmitAccounts
  <2>3. KnownInv'
    <3>1. log # <<>>
      BY <2>1 DEF AccountsInv, PendingInv
    <3>2. ASSUME regime = {"power"} PROVE entry = "durable" /\ directory = "durable"
      BY <2>1, <3>1, <3>2 DEF EntryInv, TypeOK
    <3>3. QED
      BY <1>0, <2>1, <3>2 DEF KnownInv
  <2>4. QED
    BY <2>1, <2>2, <2>3 DEF AccountsInv, PendingInv
<1>7. CASE FileSystemFails \/ Crash
  <2>1. UNCHANGED <<effects, log, synced>> /\ pc' = "idle" /\ regime # {"power"}
    BY <1>7 DEF FileSystemFails, Crash, Finish, Strike
  <2>2. AccountInv'
    BY <1>0, <2>1, AccountsKept
  <2>3. QED
    BY <1>0, <2>1, <2>2 DEF AccountsInv, PendingInv, KnownInv
<1>8. CASE PowerLoss
  <2>1. regime = {"power"}
    BY <1>8 DEF PowerLoss, Strike
  <2>2. AccountInv' /\ KnownInv'
    BY <1>8, <2>1, PowerAccounts
  <2>3. pc' = "idle"
    BY <1>8 DEF PowerLoss, Finish
  <2>4. QED
    BY <2>2, <2>3 DEF AccountsInv, PendingInv
<1>9. CASE UNCHANGED vars
  <2>1. UNCHANGED <<effects, log, synced, entry, directory, pc, writing, regime>>
    BY <1>9 DEF vars, disk, process, limits
  <2>2. AccountInv'
    BY <2>1, AccountsKept
  <2>3. \A t : Done(t)' = Done(t)
    BY <2>1 DEF Done
  <2>4. QED
    BY <2>1, <2>2, <2>3 DEF AccountsInv, PendingInv, KnownInv, Covers
<1>10. QED
  BY <1>1, <1>2, <1>3, <1>4, <1>5, <1>6, <1>7, <1>8, <1>9 DEF Next

\* Nothing the server did goes unnoticed on resumption, whatever dies and fails when the
\* power stays, and whatever the power does when it is alone to fail: what was done is told
\* by an outcome, or by an intent that the replay finds unconfirmed (persist_intent_then,
\* load_state).
THEOREM EffectsAreKnown == PowerAlone => (Spec => []EffectsAreAccounted)
<1> SUFFICES ASSUME PowerAlone
             PROVE  Spec => []EffectsAreAccounted
  OBVIOUS
<1> DEFINE All == (regime = {"power"} => EntryInv /\ SyncedInv) /\ AccountsInv
<1>1. Init => All
  <2> SUFFICES ASSUME Init PROVE All
    OBVIOUS
  <2>1. TypeOK /\ log = <<>> /\ synced = 0 /\ effects = <<>> /\ pc = "idle"
    BY LineInit DEF Init
  <2>2. EntryInv /\ SyncedInv
    BY DEF Init, EntryInv, SyncedInv
  <2>3. \A n \in Shortest .. Len(log) : n = 0 /\ SubSeq(log, 1, n) = <<>>
    BY <2>1 DEF Shortest
  <2>4. \A t \in Targets : Covers(<<>>, t, 0)
    <3>1. <<>> \in Seq(Records)
      OBVIOUS
    <3>2. \A t \in Targets : Account(<<>>, t) \in Nat /\ Done(t) = 0
      BY <2>1, <3>1, DoneIs, AccountIs
    <3>3. QED
      BY <3>2 DEF Covers
  <2>5. AccountInv
    BY <2>3, <2>4 DEF AccountInv
  <2>6. QED
    BY <2>1, <2>2, <2>5 DEF AccountsInv, PendingInv, KnownInv
<1>2. TypeOK /\ LineInv /\ All /\ [Next]_vars => All'
  <2> SUFFICES ASSUME TypeOK, LineInv, All, [Next]_vars PROVE All'
    OBVIOUS
  <2>1. regime' = regime
    BY RegimeStays
  <2>2. regime = {"power"} \/ "power" \notin regime
    BY DEF PowerAlone, TypeOK
  <2>3. AccountsInv'
    BY <2>2, AccountsStep
  <2>4. regime = {"power"} => EntryInv' /\ SyncedInv'
    BY SyncedStep
  <2>5. QED
    BY <2>1, <2>3, <2>4
<1>3. TypeOK /\ LineInv /\ All => EffectsAreAccounted
  <2> SUFFICES ASSUME TypeOK, LineInv, AccountsInv, NEW t \in Targets
               PROVE  Cardinality({i \in DOMAIN effects : effects[i] = t})
                        <= Cardinality({i \in DOMAIN log : log[i] = Outcome(t)})
                             + Cardinality({i \in DOMAIN log : Unconfirmed(i) /\ Target[log[i].op] = t})
    BY DEF EffectsAreAccounted, Times
  <2>1. log \in Seq(Records) /\ DOMAIN log = 1..Len(log) /\ Len(log) \in Nat /\ synced \in 0..Len(log)
    BY DEF LineInv, TypeOK
  <2>2. {i \in DOMAIN log : Unconfirmed(i) /\ Target[log[i].op] = t} = Opens(log, t)
    BY <2>1 DEF Opens, Unconfirmed, OpenAt, Confirms, Settles
  <2>3. {i \in DOMAIN log : log[i] = Outcome(t)} = Outs(log, t)
    BY <2>1 DEF Outs
  <2>4. Len(log) \in Shortest .. Len(log) /\ SubSeq(log, 1, Len(log)) = log
    BY <2>1 DEF Shortest
  <2>5. Covers(log, t, 0)
    BY <2>4 DEF AccountsInv, AccountInv
  <2>6. Done(t) \in Nat
    BY DoneIs
  <2>7. Done(t) <= Account(log, t)
    BY <2>5, <2>6 DEF Covers
  <2>8. QED
    BY <2>2, <2>3, <2>7 DEF Done, Account
<1> HIDE DEF All
<1>4. QED
  BY <1>1, <1>2, <1>3, TypeCorrect, PTL DEF Spec

-----------------------------------------------------------------------------
(* The ACVP client: where a process is in the course of a vector set.      *)

Making == {"fresh", "fetch", "store", "compute", "keep"}
Sending == {"renew", "submit", "reopen", "renewAgain", "again", "authorize", "last"}
Replaying == {"load", "login", "replay"}
Ending == {"mark", "judge", "poll", "verdict", "conclude"}
InSet == Making \cup {"pending"} \cup Sending \cup Ending
Stages == InSet \cup Replaying \cup {"idle", "recover", "recovered"}

Contents == {"absent", "full", "cut"}
Words == {"absent", "cut", "PENDING", "SUBMITTED", "POLL_TIMEOUT"} \cup Verdicts
AcvpOutcomes == {"none", "ok", "auth", "http", "dead", "other", "POLL_TIMEOUT"} \cup Verdicts

AcvpTypes ==
  /\ command \in {"none", "demo", "resubmit"} /\ auto \in BOOLEAN /\ stage \in Stages
  /\ cur \in VectorSets /\ conn \in {"live", "dead", "closing"} /\ age \in 0..2
  /\ outcome \in AcvpOutcomes /\ exit \in {"none", "ok", "error", "died"}
  /\ disp \in [VectorSets -> Errors \cup Words \cup {"none"}]
  /\ file \in [VectorSets -> [prompt : Contents, response : Contents, status : Words]]
  /\ server \in [VectorSets -> {"none", "received"} \cup Verdicts]
  /\ posts \in [VectorSets -> Nat] /\ renewed \in BOOLEAN /\ mishaps \in 0..MaxMishaps

\* demo-run works through the vector sets, before its automatic resubmits.
Working == command = "demo" /\ ~auto /\ stage \in InSet

\* Which command is where.
StageInv ==
  /\ command = "none" <=> stage = "idle"
  /\ auto => command = "demo" /\ stage \in Replaying \cup Ending
  /\ stage \in Making \cup {"pending", "recover", "recovered"} \cup Sending =>
       command = "demo" /\ ~auto
  /\ stage \in Replaying => auto \/ command = "resubmit"
  /\ stage = "idle" /\ exit = "none" =>
       /\ file = [v \in VectorSets |-> NoFiles] /\ posts = [v \in VectorSets |-> 0]
       /\ disp = [v \in VectorSets |-> "none"]

\* A vector set that was not reached yet, or is not computed yet, has no answers on file,
\* and the status follows whole answers only.
FilesInv ==
  /\ \A v \in VectorSets : file[v].status = "PENDING" => file[v].response = "full"
  /\ stage = "pending" => file[cur].response = "full"
  /\ Working => \A v \in VectorSets : v > cur \/ (v = cur /\ stage \in Making) =>
                  file[v].response = "absent" /\ file[v].status = "absent"

\* What demo-run owes of a vector set when no write failed: the answers, until they are
\* submitted, and the word on them.
Kept(v) == file[v].response = "full" /\ file[v].status = "PENDING"

PromiseInv ==
  /\ auto => disp[cur] = "SUBMIT_ERROR"
  /\ Working => \A v \in VectorSets : v >= cur => disp[v] = "none"
  /\ command = "demo" /\ mishaps = MaxMishaps =>
       /\ Working /\ (stage \in Sending \/ (stage = "judge" /\ outcome # "ok")) => Kept(cur)
       /\ \A v \in VectorSets :
            /\ disp[v] = "SUBMIT_ERROR" /\ ~(auto /\ v = cur /\ stage = "conclude") =>
                 file[v].response = "full" /\ file[v].status \in {"PENDING", "SUBMITTED"}
            /\ disp[v] \in {"SUBMIT_AUTH", "SUBMIT_HTTP"} => Kept(v)

\* What is polled for, or has a verdict, the server has.
AcceptedInv ==
  /\ AcceptedMeansReceived
  /\ stage = "mark" => outcome = "ok"
  /\ stage \in {"mark", "poll"} \/ (stage = "judge" /\ outcome = "ok") => server[cur] # "none"
  /\ stage \in {"verdict", "conclude"} =>
       /\ server[cur] # "none" /\ outcome \in Verdicts \cup {"POLL_TIMEOUT"}
       /\ outcome \in Verdicts => server[cur] = outcome

\* How often a vector set can have been submitted where the process is.
PostsInv ==
  /\ \A v \in VectorSets : posts[v] <= IF disp[v] = "none" THEN 3 ELSE 4
  /\ Working =>
       /\ \A v \in VectorSets : posts[v] <= 3 /\ (v > cur => posts[v] = 0)
       /\ stage \in Making \cup {"pending", "renew", "submit"} => posts[cur] = 0
       /\ stage \in {"reopen", "renewAgain", "again"} => posts[cur] <= 1
       /\ stage \in {"authorize", "last"} => posts[cur] <= 2
  /\ stage \in {"recover", "recovered"} \/ auto => \A v \in VectorSets : v > cur => posts[v] <= 3
  /\ stage = "recover" \/ (auto /\ stage \in Replaying) => posts[cur] <= 3
  /\ command = "resubmit" /\ stage \in Replaying => posts[cur] = 0

\* A refused submit is judged only after a renewal.
RenewedInv ==
  /\ stage = "judge" /\ outcome = "auth" => renewed
  /\ stage \in {"last", "replay"} => renewed
  /\ stage = "reopen" => outcome = "dead"
  /\ stage = "authorize" => outcome = "auth"

AcvpInv == AcvpTypes /\ StageInv /\ FilesInv /\ PromiseInv /\ AcceptedInv /\ PostsInv /\ RenewedInv

-----------------------------------------------------------------------------
(* What the operators of the client come to.                               *)

Conns == {"live", "dead", "closing"}

\* The steps that only move the process on, with its tunnel and its token.
Moves ==
  \/ stage = "fresh" /\ stage' = "fetch"
  \/ stage = "fetch" /\ stage' \in {"fetch", "store"}
  \/ stage = "compute" /\ stage' = "keep"
  \/ stage = "renew" /\ stage' = "submit"
  \/ stage = "reopen" /\ stage' \in {"renewAgain", "judge"}
  \/ stage = "renewAgain" /\ stage' = "again"
  \/ stage = "authorize" /\ stage' \in {"last", "judge"} /\ renewed'
  \/ stage = "judge" /\ outcome = "ok" /\ stage' = "poll"
  \/ stage = "poll" /\ stage' = "poll"
  \/ stage = "recover" /\ stage' = "recovered"
  \/ stage = "load" /\ stage' = "login"
  \/ stage = "login" /\ stage' = "replay" /\ renewed'

recordVars == <<command, auto, cur, outcome, disp, exit, file, server, posts, mishaps>>

\* Where a call leaves the tunnel.
LEMMA CallsAre ==
  ASSUME conn \in Conns
  PROVE  \A c \in Calls : c.conn \in Conns /\ c.end \in {"reply", "dead", "other"}
<1> DEFINE after == IF backend = "curl" THEN {"live"} ELSE {"live", "closing"}
           lost == IF backend = "curl" THEN "live" ELSE "dead"
<1>1. after \subseteq Conns /\ lost \in Conns /\ after \cup {conn} \subseteq Conns
  BY DEF Conns
<1>2. CASE conn = "dead"
  BY <1>2 DEF Calls, Conns
<1>3. CASE conn # "dead"
  <2>1. Calls = [end : {"reply"}, conn : after] \cup [end : {"other"}, conn : after \cup {conn}]
                \cup {[end |-> "dead", conn |-> lost]}
    BY <1>3 DEF Calls
  <2> HIDE DEF after, lost
  <2>2. QED
    BY <1>1, <2>1
<1>4. QED
  BY <1>2, <1>3

\* A renewal goes on in one of two ways.
LEMMA RefreshIs ==
  ASSUME conn \in Conns, age \in 0..2, NEW onOk, NEW onError, Refresh(onOk, onError)
  PROVE  conn' \in Conns /\ age' \in 0..2 /\ stage' \in {onOk, onError}
<1>1. PICK c \in Calls : conn' = c.conn /\ ((c.end = "reply" /\ age' = 0 /\ Goto(onOk))
                                             \/ (age' = age /\ Goto(onError)))
  BY DEF Refresh
<1>2. conn' \in Conns
  BY <1>1, CallsAre
<1>3. QED
  BY <1>1, <1>2 DEF Goto

\* A write that is not what was meant costs a fault.
LEMMA WritesAre ==
  ASSUME mishaps \in 0..MaxMishaps, NEW old, NEW new, NEW w \in Writes(old, new), CountFault(w # new)
  PROVE  /\ w \in {new, old, "cut"} /\ mishaps' \in 0..MaxMishaps
         /\ mishaps' = MaxMishaps => w = new /\ mishaps = MaxMishaps
<1>1. w \in {new, old, "cut"} /\ (w # new => mishaps > 0)
  BY DEF Writes
<1>2. mishaps' = mishaps - (IF w # new THEN 1 ELSE 0)
  BY DEF CountFault
<1>3. QED
  BY <1>1, <1>2, AcvpAssumption

\* The next vector set is the one after, or the first of the automatic resubmits.
LEMMA NextSetIs ==
  ASSUME cur \in VectorSets, NextSet
  PROVE  /\ cur' \in VectorSets /\ stage' \in {"fresh", "recover"}
         /\ stage' = "fresh" => cur' = cur + 1
         /\ stage' = "recover" => cur = N
<1> USE AcvpAssumption DEF VectorSets
<1>1. CASE cur < N
  BY <1>1 DEF NextSet, Goto
<1>2. CASE ~(cur < N)
  BY <1>2 DEF NextSet, Goto
<1>3. QED
  BY <1>1, <1>2

-----------------------------------------------------------------------------
(* The steps preserve the invariant: those that change no record.          *)

LEMMA MovesKeep ==
  ASSUME AcvpInv, Moves, UNCHANGED recordVars,
         conn' \in Conns, age' \in 0..2, renewed' \in BOOLEAN
  PROVE  AcvpInv'
<1> USE DEF AcvpInv
<1>1. /\ command' = command /\ auto' = auto /\ cur' = cur /\ outcome' = outcome /\ disp' = disp
      /\ exit' = exit /\ file' = file /\ server' = server /\ posts' = posts /\ mishaps' = mishaps
  BY DEF recordVars
<1>2. stage' \in Stages /\ stage # "idle" /\ stage' # "idle"
  BY DEF Moves, Stages, InSet, Making, Sending, Replaying, Ending
<1>3. AcvpTypes'
  BY <1>1, <1>2 DEF AcvpTypes, Conns
<1>4. StageInv'
  BY <1>1, <1>2 DEF StageInv, Moves, Making, Sending, Replaying, Ending
<1>5. Working => Working' \/ stage' \in Replaying
  BY <1>1 DEF Working, Moves, InSet, Making, Sending, Ending
<1>6. Working' => Working
  BY <1>1 DEF Working, Moves, InSet, Making, Sending, Ending, Replaying
<1>7. FilesInv'
  BY <1>1, <1>6 DEF FilesInv, Moves, Making
<1>8. PromiseInv'
  BY <1>1, <1>6 DEF PromiseInv, Moves, Sending, Kept
<1>9. AcceptedInv'
  BY <1>1 DEF AcceptedInv, AcceptedMeansReceived, Moves, RenewedInv
<1>10. PostsInv'
  BY <1>1, <1>6 DEF PostsInv, Moves, Making, Replaying
<1>11. RenewedInv'
  BY <1>1 DEF RenewedInv, Moves
<1>12. QED
  BY <1>3, <1>4, <1>7, <1>8, <1>9, <1>10, <1>11

\* A vector set that is given up leaves an error, and the next one is begun.
LEMMA GiveUpKeeps ==
  ASSUME AcvpInv, stage \in {"fetch", "store", "compute"},
         NEW d \in Errors \ {"SUBMIT_AUTH", "SUBMIT_HTTP", "SUBMIT_ERROR"}, Record(d), NextSet,
         UNCHANGED <<command, auto, outcome, exit, server, posts>>,
         conn' \in Conns, age' \in 0..2, renewed' \in BOOLEAN,
         file' \in [VectorSets -> [prompt : Contents, response : Contents, status : Words]],
         \A v \in VectorSets : file'[v].response = file[v].response /\ file'[v].status = file[v].status,
         mishaps' \in 0..MaxMishaps, mishaps' = MaxMishaps => mishaps = MaxMishaps
  PROVE  AcvpInv'
<1> USE DEF AcvpInv
<1>1. /\ command' = command /\ auto' = auto /\ outcome' = outcome
      /\ exit' = exit /\ server' = server /\ posts' = posts
  OBVIOUS
<1>2. /\ cur \in VectorSets /\ cur' \in VectorSets /\ stage' \in {"fresh", "recover"}
      /\ stage' = "fresh" => cur' = cur + 1
      /\ stage' = "recover" => cur = N
  BY NextSetIs DEF AcvpTypes
<1>3. \A v \in VectorSets : v \in Int /\ (v > N => FALSE)
  BY AcvpAssumption DEF VectorSets
<1>4. disp' \in [VectorSets -> Errors \cup Words \cup {"none"}]
  BY DEF Record, AcvpTypes
<1>5. disp'[cur] = d /\ \A v \in VectorSets : v # cur => disp'[v] = disp[v]
  BY <1>2 DEF Record, AcvpTypes
<1>6. command = "demo" /\ ~auto /\ Working
  BY DEF StageInv, Making, Working, InSet
<1>7. AcvpTypes'
  BY <1>1, <1>2, <1>4 DEF AcvpTypes, Conns, Stages, InSet, Making
<1>8. StageInv'
  BY <1>1, <1>2, <1>6 DEF StageInv, Making, Sending, Replaying, Ending
<1>9. Working' <=> stage' = "fresh"
  BY <1>1, <1>2, <1>6 DEF Working, InSet, Making, Sending, Ending
<1>10. FilesInv'
  BY <1>1, <1>2, <1>3, <1>6, <1>9 DEF FilesInv, Making
<1>11. Working' => \A v \in VectorSets : v >= cur' => disp'[v] = "none"
  BY <1>2, <1>3, <1>5, <1>6, <1>9 DEF PromiseInv
<1>12. PromiseInv'
  BY <1>1, <1>2, <1>5, <1>6, <1>11 DEF PromiseInv, Sending, Kept
<1>13. \A v \in VectorSets : disp'[v] \in Words => disp'[v] = disp[v]
  BY <1>2, <1>5 DEF Errors, Words, Verdicts
<1>14. AcceptedMeansReceived'
  BY <1>1, <1>13 DEF AcceptedInv, AcceptedMeansReceived, Words, Verdicts
<1>15. AcceptedInv'
  BY <1>2, <1>14 DEF AcceptedInv
<1>16. \A v \in VectorSets : posts[v] \in Nat /\ posts[v] <= 3 /\ (v > cur => posts[v] = 0)
  BY <1>6 DEF PostsInv, AcvpTypes
<1>17. Working' => \A v \in VectorSets : v >= cur' => posts[v] = 0
  BY <1>2, <1>3, <1>9, <1>16
<1>18. PostsInv'
  BY <1>1, <1>2, <1>3, <1>6, <1>16, <1>17 DEF PostsInv, Making, Replaying
<1>19. RenewedInv'
  BY <1>2 DEF RenewedInv
<1>20. QED
  BY <1>7, <1>8, <1>10, <1>12, <1>15, <1>18, <1>19

\* Fetching and computing lead on or to another vector set.
LEMMA FetchKeeps ==
  ASSUME AcvpInv, Fetch
  PROVE  AcvpInv'
<1>1. conn \in Conns /\ age \in 0..2
  BY DEF AcvpInv, AcvpTypes, Conns
<1>2. PICK c \in Calls :
        /\ conn' = c.conn
        /\ IF c.end # "reply"
           THEN Record("FETCH_ERROR") /\ NextSet /\ UNCHANGED <<age, tries>>
           ELSE \E r \in Answers({"ready", "retry", "garbage"}) :
             CASE r = "ready" -> /\ Goto("store") /\ tries' = 0
                                 /\ UNCHANGED <<age, cur, disp>>
               [] r = "retry" -> /\ age' \in age .. 2
                                 /\ IF tries + 1 < MaxFetches
                                    THEN tries' = tries + 1 /\ UNCHANGED <<stage, cur, disp>>
                                    ELSE tries' = 0 /\ Record("RETRY_TIMEOUT") /\ NextSet
               [] OTHER -> /\ Record(IF r = "garbage" THEN "PARSE_ERROR" ELSE "HTTP")
                           /\ tries' = 0 /\ NextSet /\ age' = age
  BY DEF Fetch
<1>3. conn' \in Conns
  BY <1>1, <1>2, CallsAre
<1>4. age' \in 0..2 /\ ( \/ UNCHANGED <<cur, disp>> /\ stage' \in {"fetch", "store"}
                         \/ \E d \in {"FETCH_ERROR", "RETRY_TIMEOUT", "PARSE_ERROR", "HTTP"} :
                              Record(d) /\ NextSet )
  BY <1>1, <1>2 DEF Fetch, Goto
<1>5. /\ stage = "fetch" /\ UNCHANGED <<command, auto, outcome, exit, file, server, posts, mishaps>>
      /\ renewed' \in BOOLEAN
  BY DEF Fetch, AcvpInv, AcvpTypes
<1>6. CASE UNCHANGED <<cur, disp>> /\ stage' \in {"fetch", "store"}
  BY <1>3, <1>4, <1>5, <1>6, MovesKeep DEF Moves, recordVars
<1>7. ASSUME NEW d \in {"FETCH_ERROR", "RETRY_TIMEOUT", "PARSE_ERROR", "HTTP"}, Record(d), NextSet
      PROVE  AcvpInv'
  <2>1. d \in Errors \ {"SUBMIT_AUTH", "SUBMIT_HTTP", "SUBMIT_ERROR"}
    BY DEF Errors
  <2>2. file' \in [VectorSets -> [prompt : Contents, response : Contents, status : Words]]
        /\ mishaps' \in 0..MaxMishaps
    BY <1>5 DEF AcvpInv, AcvpTypes
  <2>3. QED
    BY <1>3, <1>4, <1>5, <1>7, <2>1, <2>2, GiveUpKeeps
<1>8. QED
  BY <1>4, <1>6, <1>7

LEMMA ComputeKeeps ==
  ASSUME AcvpInv, Compute
  PROVE  AcvpInv'
<1>1. /\ conn' \in Conns /\ age' \in 0..2 /\ renewed' \in BOOLEAN /\ stage = "compute"
      /\ UNCHANGED <<command, auto, outcome, exit, file, server, posts, mishaps>>
  <2>1. conn \in Conns /\ conn' \in {conn, "dead"}
    BY DEF Compute, AcvpInv, AcvpTypes, Conns
  <2>2. age \in 0..2 /\ age' \in age..2
    BY DEF Compute, AcvpInv, AcvpTypes
  <2>3. age' \in 0..2
    BY <2>2
  <2>4. conn' \in Conns
    BY <2>1 DEF Conns
  <2>5. QED
    BY <2>3, <2>4 DEF Compute
<1>2. CASE Goto("keep") /\ UNCHANGED <<cur, disp>>
  BY <1>1, <1>2, MovesKeep DEF Moves, recordVars, Goto
<1>3. CASE Record("DISPATCH_ERROR") /\ NextSet
  <2>1. "DISPATCH_ERROR" \in Errors \ {"SUBMIT_AUTH", "SUBMIT_HTTP", "SUBMIT_ERROR"}
    BY DEF Errors
  <2>2. file' \in [VectorSets -> [prompt : Contents, response : Contents, status : Words]]
        /\ mishaps' \in 0..MaxMishaps
    BY <1>1 DEF AcvpInv, AcvpTypes
  <2>3. QED
    BY <1>1, <1>3, <2>1, <2>2, GiveUpKeeps
<1>4. QED
  BY <1>2, <1>3 DEF Compute

LEMMA StoreKeeps ==
  ASSUME AcvpInv, OpenSessionStore
  PROVE  AcvpInv'
<1> DEFINE Changed(w) == [file EXCEPT ![cur].prompt = w]
<1>1. PICK w \in Writes(file[cur].prompt, "full") :
        /\ file' = Changed(w) /\ CountFault(w # "full")
        /\ IF w = "full" THEN Goto("compute") /\ UNCHANGED <<cur, disp>>
                         ELSE Record("PERSIST_ERROR") /\ NextSet
  BY DEF OpenSessionStore
<1>2. cur \in VectorSets /\ file[cur].prompt \in Contents /\ mishaps \in 0..MaxMishaps
  BY DEF AcvpInv, AcvpTypes
<1>3. /\ w \in Contents /\ mishaps' \in 0..MaxMishaps
      /\ mishaps' = MaxMishaps => w = "full" /\ mishaps = MaxMishaps
  BY <1>1, <1>2, WritesAre DEF Contents
<1>4. /\ file' \in [VectorSets -> [prompt : Contents, response : Contents, status : Words]]
      /\ \A v \in VectorSets : file'[v].response = file[v].response /\ file'[v].status = file[v].status
  BY <1>1, <1>2, <1>3 DEF AcvpInv, AcvpTypes
<1>5. /\ stage = "store" /\ conn' \in Conns /\ age' \in 0..2 /\ renewed' \in BOOLEAN
      /\ UNCHANGED <<command, auto, conn, age, outcome, exit, server, posts, renewed>>
  BY DEF OpenSessionStore, AcvpInv, AcvpTypes, Conns
<1>6. CASE w # "full"
  <2>1. "PERSIST_ERROR" \in Errors \ {"SUBMIT_AUTH", "SUBMIT_HTTP", "SUBMIT_ERROR"}
    BY DEF Errors
  <2>2. QED
    BY <1>1, <1>3, <1>4, <1>5, <1>6, <2>1, GiveUpKeeps
<1>7. CASE w = "full"
  <2>1. stage' = "compute" /\ UNCHANGED <<cur, disp>>
    BY <1>1, <1>7 DEF Goto
  <2>2. /\ command' = command /\ auto' = auto /\ outcome' = outcome /\ cur' = cur /\ disp' = disp
        /\ exit' = exit /\ server' = server /\ posts' = posts /\ conn' = conn /\ age' = age
        /\ renewed' = renewed
    BY <1>5, <2>1
  <2>3. Working /\ Working' /\ command = "demo" /\ ~auto
    BY <1>5, <2>1, <2>2 DEF AcvpInv, StageInv, Working, InSet, Making
  <2>4. AcvpTypes'
    BY <1>3, <1>4, <2>1, <2>2 DEF AcvpInv, AcvpTypes, Stages, InSet, Making
  <2>5. StageInv'
    BY <2>1, <2>2, <2>3 DEF StageInv, Making, Replaying, Sending
  <2>6. FilesInv'
    BY <1>4, <1>5, <2>1, <2>2, <2>3 DEF AcvpInv, FilesInv, Making
  <2>7. PromiseInv'
    BY <1>3, <1>4, <1>5, <2>1, <2>2, <2>3 DEF AcvpInv, PromiseInv, Sending, Kept
  <2>8. AcceptedInv'
    BY <1>4, <2>1, <2>2 DEF AcvpInv, AcceptedInv, AcceptedMeansReceived
  <2>9. PostsInv'
    BY <1>5, <2>1, <2>2, <2>3 DEF AcvpInv, PostsInv, Making, Replaying
  <2>10. RenewedInv'
    BY <2>1 DEF RenewedInv
  <2>11. QED
    BY <2>4, <2>5, <2>6, <2>7, <2>8, <2>9, <2>10 DEF AcvpInv
<1>8. QED
  BY <1>6, <1>7

-----------------------------------------------------------------------------
(* The steps that write the files of the vector set in hand.               *)

LEMMA KeepKeeps ==
  ASSUME AcvpInv, KeepResponse
  PROVE  AcvpInv'
<1>1. PICK w \in Writes(file[cur].response, "full") :
        file' = [file EXCEPT ![cur].response = w] /\ CountFault(w # "full") /\ Goto(AfterKeep(w))
  BY DEF KeepResponse
<1>2. cur \in VectorSets /\ file[cur].response \in Contents /\ mishaps \in 0..MaxMishaps
  BY DEF AcvpInv, AcvpTypes
<1>3. /\ w \in Contents /\ mishaps' \in 0..MaxMishaps
      /\ mishaps' = MaxMishaps => w = "full" /\ mishaps = MaxMishaps
  BY <1>1, <1>2, WritesAre DEF Contents
<1>4. /\ file' \in [VectorSets -> [prompt : Contents, response : Contents, status : Words]]
      /\ \A v \in VectorSets : file'[v].status = file[v].status /\ (v # cur => file'[v] = file[v])
      /\ file'[cur].response = w
  BY <1>1, <1>2, <1>3 DEF AcvpInv, AcvpTypes
<1>5. /\ command' = command /\ auto' = auto /\ outcome' = outcome /\ cur' = cur /\ disp' = disp
      /\ exit' = exit /\ server' = server /\ posts' = posts /\ conn' = conn /\ age' = age
      /\ renewed' = renewed /\ stage = "keep"
  BY DEF KeepResponse
<1>6. stage' = (IF w = "full" THEN "pending" ELSE "renew")
  BY <1>1 DEF Goto, AfterKeep
<1>7. Working /\ Working' /\ command = "demo" /\ ~auto
  BY <1>5, <1>6 DEF AcvpInv, StageInv, Working, InSet, Making, Sending
<1>8. file[cur].status = "absent"
  BY <1>2, <1>5, <1>7 DEF AcvpInv, FilesInv, Making
<1>9. AcvpTypes'
  BY <1>3, <1>4, <1>5, <1>6 DEF AcvpInv, AcvpTypes, Stages, InSet, Sending
<1>10. StageInv'
  BY <1>5, <1>6, <1>7 DEF StageInv, Replaying, Sending, Making
<1>11. FilesInv'
  <2>1. \A v \in VectorSets : v > cur => v # cur
    BY <1>2 DEF VectorSets
  <2>2. QED
    BY <1>2, <1>4, <1>5, <1>6, <1>7, <1>8, <2>1 DEF AcvpInv, FilesInv, Making
<1>12. PromiseInv'
  <2>1. disp[cur] = "none"
    BY <1>2, <1>7 DEF AcvpInv, PromiseInv, VectorSets
  <2>2. QED
    BY <1>2, <1>3, <1>4, <1>5, <1>6, <1>7, <2>1 DEF AcvpInv, PromiseInv, Sending, Kept
<1>13. AcceptedInv'
  BY <1>4, <1>5, <1>6 DEF AcvpInv, AcceptedInv, AcceptedMeansReceived
<1>14. PostsInv'
  BY <1>5, <1>6, <1>7 DEF AcvpInv, PostsInv, Making, Replaying
<1>15. RenewedInv'
  BY <1>6 DEF RenewedInv
<1>16. QED
  BY <1>9, <1>10, <1>11, <1>12, <1>13, <1>14, <1>15 DEF AcvpInv

\* Writing a status leaves the answers as they are, and the status old, new or cut.
LEMMA StatusIs ==
  ASSUME AcvpInv, NEW STATE word, word \in Words, NEW to, WriteStatus(word, to)
  PROVE  /\ file' \in [VectorSets -> [prompt : Contents, response : Contents, status : Words]]
         /\ \A v \in VectorSets : file'[v].response = file[v].response /\ (v # cur => file'[v] = file[v])
         /\ file'[cur].status \in {word, file[cur].status, "cut"} /\ mishaps' \in 0..MaxMishaps
         /\ mishaps' = MaxMishaps => file'[cur].status = word /\ mishaps = MaxMishaps
         /\ stage' = to
<1>1. PICK w \in Writes(file[cur].status, word) :
        file' = [file EXCEPT ![cur].status = w] /\ CountFault(w # word)
  BY DEF WriteStatus
<1>2. cur \in VectorSets /\ file[cur].status \in Words /\ mishaps \in 0..MaxMishaps
  BY DEF AcvpInv, AcvpTypes
<1>3. /\ w \in {word, file[cur].status, "cut"} /\ mishaps' \in 0..MaxMishaps
      /\ mishaps' = MaxMishaps => w = word /\ mishaps = MaxMishaps
  BY <1>1, <1>2, WritesAre
<1>4. w \in Words
  BY <1>2, <1>3 DEF Words
<1>5. QED
  BY <1>1, <1>2, <1>3, <1>4 DEF AcvpInv, AcvpTypes, WriteStatus, Goto

LEMMA PendingKeeps ==
  ASSUME AcvpInv, MarkPending
  PROVE  AcvpInv'
<1>1. "PENDING" \in Words /\ WriteStatus("PENDING", "renew")
  BY DEF MarkPending, Words
<1>2. /\ file' \in [VectorSets -> [prompt : Contents, response : Contents, status : Words]]
      /\ \A v \in VectorSets : file'[v].response = file[v].response /\ (v # cur => file'[v] = file[v])
      /\ file'[cur].status \in {"PENDING", file[cur].status, "cut"} /\ mishaps' \in 0..MaxMishaps
      /\ mishaps' = MaxMishaps => file'[cur].status = "PENDING" /\ mishaps = MaxMishaps
      /\ stage' = "renew"
  BY <1>1, StatusIs
<1>3. /\ command' = command /\ auto' = auto /\ outcome' = outcome /\ cur' = cur /\ disp' = disp
      /\ exit' = exit /\ server' = server /\ posts' = posts /\ conn' = conn /\ age' = age
      /\ renewed' = renewed /\ stage = "pending"
  BY DEF MarkPending
<1>4. Working /\ Working' /\ command = "demo" /\ ~auto /\ cur \in VectorSets
  BY <1>2, <1>3 DEF AcvpInv, AcvpTypes, StageInv, Working, InSet, Sending
<1>5. file[cur].response = "full" /\ \A v \in VectorSets : v > cur => v # cur
  BY <1>3, <1>4 DEF AcvpInv, FilesInv, VectorSets
<1>6. AcvpTypes'
  BY <1>2, <1>3 DEF AcvpInv, AcvpTypes, Stages, InSet, Sending
<1>7. StageInv'
  BY <1>2, <1>3, <1>4 DEF StageInv, Replaying, Sending, Making
<1>8. FilesInv'
  BY <1>2, <1>3, <1>4, <1>5 DEF AcvpInv, FilesInv, Making
<1>9. PromiseInv'
  <2>1. disp[cur] = "none"
    BY <1>4 DEF AcvpInv, PromiseInv, VectorSets
  <2>2. QED
    BY <1>2, <1>3, <1>4, <1>5, <2>1 DEF AcvpInv, PromiseInv, Sending, Kept
<1>10. AcceptedInv'
  <2>1. AcceptedMeansReceived'
    <3>1. ASSUME NEW v \in VectorSets, NEW word \in {file'[v].status, disp[v]}
          PROVE  (word = "SUBMITTED" => server[v] # "none") /\ (word \in Verdicts => server[v] = word)
      <4>1. word \in {file[v].status, disp[v]} \/ word \in {"PENDING", "cut"}
        BY <1>2, <3>1
      <4>2. QED
        BY <4>1 DEF AcvpInv, AcceptedInv, AcceptedMeansReceived, Verdicts
    <3>2. QED
      BY <1>3, <3>1 DEF AcceptedMeansReceived
  <2>2. QED
    BY <1>2, <2>1 DEF AcceptedInv
<1>11. PostsInv'
  BY <1>2, <1>3, <1>4 DEF AcvpInv, PostsInv, Making, Replaying
<1>12. RenewedInv'
  BY <1>2 DEF RenewedInv
<1>13. QED
  BY <1>6, <1>7, <1>8, <1>9, <1>10, <1>11, <1>12 DEF AcvpInv

\* So do the words on a submit that was accepted and on its verdict: both are true.
LEMMA WordKeeps ==
  ASSUME AcvpInv, MarkSubmitted \/ RecordVerdict
  PROVE  AcvpInv'
<1> DEFINE word == IF stage = "mark" THEN "SUBMITTED" ELSE outcome
           to == IF stage = "mark" THEN "judge" ELSE "conclude"
<1>1. /\ command' = command /\ auto' = auto /\ outcome' = outcome /\ cur' = cur /\ disp' = disp
      /\ exit' = exit /\ server' = server /\ posts' = posts /\ conn' = conn /\ age' = age
      /\ renewed' = renewed /\ stage \in {"mark", "verdict"} /\ WriteStatus(word, to)
  BY DEF MarkSubmitted, RecordVerdict
<1>2. /\ word \in {"SUBMITTED", "POLL_TIMEOUT"} \cup Verdicts /\ word \in Words
      /\ server[cur] # "none" /\ (word \in Verdicts => server[cur] = word)
      /\ stage = "mark" => outcome = "ok"
      /\ stage = "verdict" => outcome \in Verdicts \cup {"POLL_TIMEOUT"}
  BY <1>1 DEF AcvpInv, AcceptedInv, Words, Verdicts
<1>3. /\ file' \in [VectorSets -> [prompt : Contents, response : Contents, status : Words]]
      /\ \A v \in VectorSets : file'[v].response = file[v].response /\ (v # cur => file'[v] = file[v])
      /\ file'[cur].status \in {word, file[cur].status, "cut"} /\ mishaps' \in 0..MaxMishaps
      /\ mishaps' = MaxMishaps => file'[cur].status = word /\ mishaps = MaxMishaps
  <2> HIDE DEF word
  <2>1. CASE stage = "mark"
    BY <1>1, <1>2, <2>1, StatusIs
  <2>2. CASE stage = "verdict"
    BY <1>1, <1>2, <2>2, StatusIs
  <2>3. QED
    BY <1>1, <2>1, <2>2
<1>4. (stage = "mark" /\ stage' = "judge") \/ (stage = "verdict" /\ stage' = "conclude")
  BY <1>1 DEF WriteStatus, Goto
<1>5. (Working <=> Working') /\ cur \in VectorSets /\ \A v \in VectorSets : v > cur => v # cur
  BY <1>1, <1>4 DEF AcvpInv, AcvpTypes, Working, InSet, Ending, VectorSets
<1>6. word # "PENDING" /\ word # "none"
  BY <1>2 DEF Verdicts
<1>7. AcvpTypes'
  BY <1>1, <1>3, <1>4 DEF AcvpInv, AcvpTypes, Stages, InSet, Ending
<1>8. StageInv'
  BY <1>1, <1>4 DEF AcvpInv, StageInv, Replaying, Sending, Making, Ending
<1>9. FilesInv'
  <2> HIDE DEF word
  <2>1. QED
    BY <1>1, <1>3, <1>4, <1>5, <1>6 DEF AcvpInv, FilesInv, Making
<1>10. PromiseInv'
  <2>1. CASE Working
    <3>1. disp[cur] = "none"
      BY <1>5, <2>1 DEF AcvpInv, PromiseInv, VectorSets
    <3> HIDE DEF word
    <3>2. QED
      BY <1>1, <1>2, <1>3, <1>4, <1>5, <2>1, <3>1 DEF AcvpInv, PromiseInv, Sending, Kept, Working
  <2>2. CASE ~Working /\ command = "demo"
    <3>1. auto /\ disp[cur] = "SUBMIT_ERROR"
      BY <1>1, <2>2 DEF AcvpInv, PromiseInv, Working, InSet, Ending
    <3>2. stage = "mark" => word = "SUBMITTED"
      OBVIOUS
    <3> HIDE DEF word
    <3>3. QED
      BY <1>1, <1>2, <1>3, <1>4, <1>5, <2>2, <3>1, <3>2 DEF AcvpInv, PromiseInv, Sending, Kept
  <2>3. CASE command # "demo"
    BY <1>1, <1>5, <2>3 DEF AcvpInv, PromiseInv, Working, StageInv
  <2>4. QED
    BY <2>1, <2>2, <2>3
<1>11. AcceptedInv'
  <2> HIDE DEF word
  <2>1. AcceptedMeansReceived'
    <3>1. ASSUME NEW v \in VectorSets, NEW w \in {file'[v].status, disp[v]}
          PROVE  (w = "SUBMITTED" => server[v] # "none") /\ (w \in Verdicts => server[v] = w)
      <4>1. w \in {file[v].status, disp[v]} \/ w = "cut" \/ (v = cur /\ w = word)
        BY <1>3, <3>1
      <4>2. QED
        BY <1>2, <4>1 DEF AcvpInv, AcceptedInv, AcceptedMeansReceived, Verdicts
    <3>2. QED
      BY <1>1, <3>1 DEF AcceptedMeansReceived
  <2>2. QED
    BY <1>1, <1>2, <1>4, <2>1 DEF AcvpInv, AcceptedInv
<1>12. PostsInv'
  BY <1>1, <1>4, <1>5 DEF AcvpInv, PostsInv, Making, Replaying
<1>13. RenewedInv'
  BY <1>1, <1>2, <1>4 DEF RenewedInv
<1>14. QED
  BY <1>7, <1>8, <1>9, <1>10, <1>11, <1>12, <1>13 DEF AcvpInv

-----------------------------------------------------------------------------
(* Submits.                                                                *)

\* What a submit comes to: the server has the answers that it said it took, and the
\* process goes on as the outcome and the attempt say.
LEMMA SubmitIs ==
  ASSUME AcvpInv, Submit
  PROVE  /\ stage \in Attempts /\ conn' \in Conns
         /\ outcome' \in {"ok", "auth", "http", "dead", "other"}
         /\ server' \in [VectorSets -> {"none", "received"} \cup Verdicts]
         /\ \A v \in VectorSets : server[v] # "none" => server'[v] = server[v]
         /\ outcome' = "ok" => server'[cur] # "none"
         /\ \/ outcome' = "ok" /\ stage' = "mark"
            \/ stage = "submit" /\ outcome' = "dead" /\ stage' = "reopen"
            \/ stage \in {"submit", "again"} /\ outcome' = "auth" /\ stage' = "authorize"
            \/ /\ outcome' # "ok" /\ stage' = "judge"
               /\ outcome' = "auth" => stage \in {"last", "replay"}
<1>1. PICK c \in Calls :
        /\ conn' = c.conn
        /\ IF c.end # "reply"
           THEN /\ outcome' = Unanswered(c.end)
                /\ (Whole /\ age < 2 /\ Takes) \/ server' = server
           ELSE \E r \in SubmitAnswers :
                  /\ outcome' = r
                  /\ (r \in {"ok", "http"} /\ Whole /\ Takes) \/ (r # "ok" /\ server' = server)
        /\ Goto(AfterAttempt(outcome'))
  BY DEF Submit
<1>2. c.conn \in Conns /\ c.end \in {"reply", "dead", "other"}
  BY <1>1, CallsAre DEF AcvpInv, AcvpTypes, Conns
<1>3. \A r \in SubmitAnswers : r \in {"ok", "auth", "http"}
  BY DEF SubmitAnswers, Answers
<1>4. outcome' \in {"ok", "auth", "http", "dead", "other"}
  BY <1>1, <1>2, <1>3 DEF Unanswered
<1>5. (Takes \/ server' = server) /\ (outcome' = "ok" => Takes)
  BY <1>1, <1>2 DEF Unanswered
<1>6. cur \in VectorSets /\ server \in [VectorSets -> {"none", "received"} \cup Verdicts]
  BY DEF AcvpInv, AcvpTypes
<1>7. /\ server' \in [VectorSets -> {"none", "received"} \cup Verdicts]
      /\ \A v \in VectorSets : server[v] # "none" => server'[v] = server[v]
      /\ outcome' = "ok" => server'[cur] # "none"
  <2>1. CASE Takes
    BY <1>6, <2>1 DEF Takes
  <2>2. CASE ~Takes
    BY <1>5, <1>6, <2>2
  <2>3. QED
    BY <2>1, <2>2
<1>8. stage \in Attempts /\ stage' = AfterAttempt(outcome')
  BY <1>1 DEF Submit, Goto
<1>9. \/ outcome' = "ok" /\ stage' = "mark"
      \/ stage = "submit" /\ outcome' = "dead" /\ stage' = "reopen"
      \/ stage \in {"submit", "again"} /\ outcome' = "auth" /\ stage' = "authorize"
      \/ /\ outcome' # "ok" /\ stage' = "judge"
         /\ outcome' = "auth" => stage \in {"last", "replay"}
  BY <1>8 DEF AfterAttempt, Attempts
<1>10. QED
  BY <1>1, <1>2, <1>4, <1>7, <1>8, <1>9

LEMMA SubmitKeeps ==
  ASSUME AcvpInv, Submit
  PROVE  AcvpInv'
<1>1. /\ stage \in Attempts /\ conn' \in Conns
      /\ outcome' \in {"ok", "auth", "http", "dead", "other"}
      /\ server' \in [VectorSets -> {"none", "received"} \cup Verdicts]
      /\ \A v \in VectorSets : server[v] # "none" => server'[v] = server[v]
      /\ outcome' = "ok" => server'[cur] # "none"
  BY SubmitIs
<1>2. \/ outcome' = "ok" /\ stage' = "mark"
      \/ stage = "submit" /\ outcome' = "dead" /\ stage' = "reopen"
      \/ stage \in {"submit", "again"} /\ outcome' = "auth" /\ stage' = "authorize"
      \/ /\ outcome' # "ok" /\ stage' = "judge"
         /\ outcome' = "auth" => stage \in {"last", "replay"}
  BY SubmitIs
<1>3. /\ command' = command /\ auto' = auto /\ cur' = cur /\ disp' = disp /\ exit' = exit
      /\ file' = file /\ age' = age /\ renewed' = renewed /\ mishaps' = mishaps
      /\ posts' = [posts EXCEPT ![cur] = @ + 1]
  BY DEF Submit
<1>4. /\ stage' \in {"mark", "reopen", "authorize", "judge"}
      /\ cur \in VectorSets /\ posts \in [VectorSets -> Nat] /\ stage \in Stages
  BY <1>2 DEF AcvpInv, AcvpTypes
<1>5. /\ posts' \in [VectorSets -> Nat] /\ posts'[cur] = posts[cur] + 1
      /\ \A v \in VectorSets : v # cur => posts'[v] = posts[v]
  BY <1>3, <1>4
<1>6. /\ Working <=> stage # "replay"
      /\ Working' <=> stage # "replay"
      /\ stage # "replay" => command = "demo" /\ ~auto
      /\ stage = "replay" => auto \/ command = "resubmit"
  BY <1>1, <1>2, <1>3 DEF AcvpInv, StageInv, Working, InSet, Sending, Ending, Making, Replaying,
     Attempts
<1>7. AcvpTypes'
  <2>1. outcome' \in AcvpOutcomes /\ stage' \in Stages
    BY <1>1, <1>4 DEF AcvpOutcomes, Stages, InSet, Sending, Ending
  <2>2. QED
    BY <1>1, <1>3, <1>5, <2>1 DEF AcvpInv, AcvpTypes, Conns
<1>8. StageInv'
  BY <1>1, <1>2, <1>3, <1>6 DEF AcvpInv, StageInv, Attempts, Making, Sending, Replaying, Ending
<1>9. FilesInv'
  BY <1>1, <1>3, <1>4, <1>6 DEF AcvpInv, FilesInv, Making
<1>10. PromiseInv'
  <2>1. stage # "replay" => stage \in Sending
    BY <1>1 DEF Attempts, Sending
  <2>2. QED
    BY <1>2, <1>3, <1>4, <1>6, <2>1 DEF AcvpInv, PromiseInv, Kept
<1>11. AcceptedInv'
  <2>1. AcceptedMeansReceived'
    <3>1. ASSUME NEW v \in VectorSets, NEW w \in {file[v].status, disp[v]}
          PROVE  (w = "SUBMITTED" => server'[v] # "none") /\ (w \in Verdicts => server'[v] = w)
      BY <1>1, <3>1 DEF AcvpInv, AcceptedInv, AcceptedMeansReceived, Verdicts
    <3>2. QED
      BY <1>3, <3>1 DEF AcceptedMeansReceived
  <2>2. QED
    BY <1>1, <1>2, <1>3, <2>1 DEF AcceptedInv
<1>12. PostsInv'
  <2>1. CASE stage # "replay"
    <3>1. posts[cur] <= (IF stage = "submit" THEN 0 ELSE IF stage = "again" THEN 1 ELSE 2)
      BY <1>1, <1>4, <1>6, <2>1 DEF AcvpInv, PostsInv, Attempts
    <3>2. \A v \in VectorSets : v > cur => v # cur
      BY <1>4 DEF VectorSets
    <3>3. \A v \in VectorSets : posts'[v] <= 3 /\ (v > cur => posts'[v] = 0)
      BY <1>4, <1>5, <1>6, <2>1, <3>1, <3>2 DEF AcvpInv, PostsInv
    <3>4. stage' \in {"reopen", "authorize"} => posts'[cur] <= (IF stage' = "reopen" THEN 1 ELSE 2)
      BY <1>2, <1>4, <1>5, <3>1
    <3>5. \A v \in VectorSets : posts'[v] <= IF disp[v] = "none" THEN 3 ELSE 4
      BY <1>5, <3>3
    <3>6. QED
      BY <1>3, <1>4, <1>6, <2>1, <3>3, <3>4, <3>5 DEF PostsInv, Making, Replaying
  <2>2. CASE stage = "replay"
    <3>1. posts[cur] <= 3 /\ (command = "resubmit" => posts[cur] = 0) /\ (auto => disp[cur] # "none")
      BY <1>6, <2>2 DEF AcvpInv, PostsInv, PromiseInv, Replaying
    <3>2. \A v \in VectorSets : v > cur => v # cur
      BY <1>4 DEF VectorSets
    <3>3. \A v \in VectorSets : posts'[v] <= IF disp[v] = "none" THEN 3 ELSE 4
      <4>1. ASSUME NEW v \in VectorSets PROVE posts'[v] <= IF disp[v] = "none" THEN 3 ELSE 4
        <5>1. CASE v = cur
          BY <1>4, <1>5, <1>6, <2>2, <3>1, <5>1
        <5>2. CASE v # cur
          BY <1>4, <1>5, <5>2 DEF AcvpInv, PostsInv
        <5>3. QED
          BY <5>1, <5>2
      <4>2. QED
        BY <4>1
    <3>4. QED
      BY <1>3, <1>4, <1>5, <1>6, <2>2, <3>2, <3>3 DEF AcvpInv, PostsInv, Replaying
  <2>3. QED
    BY <2>1, <2>2
<1>13. RenewedInv'
  BY <1>2, <1>3 DEF AcvpInv, RenewedInv
<1>14. QED
  BY <1>7, <1>8, <1>9, <1>10, <1>11, <1>12, <1>13 DEF AcvpInv

-----------------------------------------------------------------------------
(* The end of a vector set or of a resubmit.                               *)

\* What Conclude is told: an error where something failed, or the word of the grader.
Told(d) ==
  \/ stage = "judge" /\ outcome # "ok" /\ d = ErrorOf(outcome)
  \/ stage = "poll" /\ d = "POLL_ERROR"
  \/ stage \in {"load", "login"} /\ d = "SUBMIT_ERROR"
  \/ stage = "conclude" /\ d = outcome

LEMMA ConcludeKeeps ==
  ASSUME AcvpInv, NEW STATE d, Told(d), Conclude(d),
         UNCHANGED <<outcome, file, server, posts, mishaps>>,
         conn' \in Conns, age' \in 0..2, renewed' \in BOOLEAN
  PROVE  AcvpInv'
<1>1. /\ outcome' = outcome /\ file' = file /\ server' = server /\ posts' = posts
      /\ mishaps' = mishaps
  OBVIOUS
<1>2. /\ cur \in VectorSets /\ disp \in [VectorSets -> Errors \cup Words \cup {"none"}]
      /\ file[cur].status \in Words /\ stage \in {"judge", "poll", "conclude", "load", "login"}
      /\ posts \in [VectorSets -> Nat] /\ auto \in BOOLEAN
      /\ command \in {"demo", "resubmit"} /\ stage # "idle"
  BY DEF AcvpInv, AcvpTypes, StageInv, Told
<1>3. (d \in Errors /\ stage # "conclude") \/ (d \in Verdicts \cup {"POLL_TIMEOUT"} /\ stage = "conclude")
  BY DEF Told, ErrorOf, Errors, AcvpInv, AcceptedInv
<1>4. IsError(d) <=> stage # "conclude"
  BY <1>3 DEF IsError, Errors, Verdicts
<1>5. d # "none" /\ d \in Errors \cup Words
  BY <1>3 DEF Words, Verdicts, Errors
<1>6. \A v \in VectorSets : v \in Int /\ v <= N
  BY AcvpAssumption DEF VectorSets
<1>7. CASE auto
  <2> DEFINE e == Replaced(d)
  <2>1. Record(e) /\ auto' = FALSE /\ stage' = "recovered" /\ UNCHANGED <<cur, command, exit>>
    BY <1>7 DEF Conclude, Goto
  <2>2. cur' = cur /\ command' = command /\ exit' = exit /\ command = "demo" /\ disp[cur] = "SUBMIT_ERROR"
    BY <1>7, <2>1 DEF AcvpInv, StageInv, PromiseInv
  <2>3. \/ stage # "conclude" /\ e = "SUBMIT_ERROR"
        \/ stage = "conclude" /\ e \in {"SUBMITTED", file[cur].status} \ {"absent"}
    BY <1>2, <1>4, <2>2 DEF Replaced
  <2>4. e \in Errors \cup Words /\ e # "none" /\ e \notin {"SUBMIT_AUTH", "SUBMIT_HTTP"}
        /\ (stage = "conclude" => e # "SUBMIT_ERROR")
    BY <1>2, <2>3 DEF Errors, Words, Verdicts
  <2> HIDE DEF e
  <2>5. /\ disp' \in [VectorSets -> Errors \cup Words \cup {"none"}] /\ disp'[cur] = e
        /\ \A v \in VectorSets : v # cur => disp'[v] = disp[v]
    BY <1>2, <2>1, <2>4 DEF Record
  <2>6. ~Working /\ ~Working'
    BY <1>7, <2>1 DEF Working, InSet, Making, Sending, Ending
  <2>7. AcvpTypes'
    BY <1>1, <2>1, <2>2, <2>5 DEF AcvpInv, AcvpTypes, Conns, Stages
  <2>8. StageInv'
    BY <2>1, <2>2 DEF StageInv, Making, Sending, Replaying, Ending
  <2>9. FilesInv'
    BY <1>1, <2>1, <2>6 DEF AcvpInv, FilesInv
  <2>10. PromiseInv'
    BY <1>1, <1>2, <2>1, <2>2, <2>3, <2>4, <2>5, <2>6 DEF AcvpInv, PromiseInv, Kept
  <2>11. AcceptedInv'
    <3>1. stage = "conclude" => server[cur] # "none"
      BY DEF AcvpInv, AcceptedInv
    <3>2. ASSUME NEW v \in VectorSets, NEW w \in {file[v].status, disp'[v]}
          PROVE  (w = "SUBMITTED" => server[v] # "none") /\ (w \in Verdicts => server[v] = w)
      <4>1. w \in {file[v].status, disp[v]} \/ (v = cur /\ stage = "conclude" /\ w = "SUBMITTED")
        BY <1>2, <2>2, <2>3, <2>5, <3>2
      <4>2. QED
        BY <3>1, <4>1 DEF AcvpInv, AcceptedInv, AcceptedMeansReceived, Verdicts
    <3>3. QED
      BY <1>1, <2>1, <3>2 DEF AcceptedInv, AcceptedMeansReceived
  <2>12. PostsInv'
    <3>1. \A v \in VectorSets : posts[v] <= IF disp'[v] = "none" THEN 3 ELSE 4
      BY <1>2, <2>2, <2>4, <2>5 DEF AcvpInv, PostsInv
    <3>2. QED
      BY <1>1, <1>7, <2>1, <2>2, <2>6, <3>1 DEF AcvpInv, PostsInv, Replaying
  <2>13. RenewedInv'
    BY <2>1 DEF RenewedInv
  <2>14. QED
    BY <2>7, <2>8, <2>9, <2>10, <2>11, <2>12, <2>13 DEF AcvpInv
<1>8. CASE command = "demo" /\ ~auto
  <2>1. Record(d) /\ NextSet /\ auto' = auto /\ command' = command /\ exit' = exit
    BY <1>8 DEF Conclude
  <2>2. /\ cur' \in VectorSets /\ stage' \in {"fresh", "recover"}
        /\ stage' = "fresh" => cur' = cur + 1
        /\ stage' = "recover" => cur = N
    BY <1>2, <2>1, NextSetIs
  <2>3. stage \in {"judge", "poll", "conclude"} /\ Working
    BY <1>2, <1>8 DEF AcvpInv, StageInv, Working, InSet, Ending, Replaying
  <2>4. /\ disp' \in [VectorSets -> Errors \cup Words \cup {"none"}] /\ disp'[cur] = d
        /\ \A v \in VectorSets : v # cur => disp'[v] = disp[v]
    BY <1>2, <1>5, <2>1 DEF Record
  <2>5. Working' <=> stage' = "fresh"
    BY <1>8, <2>1, <2>2 DEF Working, InSet, Making, Sending, Ending
  <2>6. AcvpTypes'
    BY <1>1, <2>1, <2>2, <2>4 DEF AcvpInv, AcvpTypes, Conns, Stages, InSet, Making
  <2>7. StageInv'
    BY <1>8, <2>1, <2>2 DEF StageInv, Making, Sending, Replaying, Ending
  <2>8. FilesInv'
    BY <1>1, <1>2, <1>6, <2>2, <2>3, <2>5 DEF AcvpInv, FilesInv, Making
  <2>9. PromiseInv'
    <3>1. Working' => \A v \in VectorSets : v >= cur' => disp'[v] = "none"
      BY <1>2, <1>6, <2>2, <2>3, <2>4, <2>5 DEF AcvpInv, PromiseInv
    <3>2. d \in {"SUBMIT_AUTH", "SUBMIT_HTTP", "SUBMIT_ERROR"} => stage = "judge" /\ outcome # "ok"
      BY <2>3 DEF Told, ErrorOf, AcvpInv, AcceptedInv, Verdicts
    <3>3. mishaps = MaxMishaps /\ d \in {"SUBMIT_AUTH", "SUBMIT_HTTP", "SUBMIT_ERROR"} => Kept(cur)
      BY <1>8, <2>3, <3>2 DEF AcvpInv, PromiseInv
    <3>4. QED
      BY <1>1, <1>2, <1>8, <2>1, <2>2, <2>3, <2>4, <3>1, <3>3 DEF AcvpInv, PromiseInv, Kept, Sending
  <2>10. AcceptedInv'
    <3>1. d \in Words => stage = "conclude" /\ d = outcome
      BY <1>3 DEF Told, Errors, Words, Verdicts
    <3>2. ASSUME NEW v \in VectorSets, NEW w \in {file[v].status, disp'[v]}
          PROVE  (w = "SUBMITTED" => server[v] # "none") /\ (w \in Verdicts => server[v] = w)
      <4>1. w \in {file[v].status, disp[v]} \/ (v = cur /\ w = d)
        BY <2>4, <3>2
      <4>2. "SUBMITTED" \in Words /\ Verdicts \subseteq Words
        BY DEF Words
      <4>3. QED
        BY <3>1, <4>1, <4>2 DEF AcvpInv, AcceptedInv, AcceptedMeansReceived, Verdicts
    <3>3. QED
      BY <1>1, <2>2, <3>2 DEF AcceptedInv, AcceptedMeansReceived
  <2>11. PostsInv'
    <3>1. \A v \in VectorSets : posts[v] \in Nat /\ posts[v] <= 3 /\ (v > cur => posts[v] = 0)
      BY <1>2, <2>3 DEF AcvpInv, PostsInv
    <3>2. Working' => \A v \in VectorSets : v >= cur' => posts[v] = 0
      BY <1>2, <1>6, <2>2, <2>5, <3>1
    <3>3. QED
      BY <1>1, <1>8, <2>1, <2>2, <2>5, <3>1, <3>2, <1>6 DEF PostsInv, Making, Replaying
  <2>12. RenewedInv'
    BY <2>2 DEF RenewedInv
  <2>13. QED
    BY <2>6, <2>7, <2>8, <2>9, <2>10, <2>11, <2>12 DEF AcvpInv
<1>9. CASE command = "resubmit" /\ ~auto
  <2>1. /\ command' = "none" /\ stage' = "idle" /\ Record(d) /\ auto' = auto /\ cur' = cur
        /\ exit' \in {"error", "ok"}
    BY <1>9 DEF Conclude, Goto
  <2>2. /\ disp' \in [VectorSets -> Errors \cup Words \cup {"none"}] /\ disp'[cur] = d
        /\ \A v \in VectorSets : v # cur => disp'[v] = disp[v]
    BY <1>2, <1>5, <2>1 DEF Record
  <2>3. ~Working /\ ~Working'
    BY <1>9, <2>1 DEF Working
  <2>4. AcvpTypes'
    BY <1>1, <2>1, <2>2 DEF AcvpInv, AcvpTypes, Conns, Stages
  <2>5. StageInv'
    BY <1>9, <2>1 DEF StageInv, Making, Sending, Replaying, Ending
  <2>6. FilesInv'
    BY <1>1, <2>1, <2>3 DEF AcvpInv, FilesInv
  <2>7. PromiseInv'
    BY <1>9, <2>1, <2>3 DEF PromiseInv
  <2>8. AcceptedInv'
    <3>1. d \in Words => stage = "conclude" /\ d = outcome
      BY <1>3 DEF Told, Errors, Words, Verdicts
    <3>2. ASSUME NEW v \in VectorSets, NEW w \in {file[v].status, disp'[v]}
          PROVE  (w = "SUBMITTED" => server[v] # "none") /\ (w \in Verdicts => server[v] = w)
      <4>1. w \in {file[v].status, disp[v]} \/ (v = cur /\ w = d)
        BY <2>2, <3>2
      <4>2. "SUBMITTED" \in Words /\ Verdicts \subseteq Words
        BY DEF Words
      <4>3. QED
        BY <3>1, <4>1, <4>2 DEF AcvpInv, AcceptedInv, AcceptedMeansReceived, Verdicts
    <3>3. QED
      BY <1>1, <2>1, <3>2 DEF AcceptedInv, AcceptedMeansReceived
  <2>9. PostsInv'
    <3>1. \A v \in VectorSets : posts[v] <= IF disp'[v] = "none" THEN 3 ELSE 4
      <4>1. \A v \in VectorSets : posts[v] \in Nat /\ posts[v] <= IF disp[v] = "none" THEN 3 ELSE 4
        BY <1>2 DEF AcvpInv, PostsInv
      <4>2. QED
        BY <1>5, <2>2, <4>1
    <3>2. QED
      BY <1>1, <1>9, <2>1, <2>3, <3>1 DEF PostsInv
  <2>10. RenewedInv'
    BY <2>1 DEF RenewedInv
  <2>11. QED
    BY <2>4, <2>5, <2>6, <2>7, <2>8, <2>9, <2>10 DEF AcvpInv
<1>10. QED
  BY <1>2, <1>7, <1>8, <1>9

LEMMA JudgeKeeps ==
  ASSUME AcvpInv, Judge
  PROVE  AcvpInv'
<1>1. /\ stage = "judge" /\ conn' \in Conns /\ age' \in 0..2 /\ renewed' \in BOOLEAN
      /\ UNCHANGED <<outcome, file, server, posts, mishaps>>
  BY DEF Judge, AcvpInv, AcvpTypes, Conns
<1>2. CASE outcome = "ok"
  <2>1. stage' = "poll" /\ UNCHANGED recordVars
    BY <1>2 DEF Judge, Goto, recordVars
  <2>2. QED
    BY <1>1, <1>2, <2>1, MovesKeep DEF Moves
<1>3. CASE outcome # "ok"
  <2>1. Conclude(ErrorOf(outcome))
    BY <1>3 DEF Judge
  <2>2. Told(ErrorOf(outcome))
    BY <1>1, <1>3 DEF Told
  <2>3. QED
    BY <1>1, <2>1, <2>2, ConcludeKeeps
<1>4. QED
  BY <1>2, <1>3

LEMMA EndKeeps ==
  ASSUME AcvpInv, EndOfSet
  PROVE  AcvpInv'
<1>1. /\ stage = "conclude" /\ conn' \in Conns /\ age' \in 0..2 /\ renewed' \in BOOLEAN
      /\ UNCHANGED <<outcome, file, server, posts, mishaps>>
  BY DEF EndOfSet, AcvpInv, AcvpTypes, Conns
<1>2. Conclude(outcome) /\ Told(outcome)
  BY <1>1 DEF EndOfSet, Told
<1>3. QED
  BY <1>1, <1>2, ConcludeKeeps

\* The answer of the last poll is the verdict the server has, or the word that there is none.
LEMMA PollKeeps ==
  ASSUME AcvpInv, Poll
  PROVE  AcvpInv'
<1>1. PICK c \in Calls :
        /\ conn' = c.conn
        /\ IF c.end # "reply"
           THEN Conclude("POLL_ERROR") /\ UNCHANGED <<outcome, tries>>
           ELSE \E r \in IF age' = 2 THEN {"auth"}
                         ELSE {"http", "garbage"} \cup ({server[cur]} \ {"none"}) :
             \/ r = "garbage" /\ Conclude("POLL_ERROR") /\ UNCHANGED <<outcome, tries>>
             \/ /\ r \in Verdicts
                /\ outcome' = r /\ Goto("verdict") /\ tries' = 0
                /\ UNCHANGED <<auto, command, cur, disp, exit>>
             \/ /\ r \in {"auth", "http", "received"}
                /\ UNCHANGED <<auto, command, cur, disp, exit>>
                /\ IF LastPoll
                   THEN outcome' = "POLL_TIMEOUT" /\ tries' = 0 /\ Goto("verdict")
                   ELSE tries' = tries + 1 /\ UNCHANGED <<stage, outcome>>
  BY DEF Poll
<1>2. conn \in Conns /\ age \in 0..2 /\ age' \in age..2
  BY DEF Poll, AcvpInv, AcvpTypes, Conns
<1>3. conn' \in Conns
  BY <1>1, <1>2, CallsAre
<1>4. age' \in 0..2
  BY <1>2
<1>5. /\ stage = "poll" /\ renewed' \in BOOLEAN
      /\ file' = file /\ server' = server /\ posts' = posts /\ mishaps' = mishaps /\ renewed' = renewed
  BY DEF Poll, AcvpInv, AcvpTypes
<1>6. \/ Conclude("POLL_ERROR") /\ outcome' = outcome
      \/ /\ outcome' \in Verdicts \cup {"POLL_TIMEOUT"} /\ stage' = "verdict"
         /\ outcome' \in Verdicts => outcome' = server[cur]
         /\ UNCHANGED <<auto, command, cur, disp, exit>>
      \/ UNCHANGED <<auto, command, cur, disp, exit, stage, outcome>>
  <2>1. CASE c.end # "reply"
    BY <1>1, <2>1
  <2>2. CASE c.end = "reply"
    <3>1. PICK r \in IF age' = 2 THEN {"auth"} ELSE {"http", "garbage"} \cup ({server[cur]} \ {"none"}) :
             \/ r = "garbage" /\ Conclude("POLL_ERROR") /\ UNCHANGED <<outcome, tries>>
             \/ /\ r \in Verdicts
                /\ outcome' = r /\ Goto("verdict") /\ tries' = 0
                /\ UNCHANGED <<auto, command, cur, disp, exit>>
             \/ /\ r \in {"auth", "http", "received"}
                /\ UNCHANGED <<auto, command, cur, disp, exit>>
                /\ IF LastPoll
                   THEN outcome' = "POLL_TIMEOUT" /\ tries' = 0 /\ Goto("verdict")
                   ELSE tries' = tries + 1 /\ UNCHANGED <<stage, outcome>>
      BY <1>1, <2>2
    <3>2. CASE r \in Verdicts /\ outcome' = r /\ Goto("verdict") /\ UNCHANGED <<auto, command,
                                                                                cur, disp, exit>>
      <4>1. r = server[cur]
        BY <3>1, <3>2 DEF Verdicts
      <4>2. QED
        BY <3>2, <4>1 DEF Goto
    <3>3. CASE /\ UNCHANGED <<auto, command, cur, disp, exit>>
               /\ (outcome' = "POLL_TIMEOUT" /\ Goto("verdict")) \/ UNCHANGED <<stage, outcome>>
      BY <3>3 DEF Goto, Verdicts
    <3>4. QED
      BY <3>1, <3>2, <3>3
  <2>3. QED
    BY <2>1, <2>2
<1>7. CASE Conclude("POLL_ERROR") /\ outcome' = outcome
  <2>1. Told("POLL_ERROR")
    BY <1>5 DEF Told
  <2>2. QED
    BY <1>3, <1>4, <1>5, <1>7, <2>1, ConcludeKeeps
<1>8. CASE UNCHANGED <<auto, command, cur, disp, exit, stage, outcome>>
  BY <1>3, <1>4, <1>5, <1>8, MovesKeep DEF Moves, recordVars
<1>9. CASE /\ outcome' \in Verdicts \cup {"POLL_TIMEOUT"} /\ stage' = "verdict"
           /\ outcome' \in Verdicts => outcome' = server[cur]
           /\ UNCHANGED <<auto, command, cur, disp, exit>>
  <2>1. auto' = auto /\ command' = command /\ cur' = cur /\ disp' = disp /\ exit' = exit
    BY <1>9
  <2>2. Working' <=> Working
    BY <1>5, <1>9, <2>1 DEF Working, InSet, Ending
  <2>3. AcvpTypes'
    BY <1>3, <1>4, <1>5, <1>9, <2>1 DEF AcvpInv, AcvpTypes, Conns, AcvpOutcomes, Stages, InSet,
       Ending
  <2>4. StageInv'
    BY <1>5, <1>9, <2>1 DEF AcvpInv, StageInv, Making, Sending, Replaying, Ending
  <2>5. FilesInv'
    BY <1>5, <1>9, <2>1, <2>2 DEF AcvpInv, FilesInv, Making
  <2>6. PromiseInv'
    BY <1>5, <1>9, <2>1, <2>2 DEF AcvpInv, PromiseInv, Sending, Kept
  <2>7. AcceptedInv'
    BY <1>5, <1>9, <2>1 DEF AcvpInv, AcceptedInv, AcceptedMeansReceived
  <2>8. PostsInv'
    BY <1>5, <1>9, <2>1, <2>2 DEF AcvpInv, PostsInv, Making, Replaying
  <2>9. RenewedInv'
    BY <1>9 DEF RenewedInv
  <2>10. QED
    BY <2>3, <2>4, <2>5, <2>6, <2>7, <2>8, <2>9 DEF AcvpInv
<1>10. QED
  BY <1>6, <1>7, <1>8, <1>9

LEMMA LoadKeeps ==
  ASSUME AcvpInv, LoadResponse
  PROVE  AcvpInv'
<1>1. /\ stage = "load" /\ age' \in 0..2 /\ renewed' \in BOOLEAN
      /\ UNCHANGED <<outcome, file, server, posts, mishaps>>
  BY DEF LoadResponse, AcvpInv, AcvpTypes
<1>2. CASE conn' \in Opened /\ Goto("login") /\ UNCHANGED <<auto, command, cur, disp, exit>>
  <2>1. conn' \in Conns
    BY <1>2 DEF Opened, Conns
  <2>2. QED
    BY <1>1, <1>2, <2>1, MovesKeep DEF Moves, recordVars, Goto
<1>3. CASE conn' = conn /\ Conclude("SUBMIT_ERROR")
  <2>1. conn' \in Conns /\ Told("SUBMIT_ERROR")
    BY <1>1, <1>3 DEF Told, AcvpInv, AcvpTypes, Conns
  <2>2. QED
    BY <1>1, <1>3, <2>1, ConcludeKeeps
<1>4. QED
  BY <1>2, <1>3 DEF LoadResponse

LEMMA LoginKeeps ==
  ASSUME AcvpInv, Login
  PROVE  AcvpInv'
<1>1. PICK c \in Calls :
        /\ conn' = c.conn
        /\ \/ /\ c.end = "reply" /\ age' = 0 /\ renewed' = TRUE /\ Goto("replay")
              /\ UNCHANGED <<auto, command, cur, disp, exit>>
           \/ Conclude("SUBMIT_ERROR") /\ UNCHANGED <<age, renewed>>
  BY DEF Login
<1>2. conn' \in Conns
  BY <1>1, CallsAre DEF AcvpInv, AcvpTypes, Conns
<1>3. /\ stage = "login" /\ age \in 0..2 /\ renewed \in BOOLEAN
      /\ UNCHANGED <<outcome, file, server, posts, mishaps>>
  BY DEF Login, AcvpInv, AcvpTypes
<1>4. CASE age' = 0 /\ renewed' = TRUE /\ Goto("replay") /\ UNCHANGED <<auto, command, cur, disp,
                                                                        exit>>
  BY <1>2, <1>3, <1>4, MovesKeep DEF Moves, recordVars, Goto
<1>5. CASE Conclude("SUBMIT_ERROR") /\ UNCHANGED <<age, renewed>>
  <2>1. Told("SUBMIT_ERROR")
    BY <1>3 DEF Told
  <2>2. QED
    BY <1>2, <1>3, <1>5, <2>1, ConcludeKeeps
<1>6. QED
  BY <1>1, <1>4, <1>5

-----------------------------------------------------------------------------
(* The steps between the vector sets, and those of the environment.        *)

\* Renewing the token and opening the tunnel again change no record.
LEMMA RenewKeeps ==
  ASSUME AcvpInv, StartSet \/ RenewBeforeSubmit \/ RenewAfterReopen \/ Authorize \/ Reopen
  PROVE  AcvpInv'
<1>1. /\ conn \in Conns /\ age \in 0..2 /\ renewed \in BOOLEAN
      /\ UNCHANGED <<command, auto, cur, outcome, disp, exit, file, server, posts, mishaps>>
  BY DEF AcvpInv, AcvpTypes, Conns, StartSet, RenewBeforeSubmit, RenewAfterReopen, RefreshIfStale,
     Authorize, Reopen
<1>2. ASSUME NEW from, NEW to, RefreshIfStale(from, to)
      PROVE  stage = from /\ stage' = to /\ conn' \in Conns /\ age' \in 0..2 /\ renewed' \in BOOLEAN
  <2>1. CASE age = 0
    BY <1>1, <1>2, <2>1 DEF RefreshIfStale, Goto
  <2>2. CASE age # 0
    <3>1. Refresh(to, to) /\ renewed' = TRUE /\ stage = from
      BY <1>2, <2>2 DEF RefreshIfStale
    <3>2. QED
      BY <1>1, <3>1, RefreshIs
  <2>3. QED
    BY <2>1, <2>2
<1>3. CASE StartSet \/ RenewBeforeSubmit \/ RenewAfterReopen
  <2>1. /\ conn' \in Conns /\ age' \in 0..2 /\ renewed' \in BOOLEAN
        /\ <<stage, stage'>> \in {<<"fresh", "fetch">>, <<"renew", "submit">>, <<"renewAgain", "again">>}
    BY <1>2, <1>3 DEF StartSet, RenewBeforeSubmit, RenewAfterReopen
  <2>2. QED
    BY <1>1, <2>1, MovesKeep DEF Moves, recordVars
<1>4. CASE Authorize
  <2>1. stage = "authorize" /\ renewed' = TRUE /\ Refresh("last", "judge")
    BY <1>4 DEF Authorize
  <2>2. conn' \in Conns /\ age' \in 0..2 /\ stage' \in {"last", "judge"}
    BY <1>1, <2>1, RefreshIs
  <2>3. QED
    BY <1>1, <2>1, <2>2, MovesKeep DEF Moves, recordVars
<1>5. CASE Reopen
  <2>1. /\ stage = "reopen" /\ stage' \in {"renewAgain", "judge"}
        /\ conn' \in Conns /\ age' \in 0..2 /\ renewed' \in BOOLEAN
    BY <1>1, <1>5 DEF Reopen, Goto, Opened, Conns
  <2>2. QED
    BY <1>1, <2>1, MovesKeep DEF Moves, recordVars
<1>6. QED
  BY <1>3, <1>4, <1>5

LEMMA RecoverKeeps ==
  ASSUME AcvpInv, Recover
  PROVE  AcvpInv'
<1>1. /\ command' = command /\ cur' = cur /\ outcome' = outcome /\ disp' = disp /\ exit' = exit
      /\ file' = file /\ server' = server /\ posts' = posts /\ mishaps' = mishaps
      /\ conn' = conn /\ age' = age /\ renewed' = renewed /\ stage = "recover"
  BY DEF Recover
<1>2. CASE disp[cur] = "SUBMIT_ERROR"
  <2>1. auto' = TRUE /\ stage' = "load" /\ command = "demo" /\ ~Working /\ ~Working'
    BY <1>1, <1>2 DEF Recover, Goto, AcvpInv, StageInv, Working, InSet, Making, Sending, Ending
  <2>2. AcvpTypes'
    BY <1>1, <2>1 DEF AcvpInv, AcvpTypes, Stages, Replaying
  <2>3. StageInv'
    BY <1>1, <2>1 DEF StageInv, Making, Sending, Replaying
  <2>4. FilesInv'
    BY <1>1, <2>1 DEF AcvpInv, FilesInv
  <2>5. PromiseInv'
    BY <1>1, <1>2, <2>1 DEF AcvpInv, PromiseInv, Kept
  <2>6. AcceptedInv'
    BY <1>1, <2>1 DEF AcvpInv, AcceptedInv, AcceptedMeansReceived
  <2>7. PostsInv'
    BY <1>1, <2>1 DEF AcvpInv, PostsInv, Replaying
  <2>8. RenewedInv'
    BY <2>1 DEF RenewedInv
  <2>9. QED
    BY <2>2, <2>3, <2>4, <2>5, <2>6, <2>7, <2>8 DEF AcvpInv
<1>3. CASE disp[cur] # "SUBMIT_ERROR"
  <2>1. auto' = auto /\ stage' = "recovered"
    BY <1>3 DEF Recover, Goto
  <2>2. conn' \in Conns /\ age' \in 0..2 /\ renewed' \in BOOLEAN
    BY <1>1 DEF AcvpInv, AcvpTypes, Conns
  <2>3. QED
    BY <1>1, <2>1, <2>2, MovesKeep DEF Moves, recordVars
<1>4. QED
  BY <1>2, <1>3

LEMMA RecoveredKeeps ==
  ASSUME AcvpInv, Recovered
  PROVE  AcvpInv'
<1>1. /\ auto' = auto /\ outcome' = outcome /\ disp' = disp
      /\ file' = file /\ server' = server /\ posts' = posts /\ mishaps' = mishaps
      /\ conn' = conn /\ age' = age /\ renewed' = renewed /\ stage = "recovered"
      /\ command = "demo" /\ ~auto /\ ~Working /\ cur \in VectorSets
  BY DEF Recovered, AcvpInv, AcvpTypes, StageInv, Working, InSet, Making, Sending, Ending
<1>2. /\ cur' \in VectorSets
      /\ \/ cur' = cur + 1 /\ stage' = "recover" /\ command' = command /\ exit' = exit
         \/ command' = "none" /\ stage' = "idle" /\ exit' \in {"error", "ok"}
  BY <1>1, AcvpAssumption DEF Recovered, Goto, VectorSets
<1>3. ~Working' /\ \A v \in VectorSets : v \in Int
  BY <1>2 DEF Working, InSet, Making, Sending, Ending, VectorSets
<1>4. AcvpTypes'
  BY <1>1, <1>2 DEF AcvpInv, AcvpTypes, Stages
<1>5. StageInv'
  BY <1>1, <1>2 DEF StageInv, Making, Sending, Replaying
<1>6. FilesInv'
  BY <1>1, <1>2, <1>3 DEF AcvpInv, FilesInv
<1>7. PromiseInv'
  BY <1>1, <1>2, <1>3 DEF AcvpInv, PromiseInv, Kept
<1>8. AcceptedInv'
  BY <1>1, <1>2 DEF AcvpInv, AcceptedInv, AcceptedMeansReceived
<1>9. PostsInv'
  <2>1. stage' = "recover" => posts[cur'] <= 3 /\ \A v \in VectorSets : v > cur' => posts[v] <= 3
    <3>1. \A v \in VectorSets : v > cur => posts[v] <= 3
      BY <1>1 DEF AcvpInv, PostsInv
    <3>2. stage' = "recover" => cur' > cur /\ \A v \in VectorSets : v > cur' => v > cur
      BY <1>1, <1>2, <1>3
    <3>3. QED
      BY <1>2, <3>1, <3>2
  <2>2. QED
    BY <1>1, <1>2, <1>3, <2>1 DEF AcvpInv, PostsInv, Replaying
<1>10. RenewedInv'
  BY <1>2 DEF RenewedInv
<1>11. QED
  BY <1>4, <1>5, <1>6, <1>7, <1>8, <1>9, <1>10 DEF AcvpInv

LEMMA DemoKeeps ==
  ASSUME AcvpInv, RunDemo
  PROVE  AcvpInv'
<1>1. /\ auto' = auto /\ outcome' = outcome /\ disp' = disp /\ file' = file /\ server' = server
      /\ posts' = posts /\ mishaps' = mishaps /\ renewed' = renewed
      /\ stage = "idle" /\ exit = "none" /\ command = "none" /\ ~auto
  BY DEF RunDemo, AcvpInv, StageInv
<1>2. /\ \A v \in VectorSets : /\ file[v].response = "absent" /\ file[v].status = "absent"
                               /\ posts[v] = 0 /\ disp[v] = "none"
  BY <1>1 DEF AcvpInv, StageInv, NoFiles
<1>3. conn' \in Conns /\ age' \in 0..2 /\ cur' \in VectorSets
      /\ \/ command' = "demo" /\ cur' = 1 /\ stage' = "fresh" /\ exit' = exit
         \/ command' = "none" /\ stage' = "idle" /\ exit' = "error"
  <2>1. 1 \in VectorSets
    BY AcvpAssumption DEF VectorSets
  <2>2. QED
    BY <1>1, <2>1 DEF RunDemo, Goto, Opened, Conns, AcvpInv, AcvpTypes
<1>4. AcvpTypes'
  BY <1>1, <1>3 DEF AcvpInv, AcvpTypes, Conns, Stages, InSet, Making
<1>5. StageInv'
  BY <1>1, <1>3 DEF StageInv, Making, Sending, Replaying
<1>6. FilesInv'
  BY <1>1, <1>2, <1>3 DEF FilesInv
<1>7. PromiseInv'
  BY <1>1, <1>2, <1>3 DEF PromiseInv, Sending
<1>8. AcceptedInv'
  BY <1>1, <1>3 DEF AcvpInv, AcceptedInv, AcceptedMeansReceived
<1>9. PostsInv'
  BY <1>1, <1>2, <1>3 DEF PostsInv, Making, Replaying
<1>10. RenewedInv'
  BY <1>3 DEF RenewedInv
<1>11. QED
  BY <1>4, <1>5, <1>6, <1>7, <1>8, <1>9, <1>10 DEF AcvpInv

LEMMA ResubmitKeeps ==
  ASSUME AcvpInv, RunResubmit
  PROVE  AcvpInv'
<1>1. /\ auto' = auto /\ outcome' = outcome /\ file' = file /\ server' = server
      /\ mishaps' = mishaps /\ renewed' = renewed /\ conn' = conn /\ age' = age
      /\ command' = "resubmit" /\ exit' = "none" /\ stage' = "load" /\ cur' \in VectorSets /\ ~auto
      /\ posts' = [v \in VectorSets |-> 0] /\ disp' = [v \in VectorSets |-> "none"]
  BY DEF RunResubmit, Goto, AcvpInv, StageInv, Replaying, Ending
<1>2. ~Working'
  BY <1>1 DEF Working
<1>3. AcvpTypes'
  BY <1>1 DEF AcvpInv, AcvpTypes, Stages, Replaying
<1>4. StageInv'
  BY <1>1 DEF StageInv, Making, Sending, Replaying
<1>5. FilesInv'
  BY <1>1, <1>2 DEF AcvpInv, FilesInv
<1>6. PromiseInv'
  BY <1>1, <1>2 DEF PromiseInv
<1>7. AcceptedInv'
  BY <1>1 DEF AcvpInv, AcceptedInv, AcceptedMeansReceived, Verdicts
<1>8. PostsInv'
  BY <1>1, <1>2 DEF PostsInv
<1>9. RenewedInv'
  BY <1>1 DEF RenewedInv
<1>10. QED
  BY <1>3, <1>4, <1>5, <1>6, <1>7, <1>8, <1>9 DEF AcvpInv

\* What the server has only grows, so what was said of it stays true.
LEMMA GradeKeeps ==
  ASSUME AcvpInv, Grade
  PROVE  AcvpInv'
<1>1. PICK g \in VectorSets : server[g] = "received" /\ server' = [server EXCEPT ![g] = Graded(g)]
  BY DEF Grade
<1>2. Graded(g) \in Verdicts
  BY DEF Graded, Verdicts
<1>3. /\ server' \in [VectorSets -> {"none", "received"} \cup Verdicts]
      /\ \A v \in VectorSets : server[v] # "none" => server'[v] # "none"
      /\ \A v \in VectorSets : server[v] \in Verdicts => server'[v] = server[v]
  BY <1>1, <1>2 DEF AcvpInv, AcvpTypes, Verdicts
<1>4. /\ command' = command /\ auto' = auto /\ stage' = stage /\ cur' = cur /\ conn' = conn
      /\ age' = age /\ outcome' = outcome /\ disp' = disp /\ exit' = exit /\ file' = file
      /\ posts' = posts /\ renewed' = renewed /\ mishaps' = mishaps /\ (Working' <=> Working)
  BY DEF Grade, Working
<1>5. AcvpTypes'
  BY <1>3, <1>4 DEF AcvpInv, AcvpTypes
<1>6. AcceptedInv'
  <2>1. AcceptedMeansReceived'
    <3>1. ASSUME NEW v \in VectorSets, NEW w \in {file[v].status, disp[v]}
          PROVE  (w = "SUBMITTED" => server'[v] # "none") /\ (w \in Verdicts => server'[v] = w)
      BY <1>3, <3>1 DEF AcvpInv, AcceptedInv, AcceptedMeansReceived
    <3>2. QED
      BY <1>4, <3>1 DEF AcceptedMeansReceived
  <2>2. cur \in VectorSets
    BY DEF AcvpInv, AcvpTypes
  <2>3. QED
    BY <1>3, <1>4, <2>1, <2>2 DEF AcvpInv, AcceptedInv
<1>7. StageInv' /\ FilesInv' /\ PromiseInv' /\ PostsInv' /\ RenewedInv'
  <2>1. StageInv' /\ RenewedInv'
    BY <1>4 DEF AcvpInv, StageInv, RenewedInv
  <2>2. FilesInv' /\ PromiseInv'
    BY <1>4 DEF AcvpInv, FilesInv, PromiseInv, Kept
  <2>3. PostsInv'
    BY <1>4 DEF AcvpInv, PostsInv
  <2>4. QED
    BY <2>1, <2>2, <2>3
<1>8. QED
  BY <1>5, <1>6, <1>7 DEF AcvpInv

\* A death cuts at most the file that was being written, and that file was not yet whole.
LEMMA DeathKeeps ==
  ASSUME AcvpInv, ProcessDies
  PROVE  AcvpInv'
<1>1. /\ command' = "none" /\ auto' = FALSE /\ stage' = "idle" /\ exit' = "died" /\ cur' = 1
      /\ outcome' = "none" /\ renewed' = FALSE /\ conn' = "live" /\ age' = 0 /\ mishaps' = mishaps - 1
      /\ mishaps > 0 /\ disp' = disp /\ posts' = posts /\ stage # "idle"
  BY DEF ProcessDies, Goto
<1>2. cur \in VectorSets /\ 1 \in VectorSets /\ mishaps' \in 0..MaxMishaps
  BY <1>1, AcvpAssumption DEF AcvpInv, AcvpTypes, VectorSets
<1>3. /\ file' \in [VectorSets -> [prompt : Contents, response : Contents, status : Words]]
      /\ \A v \in VectorSets : file'[v].status \in {file[v].status, "cut"}
      /\ \A v \in VectorSets :
           file[v].response = "full" => file'[v].response = "full" \/ (stage = "keep" /\ v = cur)
  <2>1. /\ file \in [VectorSets -> [prompt : Contents, response : Contents, status : Words]]
        /\ "cut" \in Contents /\ "cut" \in Words
    BY DEF AcvpInv, AcvpTypes, Contents, Words
  <2>2. CASE file' = file
    BY <2>1, <2>2
  <2>3. CASE stage = "keep" /\ file' = [file EXCEPT ![cur].response = "cut"]
    BY <1>2, <2>1, <2>3
  <2>4. CASE file' = [file EXCEPT ![cur].status = "cut"]
    BY <1>2, <2>1, <2>4
  <2>5. QED
    BY <2>2, <2>3, <2>4 DEF ProcessDies
<1>4. stage = "keep" => file[cur].response = "absent"
  BY <1>2 DEF AcvpInv, FilesInv, StageInv, Working, InSet, Making
<1>5. /\ server' \in [VectorSets -> {"none", "received"} \cup Verdicts]
      /\ \A v \in VectorSets : server[v] # "none" => server'[v] = server[v]
  BY <1>2 DEF ProcessDies, Takes, AcvpInv, AcvpTypes
<1>6. ~Working'
  BY <1>1 DEF Working
<1>7. AcvpTypes'
  <2>1. "none" \in AcvpOutcomes /\ "idle" \in Stages
    BY DEF Stages, AcvpOutcomes
  <2>2. age' \in 0..2
    BY <1>1
  <2>3. auto' \in BOOLEAN /\ renewed' \in BOOLEAN
    BY <1>1
  <2>4. /\ disp' \in [VectorSets -> Errors \cup Words \cup {"none"}]
        /\ posts' \in [VectorSets -> Nat]
    BY <1>1 DEF AcvpInv, AcvpTypes
  <2>5. /\ outcome' \in AcvpOutcomes /\ stage' \in Stages /\ cur' \in VectorSets
        /\ conn' \in {"live", "dead", "closing"} /\ exit' \in {"none", "ok", "error", "died"}
        /\ command' \in {"none", "demo", "resubmit"}
    BY <1>1, <1>2, <2>1
  <2>6. QED
    BY <1>2, <1>3, <1>5, <2>2, <2>3, <2>4, <2>5 DEF AcvpTypes
<1>8. StageInv'
  BY <1>1 DEF StageInv, Making, Sending, Replaying
<1>9. FilesInv'
  <2>1. \A v \in VectorSets : file'[v].status = "PENDING" => file'[v].response = "full"
    BY <1>3, <1>4 DEF AcvpInv, FilesInv
  <2>2. QED
    BY <1>1, <1>6, <2>1 DEF FilesInv
<1>10. PromiseInv'
  BY <1>1, <1>6 DEF PromiseInv
<1>11. AcceptedInv'
  <2>1. ASSUME NEW v \in VectorSets, NEW w \in {file'[v].status, disp[v]}
        PROVE  (w = "SUBMITTED" => server'[v] # "none") /\ (w \in Verdicts => server'[v] = w)
    <3>1. w \in {file[v].status, disp[v]} \/ w = "cut"
      BY <1>3, <2>1
    <3>2. QED
      BY <1>5, <3>1 DEF AcvpInv, AcceptedInv, AcceptedMeansReceived, Verdicts
  <2>2. QED
    BY <1>1, <2>1 DEF AcceptedInv, AcceptedMeansReceived
<1>12. PostsInv'
  BY <1>1, <1>6 DEF AcvpInv, PostsInv
<1>13. RenewedInv'
  BY <1>1 DEF RenewedInv
<1>14. QED
  BY <1>7, <1>8, <1>9, <1>10, <1>11, <1>12, <1>13 DEF AcvpInv

-----------------------------------------------------------------------------
(* What the ACVP client promises.                                          *)

LEMMA AcvpBegins == AcvpInit => AcvpInv
<1> SUFFICES ASSUME AcvpInit PROVE AcvpInv
  OBVIOUS
<1>1. 1 \in VectorSets /\ MaxMishaps \in 0..MaxMishaps
  BY AcvpAssumption DEF VectorSets
<1>2. AcvpTypes
  <2>1. "none" \in AcvpOutcomes /\ "idle" \in Stages
    BY DEF Stages, AcvpOutcomes
  <2>2. NoFiles \in [prompt : Contents, response : Contents, status : Words]
    BY DEF NoFiles, Contents, Words
  <2>3. age \in 0..2 /\ mishaps \in 0..MaxMishaps
    BY <1>1 DEF AcvpInit
  <2>4. auto \in BOOLEAN /\ renewed \in BOOLEAN
    BY DEF AcvpInit
  <2>5. /\ disp \in [VectorSets -> Errors \cup Words \cup {"none"}] /\ posts \in [VectorSets -> Nat]
        /\ server \in [VectorSets -> {"none", "received"} \cup Verdicts]
    BY DEF AcvpInit
  <2>6. file \in [VectorSets -> [prompt : Contents, response : Contents, status : Words]]
    BY <2>2 DEF AcvpInit
  <2>7. QED
    BY <1>1, <2>1, <2>3, <2>4, <2>5, <2>6 DEF AcvpInit, AcvpTypes
<1>3. StageInv
  BY DEF AcvpInit, StageInv, Making, Sending, Replaying
<1>4. ~Working
  BY DEF AcvpInit, Working
<1>5. FilesInv /\ PromiseInv
  BY <1>4 DEF AcvpInit, FilesInv, PromiseInv, NoFiles
<1>6. AcceptedInv
  BY DEF AcvpInit, AcceptedInv, AcceptedMeansReceived, NoFiles, Verdicts
<1>7. PostsInv /\ RenewedInv
  BY <1>4 DEF AcvpInit, PostsInv, RenewedInv
<1>8. QED
  BY <1>2, <1>3, <1>5, <1>6, <1>7 DEF AcvpInv

LEMMA AcvpStep == AcvpInv /\ [AcvpNext]_acvpVars => AcvpInv'
<1>1. ASSUME AcvpInv, AcvpNext PROVE AcvpInv'
  BY <1>1, DemoKeeps, RenewKeeps, FetchKeeps, StoreKeeps, ComputeKeeps, KeepKeeps, PendingKeeps,
     SubmitKeeps, WordKeeps, JudgeKeeps, PollKeeps, EndKeeps, RecoverKeeps, RecoveredKeeps,
     ResubmitKeeps, LoadKeeps, LoginKeeps, GradeKeeps, DeathKeeps DEF AcvpNext
<1>2. ASSUME AcvpInv, UNCHANGED acvpVars PROVE AcvpInv'
  BY <1>2 DEF acvpVars, AcvpInv, AcvpTypes, StageInv, FilesInv, PromiseInv, Kept, AcceptedInv,
     AcceptedMeansReceived, PostsInv, RenewedInv, Working
<1>3. QED
  BY <1>1, <1>2

\* The invariant of the client, for any number of vector sets, of deaths and of failed writes.
THEOREM AcvpInvariant == AcvpSpec => []AcvpInv
<1>1. QED
  BY AcvpBegins, AcvpStep, PTL DEF AcvpSpec

\* What the files of a vector set say may be relied on: PENDING can be replayed, a submit that
\* was given up left its answers, and nothing is called submitted or graded that is not
\* (session.rs, transport.rs submit_and_mark).
THEOREM FilesTellTruth == AcvpSpec => []RecordIsTrue
<1>1. AcvpInv => PendingIsReplayable
  BY DEF AcvpInv, FilesInv, PromiseInv, PendingIsReplayable, Kept
<1>2. AcvpInv => RecordIsTrue
  BY <1>1 DEF RecordIsTrue, AcvpInv, AcceptedInv
<1>3. QED
  BY <1>2, AcvpInvariant, PTL

\* A vector set is submitted three times at most and once more by the automatic resubmit, and
\* given up for a refused token only after a renewal (transport.rs process_one_vector_set).
THEOREM RetriesEnd == AcvpSpec => []SubmitsBounded
<1>1. AcvpInv => SubmitsBounded
  BY DEF AcvpInv, PostsInv, RenewedInv, SubmitsBounded
<1>2. QED
  BY <1>1, AcvpInvariant, PTL

\* Answers that are on file are never cut, emptied or computed again, whatever dies or fails
\* afterwards (session.rs write_file).
THEOREM AnswersStayOnFile == AcvpSpec => ResponseKept
<1> DEFINE A == \A v \in VectorSets : file[v].response = "full" => file[v].response' = "full"
<1>1. ASSUME AcvpInv, [AcvpNext]_acvpVars PROVE A
  <2>1. CASE UNCHANGED file
    BY <2>1
  <2>2. CASE OpenSessionStore
    BY <1>1, <2>2 DEF OpenSessionStore, AcvpInv, AcvpTypes
  <2>3. CASE KeepResponse
    <3>1. file[cur].response = "absent" /\ cur \in VectorSets
      BY <1>1, <2>3 DEF KeepResponse, AcvpInv, AcvpTypes, FilesInv, StageInv, Working, InSet, Making
    <3>2. QED
      BY <1>1, <2>3, <3>1 DEF KeepResponse, AcvpInv, AcvpTypes
  <2>4. CASE MarkPending \/ MarkSubmitted \/ RecordVerdict
    BY <1>1, <2>4 DEF MarkPending, MarkSubmitted, RecordVerdict, WriteStatus, AcvpInv, AcvpTypes
  <2>5. CASE ProcessDies
    <3>1. (stage = "keep" => file[cur].response = "absent") /\ cur \in VectorSets
      BY <1>1 DEF AcvpInv, AcvpTypes, FilesInv, StageInv, Working, InSet, Making
    <3>2. QED
      BY <1>1, <2>5, <3>1 DEF ProcessDies, AcvpInv, AcvpTypes
  <2>6. QED
    BY <1>1, <2>1, <2>2, <2>3, <2>4, <2>5 DEF AcvpNext, acvpVars, RunDemo, StartSet, Fetch, Compute,
       RenewBeforeSubmit, Submit, Reopen, RenewAfterReopen, Authorize, Judge, Poll, EndOfSet, Recover,
       Recovered, RunResubmit, LoadResponse, Login, Grade, RefreshIfStale
<1> HIDE DEF A
<1>2. AcvpInv /\ [AcvpNext]_acvpVars => [A]_acvpVars
  BY <1>1
<1>3. AcvpSpec => [][A]_acvpVars
  BY <1>2, AcvpInvariant, PTL DEF AcvpSpec
<1>4. QED
  BY <1>3 DEF A, ResponseKept

-----------------------------------------------------------------------------
(* The collection: what is on disk while a command runs.                   *)

Streams == [state : {"samples"}, plan : Plans, length : Nat, tripped : BOOLEAN]
Cuts == [state : {"cut"}, plan : Plans]
Rows == [state : {"restarts"}, plan : Plans, length : Nat]
Sidecars == [state : {"metadata"}, plan : Plans, tripped : BOOLEAN, restarts : Nat]
Datasets == [raw : {Absent} \cup Streams, restart : {Absent} \cup Cuts \cup Rows,
             capture : {Absent} \cup Streams, metadata : {Absent} \cup Cuts \cup Sidecars]
Settlements == [state : {"settled"}, skipped : BOOLEAN, submission : BOOLEAN,
                trip_free : {"unknown", "yes", "no"}]
CommandPlaces == {"none", "boundary", "stream", "restart", "round", "metadata", "manifest", "mark"}

CollectTypes ==
  /\ files \in [Boundaries -> Datasets]
  /\ session \subseteq Plans \X Boundaries
  /\ place \in CommandPlaces /\ plan \in Plans /\ boundary \in Boundaries
  /\ summary \in BOOLEAN /\ rounds \in Nat
  /\ outcomes \in [Boundaries -> {[state |-> "none"]} \cup Settlements]
  /\ ending \in {"none", "running", "ok", "failed", "conflict"}
  /\ scenario \in Scenarios /\ failures \in 0 .. scenario.failures

\* The data set of boundary b is being written.
Writing(b) == place \notin {"none", "boundary"} /\ boundary = b

\* A command runs a plan of the scenario, from the checkpoint as it is.
CommandInv ==
  /\ place = "none" <=> ending # "running"
  /\ place # "none" => done = session /\ plan \in scenario.plans
  /\ \A p \in Plans, b \in Boundaries : <<p, b>> \in session => p \in scenario.plans

\* A directory holds the files of one kind of plan.
KindInv ==
  /\ \A b \in Boundaries :
       files[b].raw # Absent \/ files[b].restart # Absent => files[b].capture = Absent
  /\ \A b \in Boundaries : Writing(b) =>
       IF Characterization(plan) THEN files[b].raw = Absent /\ files[b].restart = Absent
       ELSE files[b].capture = Absent

\* How far the data set in hand is.
ProgressInv ==
  \A b \in Boundaries : Writing(b) =>
    /\ place = "stream" => files[b][File] = Stream(plan, 0, FALSE)
    /\ place # "stream" => files[b][File] = Stream(plan, Count, summary)
    /\ place \in {"restart", "round"} => ~Characterization(plan)
    /\ place = "round" => files[b].restart = Restarts(plan, rounds) /\ rounds < Rounds
    /\ place \in {"metadata", "manifest", "mark"} /\ ~Characterization(plan) =>
         files[b].restart = Restarts(plan, Rounds) /\ rounds = Rounds
    /\ place \in {"manifest", "mark"} => files[b].metadata = Metadata(plan, summary, rounds)
    /\ place = "mark" => manifest = ManifestOf(files)

\* A plan whose data sets no other plan can overwrite, once they are listed.
Safe(p) == ~Confused(p) /\ (~Characterization(p) \/ scenario.failures > 0)

\* A listed data set of a safe plan is whole and stays so.  Where nothing fails, every
\* characterization is that of some plan and whole, unless it is being written.
ListedInv ==
  /\ \A p \in Plans, b \in Boundaries :
       <<p, b>> \in session /\ Safe(p) => WholeSet(b, p) /\ ~Writing(b)
  /\ scenario.failures = 0 => \A b \in Boundaries :
       files[b].capture # Absent /\ ~Writing(b) =>
         WholeSet(b, files[b].capture.plan) /\ files[b].capture.plan \in scenario.plans

\* The manifest is of the files as they are, between two data sets, where nothing fails; and
\* of a safe plan whose two data sets are listed, in any case.
ManifestInv ==
  /\ scenario.failures = 0 /\ place \in {"none", "boundary"} =>
       manifest = ManifestOf(files) \/ files = [b \in Boundaries |-> NoDataset]
  /\ scenario.failures > 0 => \A p \in Plans :
       Safe(p) /\ (\A b \in Boundaries : <<p, b>> \in session) => manifest = ManifestOf(files)

\* What is known of the lower boundary when the upper one is in hand.
LowerInv ==
  place # "none" /\ boundary = "upper" =>
    /\ ~(outcomes["lower"].skipped /\ Confused(plan)) => WholeSet("lower", plan)
    /\ Characterization(plan) /\ ~outcomes["lower"].skipped =>
         (outcomes["lower"].trip_free = "yes" <=> ~files["lower"].capture.tripped)
    /\ place = "boundary" =>
         (outcomes["lower"].skipped /\ <<plan, "lower">> \in session) \/ manifest = ManifestOf(files)

CollectInv ==
  /\ CollectTypes /\ CommandInv /\ KindInv /\ ProgressInv /\ ListedInv /\ ManifestInv
  /\ LowerInv /\ CompletedIsWhole

-----------------------------------------------------------------------------
\* A write changes one file of the boundary in hand.
LEMMA PutIs ==
  ASSUME files \in [Boundaries -> Datasets], boundary \in Boundaries, NEW content,
         NEW which \in {"raw", "restart", "capture", "metadata"}, Put(which, content)
  PROVE  /\ \A b \in Boundaries : b # boundary => files'[b] = files[b]
         /\ files'[boundary][which] = content
         /\ \A g \in {"raw", "restart", "capture", "metadata"} :
              g # which => files'[boundary][g] = files[boundary][g]
<1>1. files'[boundary] = [files[boundary] EXCEPT ![which] = content]
  BY DEF Put
<1>2. files[boundary] \in Datasets
  OBVIOUS
<1>3. \A b \in Boundaries : b # boundary => files'[b] = files[b]
  BY DEF Put
<1>4. QED
  BY <1>1, <1>2, <1>3 DEF Datasets

\* A write of what a file can hold keeps the type of the files.
LEMMA PutTypes ==
  ASSUME files \in [Boundaries -> Datasets], boundary \in Boundaries, NEW content,
         NEW which \in {"raw", "restart", "capture", "metadata"}, Put(which, content),
         which \in {"raw", "capture"} => content \in Streams,
         which = "restart" => content \in Cuts \cup Rows,
         which = "metadata" => content \in Cuts \cup Sidecars
  PROVE  files' \in [Boundaries -> Datasets]
<1>1. [files[boundary] EXCEPT ![which] = content] \in Datasets
  BY DEF Datasets
<1>2. QED
  BY <1>1 DEF Put

\* What the files of a boundary hold is a matter of these files.
LEMMA WholeStays ==
  ASSUME NEW b \in Boundaries, NEW p, files'[b] = files[b]
  PROVE  WholeSet(b, p)' <=> WholeSet(b, p)
<1>1. QED
  BY DEF WholeSet, Characterization

\* Which plans are confused is a matter of the scenario.
LEMMA SafeStays ==
  ASSUME NEW p, UNCHANGED scenario
  PROVE  (Confused(p)' <=> Confused(p)) /\ (Safe(p)' <=> Safe(p))
<1>1. Confused(p)' <=> Confused(p)
  BY DEF Confused, Characterization
<1>2. QED
  BY <1>1 DEF Safe, Characterization

\* While a data set is written, what is known of everything else stays.
LEMMA WorkGoesOn ==
  ASSUME CollectInv, place # "none", place' \in CommandPlaces \ {"none", "boundary"},
         \A p \in Plans : <<p, boundary>> \in session => ~Safe(p),
         UNCHANGED <<plan, boundary, session, done, outcomes, ending, scenario, failures>>,
         \A b \in Boundaries : b # boundary => files'[b] = files[b]
  PROVE  CommandInv' /\ ListedInv' /\ ManifestInv' /\ LowerInv' /\ CompletedIsWhole'
<1>1. place \in CommandPlaces /\ place # "none" /\ boundary \in Boundaries /\ plan \in Plans
  BY DEF CollectInv, CollectTypes
<1>2. ending = "running" /\ done = session /\ plan \in scenario.plans
  BY <1>1 DEF CollectInv, CommandInv
<1>3. \A b \in Boundaries : Writing(b)' <=> b = boundary
  BY DEF Writing
<1>4. \A b \in Boundaries, p \in Plans : b # boundary => (WholeSet(b, p)' <=> WholeSet(b, p))
  BY WholeStays
<1>5. CommandInv'
  BY <1>1, <1>2 DEF CollectInv, CommandInv, Plans
<1>6. ListedInv'
  <2>1. ASSUME NEW p \in Plans, NEW b \in Boundaries, <<p, b>> \in session', Safe(p)'
        PROVE  WholeSet(b, p)' /\ ~Writing(b)'
    <3>1. Safe(p) /\ <<p, b>> \in session
      BY <2>1, SafeStays
    <3>2. b # boundary /\ WholeSet(b, p)
      BY <3>1 DEF CollectInv, ListedInv
    <3>3. QED
      BY <3>2, <1>3, <1>4
  <2>2. ASSUME scenario'.failures = 0, NEW b \in Boundaries, files'[b].capture # Absent, ~Writing(b)'
        PROVE  /\ WholeSet(b, files[b].capture.plan)' /\ files'[b] = files[b]
               /\ files[b].capture.plan \in scenario.plans
    <3>1. b # boundary
      BY <2>2, <1>3
    <3>2. ~Writing(b) /\ files'[b] = files[b]
      BY <3>1 DEF Writing
    <3>3. WholeSet(b, files[b].capture.plan) /\ files[b].capture.plan \in scenario.plans
      BY <3>2, <2>2 DEF CollectInv, ListedInv
    <3>4. QED
      BY <3>2, <3>3 DEF WholeSet, Characterization
  <2>3. QED
    BY <2>1, <2>2 DEF ListedInv, Plans
<1>7. ManifestInv'
  <2>1. ASSUME NEW p \in Plans, Safe(p), \A b \in Boundaries : <<p, b>> \in session
        PROVE  FALSE
    BY <2>1, <1>1
  <2>2. \A p \in Plans : Safe(p)' <=> Safe(p)
    BY SafeStays
  <2>3. QED
    BY <2>1, <2>2 DEF ManifestInv, Plans
<1>8. LowerInv'
  <2>1. boundary = "upper" => files'["lower"] = files["lower"]
    BY DEF Boundaries
  <2>2. boundary = "upper" => (WholeSet("lower", plan)' <=> WholeSet("lower", plan))
    BY <2>1, <1>4, <1>1 DEF Boundaries, WholeSet, Characterization
  <2>3. Confused(plan)' <=> Confused(plan)
    BY DEF Confused, Characterization
  <2>4. QED
    BY <2>1, <2>2, <2>3, <1>1 DEF CollectInv, LowerInv, Characterization
<1>9. CompletedIsWhole'
  BY <1>2 DEF CompletedIsWhole
<1>10. QED
  BY <1>5, <1>6, <1>7, <1>8, <1>9

\* A command is in a data set that it writes.
LEMMA AtWork ==
  ASSUME CollectInv, place \notin {"none", "boundary"}
  PROVE  /\ boundary \in Boundaries /\ plan \in Plans /\ Writing(boundary)
         /\ files \in [Boundaries -> Datasets] /\ files[boundary] \in Datasets
         /\ summary \in BOOLEAN /\ rounds \in Nat /\ Samples[plan] \in Nat
         /\ done = session /\ ending = "running"
         /\ \A p \in Plans : <<p, boundary>> \in session => ~Safe(p)
<1>1. Writing(boundary) /\ boundary \in Boundaries
  BY DEF CollectInv, CollectTypes, Writing
<1>2. \A p \in Plans : <<p, boundary>> \in session => ~Safe(p)
  BY <1>1 DEF CollectInv, ListedInv
<1>3. QED
  BY <1>1, <1>2, CollectionAssumption DEF CollectInv, CollectTypes, CommandInv, Plans

\* Moving on within a data set keeps what the other variables hold.
LEMMA MoveTypes ==
  ASSUME CollectTypes, NEW label \in CommandPlaces, MoveTo(label), UNCHANGED <<session, scenario,
                                                                               failures>>,
         files' \in [Boundaries -> Datasets], summary' \in BOOLEAN, rounds' \in Nat
  PROVE  CollectTypes'
<1>1. QED
  BY DEF CollectTypes, MoveTo, Plans, Datasets, Streams, Cuts, Rows, Sidecars

\* Each action of the collection keeps the invariant.
LEMMA StreamKeeps ==
  ASSUME CollectInv, StreamSamples
  PROVE  CollectInv'
<1> DEFINE content == Stream(plan, Count, summary')
           label == IF Characterization(plan) THEN "metadata" ELSE "restart"
<1>1. /\ place = "stream" /\ summary' \in BOOLEAN /\ Put(File, content)
      /\ UNCHANGED <<plan, boundary, done, outcomes, ending, manifest, session, rounds, scenario,
                     runs, failures>>
      /\ place' = label
  BY DEF StreamSamples, MoveTo, Quiet
<1>2. Writing(boundary) /\ boundary \in Boundaries /\ plan \in Plans /\ Samples[plan] \in Nat
  BY <1>1, AtWork
<1>3. File \in {"raw", "capture"} /\ content \in Streams /\ label \in CommandPlaces \ {"none", "boundary"}
  BY <1>1, <1>2 DEF File, Count, Stream, Streams, CommandPlaces
<1>4. /\ \A b \in Boundaries : b # boundary => files'[b] = files[b]
      /\ files'[boundary][File] = content
      /\ \A g \in {"raw", "restart", "capture", "metadata"} :
           g # File => files'[boundary][g] = files[boundary][g]
  <2> HIDE DEF content
  <2>1. QED
    BY <1>1, <1>2, <1>3, PutIs DEF CollectInv, CollectTypes
<1>5. CollectTypes'
  <2>1. files' \in [Boundaries -> Datasets]
    <3> HIDE DEF content
    <3>1. QED
      BY <1>1, <1>2, <1>3, PutTypes DEF CollectInv, CollectTypes
  <2>2. MoveTo(label) /\ label \in CommandPlaces /\ rounds' \in Nat
    BY <1>1, <1>3, AtWork DEF MoveTo
  <2> HIDE DEF label
  <2>3. QED
    BY <1>1, <2>1, <2>2, MoveTypes DEF CollectInv
<1>6. CommandInv' /\ ListedInv' /\ ManifestInv' /\ LowerInv' /\ CompletedIsWhole'
  <2> HIDE DEF content, label
  <2>1. place' \in CommandPlaces \ {"none", "boundary"}
    BY <1>1, <1>3
  <2>2. QED
    BY <1>1, <1>2, <1>4, <2>1, AtWork, WorkGoesOn
<1>7. KindInv'
  BY <1>1, <1>2, <1>3, <1>4 DEF CollectInv, KindInv, Writing, File, Characterization
<1>8. ProgressInv'
  BY <1>1, <1>2, <1>4 DEF ProgressInv, Writing, File, Count, Characterization, Stream
<1>9. QED
  BY <1>5, <1>6, <1>7, <1>8 DEF CollectInv

LEMMA RestartFileKeeps ==
  ASSUME CollectInv, CreateRestart
  PROVE  CollectInv'
<1> DEFINE content == Restarts(plan, 0)
<1>1. /\ place = "restart" /\ rounds' = 0 /\ Put("restart", content) /\ place' = "round"
      /\ UNCHANGED <<plan, boundary, done, outcomes, ending, manifest, session, summary,
                     scenario, runs, failures>>
  BY DEF CreateRestart, MoveTo, Quiet
<1>2. Writing(boundary) /\ boundary \in Boundaries /\ plan \in Plans /\ ~Characterization(plan)
  BY <1>1, AtWork DEF CollectInv, ProgressInv
<1>3. content \in Rows
  BY <1>2 DEF Restarts, Rows
<1>4. /\ \A b \in Boundaries : b # boundary => files'[b] = files[b]
      /\ files'[boundary].restart = content
      /\ \A g \in {"raw", "restart", "capture", "metadata"} :
           g # "restart" => files'[boundary][g] = files[boundary][g]
  <2> HIDE DEF content
  <2>1. QED
    BY <1>1, <1>2, PutIs DEF CollectInv, CollectTypes
<1>5. CollectTypes'
  <2>1. files' \in [Boundaries -> Datasets]
    <3> HIDE DEF content
    <3>1. QED
      BY <1>1, <1>2, <1>3, PutTypes DEF CollectInv, CollectTypes
  <2>2. MoveTo("round") /\ "round" \in CommandPlaces /\ rounds' \in Nat /\ summary' \in BOOLEAN
    BY <1>1, AtWork DEF MoveTo, CommandPlaces
  <2>3. QED
    BY <1>1, <2>1, <2>2, MoveTypes DEF CollectInv
<1>6. CommandInv' /\ ListedInv' /\ ManifestInv' /\ LowerInv' /\ CompletedIsWhole'
  <2> HIDE DEF content
  <2>1. place' \in CommandPlaces \ {"none", "boundary"}
    BY <1>1 DEF CommandPlaces
  <2>2. QED
    BY <1>1, <1>2, <1>4, <2>1, AtWork, WorkGoesOn
<1>7. KindInv'
  BY <1>1, <1>2, <1>4 DEF CollectInv, KindInv, Writing, Characterization
<1>8. ProgressInv'
  BY <1>1, <1>2, <1>4, CollectionAssumption DEF CollectInv, ProgressInv, Writing, File, Count,
     Characterization, Stream, Restarts
<1>9. QED
  BY <1>5, <1>6, <1>7, <1>8 DEF CollectInv

LEMMA RoundKeeps ==
  ASSUME CollectInv, RestartRound
  PROVE  CollectInv'
<1> DEFINE content == Restarts(plan, rounds')
           label == IF rounds' = Rounds THEN "metadata" ELSE "round"
<1>1. /\ place = "round" /\ rounds < Rounds /\ rounds' = rounds + 1 /\ Put("restart", content)
      /\ place' = label
      /\ UNCHANGED <<plan, boundary, done, outcomes, ending, manifest, session, summary,
                     scenario, runs, failures>>
  BY DEF RestartRound, MoveTo, Quiet
<1>2. /\ Writing(boundary) /\ boundary \in Boundaries /\ plan \in Plans /\ ~Characterization(plan)
      /\ rounds \in Nat /\ Rounds \in Nat
  BY <1>1, AtWork, CollectionAssumption DEF CollectInv, ProgressInv
<1>3. rounds' \in Nat /\ content \in Rows /\ label \in CommandPlaces \ {"none", "boundary"}
  BY <1>1, <1>2 DEF Restarts, Rows, CommandPlaces
<1>4. /\ \A b \in Boundaries : b # boundary => files'[b] = files[b]
      /\ files'[boundary].restart = content
      /\ \A g \in {"raw", "restart", "capture", "metadata"} :
           g # "restart" => files'[boundary][g] = files[boundary][g]
  <2> HIDE DEF content
  <2>1. QED
    BY <1>1, <1>2, PutIs DEF CollectInv, CollectTypes
<1>5. CollectTypes'
  <2>1. files' \in [Boundaries -> Datasets]
    <3> HIDE DEF content
    <3>1. QED
      BY <1>1, <1>2, <1>3, PutTypes DEF CollectInv, CollectTypes
  <2>2. MoveTo(label) /\ label \in CommandPlaces /\ summary' \in BOOLEAN
    BY <1>1, <1>3, AtWork DEF MoveTo
  <2> HIDE DEF label
  <2>3. QED
    BY <1>1, <1>3, <2>1, <2>2, MoveTypes DEF CollectInv
<1>6. CommandInv' /\ ListedInv' /\ ManifestInv' /\ LowerInv' /\ CompletedIsWhole'
  <2> HIDE DEF content, label
  <2>1. place' \in CommandPlaces \ {"none", "boundary"}
    BY <1>1, <1>3
  <2>2. QED
    BY <1>1, <1>2, <1>4, <2>1, AtWork, WorkGoesOn
<1>7. KindInv'
  BY <1>1, <1>2, <1>4 DEF CollectInv, KindInv, Writing, Characterization
<1>8. ProgressInv'
  <2>1. rounds' = Rounds \/ rounds' < Rounds
    BY <1>1, <1>2
  <2>2. QED
    BY <1>1, <1>2, <1>4, <2>1 DEF CollectInv, ProgressInv, Writing, File, Count,
       Characterization, Stream, Restarts
<1>9. QED
  BY <1>5, <1>6, <1>7, <1>8 DEF CollectInv

LEMMA MetadataKeeps ==
  ASSUME CollectInv, WriteMetadata
  PROVE  CollectInv'
<1> DEFINE content == Metadata(plan, summary, rounds)
<1>1. /\ place = "metadata" /\ Put("metadata", content) /\ place' = "manifest"
      /\ UNCHANGED <<plan, boundary, done, outcomes, ending, manifest, session, summary, rounds,
                     scenario, runs, failures>>
  BY DEF WriteMetadata, MoveTo, Quiet
<1>2. /\ Writing(boundary) /\ boundary \in Boundaries /\ plan \in Plans
      /\ rounds \in Nat /\ summary \in BOOLEAN
  BY <1>1, AtWork
<1>3. content \in Sidecars
  BY <1>2 DEF Metadata, Sidecars
<1>4. /\ \A b \in Boundaries : b # boundary => files'[b] = files[b]
      /\ files'[boundary].metadata = content
      /\ \A g \in {"raw", "restart", "capture", "metadata"} :
           g # "metadata" => files'[boundary][g] = files[boundary][g]
  <2> HIDE DEF content
  <2>1. QED
    BY <1>1, <1>2, PutIs DEF CollectInv, CollectTypes
<1>5. CollectTypes'
  <2>1. files' \in [Boundaries -> Datasets]
    <3> HIDE DEF content
    <3>1. QED
      BY <1>1, <1>2, <1>3, PutTypes DEF CollectInv, CollectTypes
  <2>2. MoveTo("manifest") /\ "manifest" \in CommandPlaces /\ rounds' \in Nat /\ summary' \in BOOLEAN
    BY <1>1, <1>2 DEF MoveTo, CommandPlaces
  <2>3. QED
    BY <1>1, <2>1, <2>2, MoveTypes DEF CollectInv
<1>6. CommandInv' /\ ListedInv' /\ ManifestInv' /\ LowerInv' /\ CompletedIsWhole'
  <2> HIDE DEF content
  <2>1. place' \in CommandPlaces \ {"none", "boundary"}
    BY <1>1 DEF CommandPlaces
  <2>2. QED
    BY <1>1, <1>2, <1>4, <2>1, AtWork, WorkGoesOn
<1>7. KindInv'
  BY <1>1, <1>2, <1>4 DEF CollectInv, KindInv, Writing, Characterization
<1>8. ProgressInv'
  BY <1>1, <1>2, <1>4 DEF CollectInv, ProgressInv, Writing, File, Count, Characterization,
     Stream, Metadata
<1>9. QED
  BY <1>5, <1>6, <1>7, <1>8 DEF CollectInv

LEMMA ManifestKeeps ==
  ASSUME CollectInv, WriteManifest
  PROVE  CollectInv'
<1>1. /\ place = "manifest" /\ manifest' = ManifestOf(files) /\ place' = "mark"
      /\ UNCHANGED <<plan, boundary, done, outcomes, ending, files, session, summary, rounds,
                     scenario, runs, failures>>
  BY DEF WriteManifest, MoveTo, Quiet
<1>2. /\ Writing(boundary) /\ boundary \in Boundaries /\ files \in [Boundaries -> Datasets]
      /\ rounds \in Nat /\ summary \in BOOLEAN
  BY <1>1, AtWork
<1>3. CollectTypes'
  <2>1. MoveTo("mark") /\ "mark" \in CommandPlaces /\ rounds' \in Nat /\ summary' \in BOOLEAN
    BY <1>1, <1>2 DEF MoveTo, CommandPlaces
  <2>2. files' \in [Boundaries -> Datasets]
    BY <1>1, <1>2
  <2>3. QED
    BY <1>1, <2>1, <2>2, MoveTypes DEF CollectInv
<1>4. CommandInv' /\ ListedInv' /\ ManifestInv' /\ LowerInv' /\ CompletedIsWhole'
  <2>1. place' \in CommandPlaces \ {"none", "boundary"}
    BY <1>1 DEF CommandPlaces
  <2>2. QED
    BY <1>1, <1>2, <2>1, AtWork, WorkGoesOn
<1>5. KindInv'
  BY <1>1, <1>2 DEF CollectInv, KindInv, Writing, Characterization
<1>6. ProgressInv'
  BY <1>1, <1>2 DEF CollectInv, ProgressInv, Writing, File, Count, Characterization, Stream,
     Metadata, ManifestOf
<1>7. QED
  BY <1>3, <1>4, <1>5, <1>6 DEF CollectInv

\* Outside a data set nothing is written.
LEMMA NothingWritten ==
  ASSUME CollectInv, place \in {"none", "boundary"}, place' \in {"none", "boundary"},
         UNCHANGED <<collected, scenario>>
  PROVE  KindInv' /\ ProgressInv' /\ ListedInv' /\ ManifestInv'
<1>1. \A b \in Boundaries : ~Writing(b) /\ ~Writing(b)'
  BY DEF Writing
<1>2. files' = files /\ manifest' = manifest /\ session' = session /\ scenario' = scenario
  BY DEF collected
<1>3. \A b \in Boundaries, p \in Plans : WholeSet(b, p)' <=> WholeSet(b, p)
  BY <1>2, WholeStays
<1>4. KindInv' /\ ProgressInv'
  BY <1>1, <1>2 DEF CollectInv, KindInv, ProgressInv
<1>5. ListedInv'
  <2>1. \A p \in Plans, b \in Boundaries :
          <<p, b>> \in session' /\ Safe(p)' => WholeSet(b, p)' /\ ~Writing(b)'
    BY <1>1, <1>2, <1>3, SafeStays DEF CollectInv, ListedInv
  <2>2. ASSUME scenario.failures = 0, NEW b \in Boundaries, files[b].capture # Absent
        PROVE  WholeSet(b, files[b].capture.plan) /\ files[b].capture.plan \in scenario.plans
    BY <1>1, <2>2 DEF CollectInv, ListedInv
  <2>3. ASSUME scenario'.failures = 0, NEW b \in Boundaries, files'[b].capture # Absent
        PROVE  WholeSet(b, files[b].capture.plan)'
    BY <2>2, <2>3, <1>2 DEF WholeSet, Characterization
  <2>4. ASSUME scenario'.failures = 0, NEW b \in Boundaries, files'[b].capture # Absent
        PROVE  /\ WholeSet(b, files[b].capture.plan)' /\ files'[b] = files[b]
               /\ files[b].capture.plan \in scenario.plans
    BY <2>2, <2>3, <2>4, <1>2
  <2>5. QED
    BY <2>1, <2>4 DEF ListedInv, Plans
<1>6. ManifestInv'
  BY <1>2, SafeStays DEF CollectInv, ManifestInv, Plans
<1>7. QED
  BY <1>4, <1>5, <1>6

LEMMA RunKeeps ==
  ASSUME CollectInv, RunCommand
  PROVE  CollectInv'
<1>1. /\ place = "none" /\ place' = "boundary" /\ plan' \in scenario.plans /\ done' = session
      /\ boundary' = "lower" /\ summary' = FALSE /\ rounds' = 0 /\ outcomes' = NoOutcomes
      /\ ending' = "running" /\ UNCHANGED <<collected, scenario, failures>>
  BY DEF RunCommand
<1>2. files' = files /\ session' = session
  BY <1>1 DEF collected
<1>3. CollectTypes'
  <2>1. plan' \in Plans
    BY <1>1, CollectionAssumption DEF CollectInv, CollectTypes, Plans
  <2>2. QED
    BY <1>1, <1>2, <2>1 DEF CollectInv, CollectTypes, NoOutcomes, Boundaries, CommandPlaces, Plans,
       Datasets, Streams, Cuts, Rows, Sidecars
<1>4. CommandInv' /\ LowerInv' /\ CompletedIsWhole'
  BY <1>1, <1>2 DEF CollectInv, CommandInv, LowerInv, CompletedIsWhole, Plans
<1>5. KindInv' /\ ProgressInv' /\ ListedInv' /\ ManifestInv'
  BY <1>1, NothingWritten
<1>6. QED
  BY <1>3, <1>4, <1>5 DEF CollectInv

LEMMA RefuseKeeps ==
  ASSUME CollectInv, Refuse
  PROVE  CollectInv'
<1>1. /\ place = "boundary" /\ place' = "none" /\ ending' = "conflict" /\ outcomes' = NoOutcomes
      /\ summary' = FALSE /\ rounds' = 0
      /\ UNCHANGED <<collected, plan, boundary, done, scenario, failures>>
  BY DEF Refuse, End
<1>2. files' = files /\ session' = session
  BY <1>1 DEF collected
<1>3. CollectTypes'
  BY <1>1, <1>2 DEF CollectInv, CollectTypes, NoOutcomes, Boundaries, CommandPlaces, Plans,
       Datasets, Streams, Cuts, Rows, Sidecars
<1>4. CommandInv' /\ LowerInv' /\ CompletedIsWhole'
  BY <1>1, <1>2 DEF CollectInv, CommandInv, LowerInv, CompletedIsWhole, Plans
<1>5. KindInv' /\ ProgressInv' /\ ListedInv' /\ ManifestInv'
  BY <1>1, NothingWritten
<1>6. QED
  BY <1>3, <1>4, <1>5 DEF CollectInv

\* A data set that is found complete is listed, and whole unless its plan is confused.
LEMMA CompleteIsWhole ==
  ASSUME CollectInv, place = "boundary", Complete
  PROVE  (~Confused(plan) => WholeSet(boundary, plan)) /\ <<plan, boundary>> \in session
<1>1. boundary \in Boundaries /\ plan \in Plans /\ done = session /\ files[boundary] \in Datasets
  BY DEF CollectInv, CollectTypes, CommandInv
<1>2. <<plan, boundary>> \in session
  BY <1>1 DEF Complete, Hash
<1>3. CASE Safe(plan)
  BY <1>1, <1>2, <1>3 DEF CollectInv, ListedInv
<1>4. CASE ~Safe(plan) /\ ~Confused(plan)
  <2>1. Characterization(plan) /\ ~(scenario.failures > 0) /\ scenario.failures \in Nat
    BY <1>4, CollectionAssumption DEF Safe, CollectInv, CollectTypes
  <2>2. scenario.failures = 0
    BY <2>1
  <2>3. files[boundary].capture.state = "samples" /\ files[boundary].capture.length = Samples[plan]
    BY <2>1 DEF Complete, Here
  <2> DEFINE q == files[boundary].capture.plan
  <2>4. files[boundary].capture # Absent
    BY <2>3 DEF Absent
  <2>5. q \in Plans
    BY <1>1, <2>4 DEF Datasets, Streams
  <2>6. WholeSet(boundary, q) /\ q \in scenario.plans
    BY <1>1, <2>2, <2>4 DEF CollectInv, ListedInv, Writing
  <2>7. Characterization(q)
    BY <2>4, <2>6 DEF WholeSet
  <2>8. files[boundary].capture.length = Samples[q]
    BY <2>6, <2>7 DEF WholeSet
  <2>9. q = plan
    BY <1>4, <2>1, <2>3, <2>6, <2>7, <2>8 DEF Confused
  <2>10. QED
    BY <1>2, <2>6, <2>9
<1>5. QED
  BY <1>2, <1>3, <1>4

LEMMA SkipKeeps ==
  ASSUME CollectInv, Skip
  PROVE  CollectInv'
<1> DEFINE settled == [state |-> "settled", skipped |-> TRUE,
                       submission |-> ~Characterization(plan), trip_free |-> "unknown"]
<1>1. /\ place = "boundary" /\ Complete /\ outcomes' = [outcomes EXCEPT ![boundary] = settled]
      /\ UNCHANGED <<collected, plan, done, summary, rounds, scenario, failures>>
      /\ \/ boundary = "lower" /\ boundary' = "upper" /\ place' = "boundary" /\ ending' = ending
         \/ boundary # "lower" /\ boundary' = boundary /\ place' = "none" /\ ending' = "ok"
  BY DEF Skip, Settle
<1>2. /\ files' = files /\ manifest' = manifest /\ session' = session
      /\ ~Confused(plan) => WholeSet(boundary, plan)
      /\ <<plan, boundary>> \in session
  BY <1>1, CompleteIsWhole DEF collected
<1>3. /\ boundary \in Boundaries /\ plan \in Plans /\ ending = "running" /\ done = session
      /\ outcomes \in [Boundaries -> {[state |-> "none"]} \cup Settlements] /\ settled \in Settlements
      /\ plan \in scenario.plans
  BY <1>1 DEF CollectInv, CollectTypes, CommandInv, Settlements
<1>4. /\ outcomes' \in [Boundaries -> {[state |-> "none"]} \cup Settlements]
      /\ outcomes'[boundary] = settled /\ \A b \in Boundaries : b # boundary => outcomes'[b] = outcomes[b]
  <2> HIDE DEF settled
  <2>1. QED
    BY <1>1, <1>3
<1>5. CollectTypes'
  <2> HIDE DEF settled
  <2>1. boundary' \in Boundaries /\ place' \in CommandPlaces
         /\ ending' \in {"none", "running", "ok", "failed", "conflict"}
    BY <1>1, <1>3 DEF Boundaries, CommandPlaces
  <2>2. QED
    BY <1>1, <1>2, <1>4, <2>1 DEF CollectInv, CollectTypes, Plans, Datasets, Streams, Cuts, Rows,
       Sidecars, Settlements
<1>6. CommandInv'
  <2> HIDE DEF settled
  <2>1. QED
    BY <1>1, <1>2, <1>3 DEF CollectInv, CommandInv, Plans
<1>7. KindInv' /\ ProgressInv' /\ ListedInv' /\ ManifestInv'
  BY <1>1, NothingWritten
<1>8. /\ \A b \in Boundaries : WholeSet(b, plan)' <=> WholeSet(b, plan)
      /\ Confused(plan)' <=> Confused(plan)
  BY <1>1, <1>2 DEF WholeSet, Confused, Characterization
<1>9. CASE boundary = "lower"
  <2>1. boundary' = "upper" /\ place' = "boundary" /\ ending' = "running" /\ outcomes'["lower"] = settled
    BY <1>1, <1>3, <1>4, <1>9
  <2>2. LowerInv'
    BY <1>1, <1>2, <1>3, <1>8, <1>9, <2>1 DEF LowerInv
  <2>3. CompletedIsWhole'
    BY <2>1 DEF CompletedIsWhole
  <2>4. QED
    BY <1>5, <1>6, <1>7, <2>2, <2>3 DEF CollectInv
<1>10. CASE boundary = "upper"
  <2>1. /\ place' = "none" /\ ending' = "ok" /\ outcomes'["upper"] = settled
        /\ outcomes'["lower"] = outcomes["lower"] /\ outcomes'["upper"].skipped
    BY <1>1, <1>4, <1>10 DEF Boundaries
  <2>2. LowerInv'
    BY <2>1 DEF LowerInv
  <2>3. /\ ~(outcomes["lower"].skipped /\ Confused(plan)) => WholeSet("lower", plan)
        /\ ~Confused(plan) => WholeSet("upper", plan)
    BY <1>1, <1>2, <1>10 DEF CollectInv, LowerInv
  <2>4. ASSUME ~(outcomes["lower"].skipped /\ Confused(plan))
        PROVE  manifest = ManifestOf(files)
    <3>1. CASE manifest = ManifestOf(files)
      BY <3>1
    <3>2. CASE manifest # ManifestOf(files)
      <4>1. <<plan, "lower">> \in session /\ <<plan, "upper">> \in session /\ ~Confused(plan)
        BY <1>1, <1>2, <1>10, <2>4, <3>2 DEF CollectInv, LowerInv
      <4>2. CASE scenario.failures > 0
        BY <1>3, <4>1, <4>2 DEF CollectInv, ManifestInv, Boundaries, Safe
      <4>3. CASE ~(scenario.failures > 0)
        <5>1. scenario.failures = 0
          BY <4>3, CollectionAssumption DEF CollectInv, CollectTypes
        <5>2. files["upper"] # NoDataset
          BY <2>3, <4>1 DEF WholeSet, NoDataset, Absent
        <5>3. QED
          BY <1>1, <3>2, <5>1, <5>2 DEF CollectInv, ManifestInv, Boundaries
      <4>4. QED
        BY <4>2, <4>3
    <3>3. QED
      BY <3>1, <3>2
  <2>5. CompletedIsWhole'
    <3>1. ASSUME NEW b \in Boundaries, ~(outcomes'[b].skipped /\ Confused(plan)')
          PROVE  /\ WholeSet(b, plan)'
                 /\ manifest'.state = "whole" /\ manifest'.of[b] = files'[b]
                 /\ Characterization(plan') /\ ~outcomes'[b].skipped =>
                      (outcomes'[b].trip_free = "yes" <=> ~files'[b].capture.tripped)
      <4>1. /\ b = "lower" => ~(outcomes["lower"].skipped /\ Confused(plan))
            /\ b = "upper" => ~Confused(plan)
        BY <1>8, <2>1, <3>1
      <4>2. WholeSet(b, plan)'
        BY <1>8, <2>3, <4>1 DEF Boundaries
      <4>3. manifest'.state = "whole" /\ manifest'.of[b] = files'[b]
        BY <1>2, <2>4, <4>1 DEF ManifestOf, Boundaries
      <4>4. b = "upper" => outcomes'[b].skipped
        BY <2>1
      <4>5. b = "lower" => (Characterization(plan') /\ ~outcomes'[b].skipped =>
                      (outcomes'[b].trip_free = "yes" <=> ~files'[b].capture.tripped))
        BY <1>1, <1>2, <1>10, <2>1 DEF CollectInv, LowerInv, Characterization
      <4>6. QED
        BY <4>2, <4>3, <4>4, <4>5 DEF Boundaries
    <3>2. QED
      BY <3>1 DEF CompletedIsWhole, Boundaries, Characterization, Confused
  <2>6. QED
    BY <1>5, <1>6, <1>7, <2>2, <2>5 DEF CollectInv
<1>11. QED
  BY <1>3, <1>9, <1>10 DEF Boundaries

LEMMA CreateKeeps ==
  ASSUME CollectInv, Create
  PROVE  CollectInv'
<1> DEFINE content == Stream(plan, 0, FALSE)
<1>1. /\ place = "boundary" /\ ~Complete /\ ~Conflict /\ Put(File, content) /\ place' = "stream"
      /\ UNCHANGED <<plan, boundary, done, outcomes, ending, manifest, session, summary, rounds,
                     scenario, runs, failures>>
  BY DEF Create, MoveTo, Quiet
<1>2. /\ boundary \in Boundaries /\ plan \in Plans /\ done = session /\ plan \in scenario.plans
      /\ files \in [Boundaries -> Datasets] /\ files[boundary] \in Datasets /\ rounds \in Nat
      /\ summary \in BOOLEAN /\ scenario \in Scenarios
  BY <1>1 DEF CollectInv, CollectTypes, CommandInv
<1>3. File \in {"raw", "capture"} /\ content \in Streams
  BY <1>2 DEF File, Stream, Streams
<1>4. /\ \A b \in Boundaries : b # boundary => files'[b] = files[b]
      /\ files'[boundary][File] = content
      /\ \A g \in {"raw", "restart", "capture", "metadata"} :
           g # File => files'[boundary][g] = files[boundary][g]
  <2> HIDE DEF content
  <2>1. QED
    BY <1>1, <1>2, <1>3, PutIs
\* What is listed and safe is not written over.
<1>5. ASSUME NEW p \in Plans, <<p, boundary>> \in session, Safe(p)
      PROVE  FALSE
  <2>1. WholeSet(boundary, p) /\ p \in scenario.plans
    BY <1>2, <1>5 DEF CollectInv, ListedInv, CommandInv
  <2>2. CASE Characterization(p)
    <3>1. files[boundary].capture.state = "samples" /\ files[boundary].capture.length = Samples[p]
      BY <2>1, <2>2 DEF WholeSet
    <3>2. Characterization(plan)
      BY <1>1, <3>1 DEF Conflict, Here, Absent
    <3>3. p = plan
      BY <1>2, <1>5, <2>1, <2>2, <3>2 DEF Safe, Confused
    <3>4. QED
      BY <1>1, <1>2, <1>5, <3>1, <3>3 DEF Complete, Hash, Here
  <2>3. CASE ~Characterization(p)
    <3>1. files[boundary].raw.state = "samples"
      BY <2>1, <2>3 DEF WholeSet
    <3>2. ~Characterization(plan)
      BY <1>1, <3>1 DEF Conflict, Here, Absent
    <3>3. Samples[p] = 0 /\ Samples[plan] = 0
      <4>1. Samples[p] \in Nat /\ Samples[plan] \in Nat
        BY <1>2, CollectionAssumption DEF Plans
      <4>2. QED
        BY <2>3, <3>2, <4>1 DEF Characterization
    <3>4. p = plan
      BY <1>2, <1>5, <2>1, <2>3, <3>2, <3>3 DEF Safe, Confused
    <3>5. QED
      BY <1>1, <1>2, <1>5, <3>2, <3>4 DEF Complete, Hash
  <2>4. QED
    BY <2>2, <2>3
<1>6. CollectTypes'
  <2>1. files' \in [Boundaries -> Datasets]
    <3> HIDE DEF content
    <3>1. QED
      BY <1>1, <1>2, <1>3, PutTypes
  <2>2. MoveTo("stream") /\ "stream" \in CommandPlaces /\ rounds' \in Nat /\ summary' \in BOOLEAN
    BY <1>1, <1>2 DEF MoveTo, CommandPlaces
  <2>3. QED
    BY <1>1, <2>1, <2>2, MoveTypes DEF CollectInv
<1>7. CommandInv' /\ ListedInv' /\ ManifestInv' /\ LowerInv' /\ CompletedIsWhole'
  <2> HIDE DEF content
  <2>1. place' \in CommandPlaces \ {"none", "boundary"}
    BY <1>1 DEF CommandPlaces
  <2>2. QED
    BY <1>1, <1>4, <1>5, <2>1, WorkGoesOn
<1>8. KindInv'
  <2>1. IF Characterization(plan) THEN files[boundary].raw = Absent /\ files[boundary].restart = Absent
        ELSE files[boundary].capture = Absent
    BY <1>1 DEF Conflict, Here
  <2>2. QED
    BY <1>1, <1>2, <1>3, <1>4, <2>1 DEF CollectInv, KindInv, Writing, File, Characterization
<1>9. ProgressInv'
  BY <1>1, <1>2, <1>4 DEF ProgressInv, Writing, File, Count, Characterization, Stream
<1>10. QED
  BY <1>6, <1>7, <1>8, <1>9 DEF CollectInv

\* When the checkpoint is written the data set is whole.
LEMMA WholeNow ==
  ASSUME CollectInv, place = "mark"
  PROVE  /\ WholeSet(boundary, plan) /\ manifest = ManifestOf(files)
         /\ files[boundary][File].tripped = summary
         /\ ~Characterization(plan) => files[boundary].capture = Absent
<1>1. Writing(boundary) /\ boundary \in Boundaries /\ plan \in Plans /\ Samples[plan] \in Nat
  BY AtWork
<1>2. /\ files[boundary][File] = Stream(plan, Count, summary) /\ manifest = ManifestOf(files)
      /\ files[boundary].metadata = Metadata(plan, summary, rounds)
      /\ ~Characterization(plan) => files[boundary].restart = Restarts(plan, Rounds) /\ rounds = Rounds
  BY <1>1 DEF CollectInv, ProgressInv
<1>3. IF Characterization(plan) THEN files[boundary].raw = Absent /\ files[boundary].restart = Absent
      ELSE files[boundary].capture = Absent
  BY <1>1 DEF CollectInv, KindInv
<1>4. CASE Characterization(plan)
  BY <1>2, <1>3, <1>4 DEF WholeSet, File, Count, Stream, Metadata
<1>5. CASE ~Characterization(plan)
  BY <1>2, <1>3, <1>5 DEF WholeSet, File, Count, Stream, Metadata
<1>6. QED
  BY <1>4, <1>5

\* What is listed once the data set in hand is marked.
LEMMA MarkedIs ==
  ASSUME CollectInv, place = "mark", done = session
  PROVE  /\ Marked \subseteq session \cup {<<plan, boundary>>}
         /\ session \subseteq Marked
         /\ Marked \subseteq Plans \X Boundaries
         /\ \A p \in Plans, b \in Boundaries : <<p, b>> \in Marked =>
              <<p, b>> \in session \/ (p = plan /\ b = boundary)
         /\ \A p \in Plans, b \in Boundaries : <<p, b>> \in Marked => p \in scenario.plans
<1>1. boundary \in Boundaries /\ plan \in Plans /\ plan \in scenario.plans /\ session \subseteq Plans \X Boundaries
  BY DEF CollectInv, CollectTypes, CommandInv
<1>2. QED
  BY <1>1 DEF Marked, Hash, CollectInv, CommandInv

LEMMA MarkKeeps ==
  ASSUME CollectInv, MarkDone
  PROVE  CollectInv'
<1> DEFINE settled == [state |-> "settled", skipped |-> FALSE,
                       submission |-> ~Characterization(plan) /\ ~summary,
                       trip_free |-> IF summary THEN "no" ELSE "yes"]
<1>1. /\ place = "mark" /\ done' = Marked /\ rounds' = 0 /\ summary' = FALSE
      /\ session' = IF Characterization(plan) /\ summary THEN session ELSE Marked
      /\ outcomes' = [outcomes EXCEPT ![boundary] = settled]
      /\ UNCHANGED <<files, manifest, plan, scenario, failures>>
      /\ \/ boundary = "lower" /\ boundary' = "upper" /\ place' = "boundary" /\ ending' = ending
         \/ boundary # "lower" /\ boundary' = boundary /\ place' = "none" /\ ending' = "ok"
  BY DEF MarkDone, Settle
<1>2. /\ boundary \in Boundaries /\ plan \in Plans /\ ending = "running" /\ done = session
      /\ outcomes \in [Boundaries -> {[state |-> "none"]} \cup Settlements] /\ settled \in Settlements
      /\ plan \in scenario.plans /\ summary \in BOOLEAN
  BY <1>1 DEF CollectInv, CollectTypes, CommandInv, Settlements
<1>3. /\ WholeSet(boundary, plan) /\ manifest = ManifestOf(files)
      /\ files[boundary][File].tripped = summary
      /\ ~Characterization(plan) => files[boundary].capture = Absent
  BY <1>1, WholeNow
<1>4. session' = Marked /\ done' = session'
  BY <1>1, <1>2 DEF Marked
<1>5. /\ outcomes' \in [Boundaries -> {[state |-> "none"]} \cup Settlements]
      /\ outcomes'[boundary] = settled /\ \A b \in Boundaries : b # boundary => outcomes'[b] = outcomes[b]
  <2> HIDE DEF settled
  <2>1. QED
    BY <1>1, <1>2
<1> HIDE DEF settled
<1>6. CollectTypes'
  <2>1. boundary' \in Boundaries /\ place' \in CommandPlaces
         /\ ending' \in {"none", "running", "ok", "failed", "conflict"}
    BY <1>1, <1>2 DEF Boundaries, CommandPlaces
  <2>2. session' \subseteq Plans \X Boundaries /\ rounds' \in Nat /\ summary' \in BOOLEAN
    BY <1>1, <1>2, <1>4, MarkedIs
  <2>3. QED
    BY <1>1, <1>5, <2>1, <2>2 DEF CollectInv, CollectTypes, Plans, Datasets, Streams, Cuts, Rows,
       Sidecars, Settlements
<1>7. CommandInv'
  <2>1. \A p \in Plans, b \in Boundaries : <<p, b>> \in session' => p \in scenario'.plans
    BY <1>1, <1>2, <1>4, MarkedIs
  <2>2. QED
    BY <1>1, <1>2, <1>4, <2>1 DEF CommandInv, Plans
<1>8. \A b \in Boundaries : ~Writing(b)'
  BY <1>1 DEF Writing
<1>9. \A b \in Boundaries, p \in Plans : WholeSet(b, p)' <=> WholeSet(b, p)
  BY <1>1, WholeStays
<1>10. KindInv' /\ ProgressInv'
  BY <1>1, <1>8 DEF CollectInv, KindInv, ProgressInv
<1>11. ListedInv'
  <2>1. ASSUME NEW p \in Plans, NEW b \in Boundaries, <<p, b>> \in session', Safe(p)'
        PROVE  WholeSet(b, p)'
    <3>1. Safe(p)
      BY <1>1, <2>1, SafeStays
    <3>2. CASE <<p, b>> \in session
      BY <1>9, <3>1, <3>2 DEF CollectInv, ListedInv
    <3>3. CASE p = plan /\ b = boundary
      BY <1>3, <1>9, <3>3, <1>2
    <3>4. QED
      BY <1>1, <1>2, <1>4, <2>1, <3>2, <3>3, MarkedIs
  <2>2. ASSUME scenario'.failures = 0, NEW b \in Boundaries, files'[b].capture # Absent
        PROVE  /\ WholeSet(b, files[b].capture.plan)' /\ files'[b] = files[b]
               /\ files[b].capture.plan \in scenario.plans
    <3>1. files'[b] = files[b]
      BY <1>1
    <3>2. CASE b = boundary
      <4>1. Characterization(plan)
        BY <1>3, <2>2, <3>1, <3>2
      <4>2. files[b].capture.plan = plan
        BY <1>3, <3>2, <4>1 DEF WholeSet
      <4>3. WholeSet(b, files[b].capture.plan)
        BY <1>3, <3>2, <4>2
      <4>4. WholeSet(b, files[b].capture.plan)'
        BY <1>1, <3>1, <4>3 DEF WholeSet, Characterization
      <4>5. QED
        BY <1>2, <3>1, <4>2, <4>4
    <3>3. CASE b # boundary
      <4>1. WholeSet(b, files[b].capture.plan) /\ files[b].capture.plan \in scenario.plans
        BY <1>1, <2>2, <3>1, <3>3 DEF CollectInv, ListedInv, Writing
      <4>2. WholeSet(b, files[b].capture.plan)'
        BY <1>1, <3>1, <4>1 DEF WholeSet, Characterization
      <4>3. QED
        BY <3>1, <4>1, <4>2
    <3>4. QED
      BY <3>2, <3>3
  <2>3. QED
    BY <1>1, <1>8, <2>1, <2>2 DEF ListedInv, Plans
<1>12. ManifestInv'
  BY <1>1, <1>3 DEF ManifestInv, ManifestOf
<1>13. Confused(plan)' <=> Confused(plan)
  BY <1>1 DEF Confused, Characterization
<1>14. Characterization(plan) => (settled.trip_free = "yes" <=> ~files[boundary].capture.tripped)
  BY <1>2, <1>3 DEF settled, File
<1>15. CASE boundary = "lower"
  <2>1. boundary' = "upper" /\ place' = "boundary" /\ ending' = "running" /\ outcomes'["lower"] = settled
    BY <1>1, <1>2, <1>5, <1>15
  <2>2. LowerInv'
    BY <1>1, <1>2, <1>3, <1>9, <1>14, <1>15, <2>1 DEF LowerInv, Characterization, ManifestOf
  <2>3. CompletedIsWhole'
    BY <2>1 DEF CompletedIsWhole
  <2>4. QED
    BY <1>6, <1>7, <1>10, <1>11, <1>12, <2>2, <2>3 DEF CollectInv
<1>16. CASE boundary = "upper"
  <2>1. /\ place' = "none" /\ ending' = "ok" /\ outcomes'["upper"] = settled
        /\ outcomes'["lower"] = outcomes["lower"]
    BY <1>1, <1>5, <1>16 DEF Boundaries
  <2>2. LowerInv'
    BY <2>1 DEF LowerInv
  <2>3. /\ ~(outcomes["lower"].skipped /\ Confused(plan)) => WholeSet("lower", plan)
        /\ WholeSet("upper", plan)
    BY <1>1, <1>3, <1>16 DEF CollectInv, LowerInv
  <2>4. CompletedIsWhole'
    <3>1. ASSUME NEW b \in Boundaries, ~(outcomes'[b].skipped /\ Confused(plan)')
          PROVE  /\ WholeSet(b, plan)'
                 /\ manifest'.state = "whole" /\ manifest'.of[b] = files'[b]
                 /\ Characterization(plan') /\ ~outcomes'[b].skipped =>
                      (outcomes'[b].trip_free = "yes" <=> ~files'[b].capture.tripped)
      <4>1. WholeSet(b, plan)'
        <5>1. WholeSet(b, plan)
          BY <1>13, <2>1, <2>3, <3>1 DEF Boundaries
        <5>2. QED
          BY <1>1, <5>1 DEF WholeSet, Characterization
      <4>2. manifest'.state = "whole" /\ manifest'.of[b] = files'[b]
        BY <1>1, <1>3 DEF ManifestOf
      <4>3. b = "upper" => (Characterization(plan') /\ ~outcomes'[b].skipped =>
                      (outcomes'[b].trip_free = "yes" <=> ~files'[b].capture.tripped))
        BY <1>1, <1>14, <1>16, <2>1 DEF Characterization
      <4>4. b = "lower" => (Characterization(plan') /\ ~outcomes'[b].skipped =>
                      (outcomes'[b].trip_free = "yes" <=> ~files'[b].capture.tripped))
        BY <1>1, <1>16, <2>1 DEF CollectInv, LowerInv, Characterization
      <4>5. QED
        BY <4>1, <4>2, <4>3, <4>4 DEF Boundaries
    <3>2. QED
      BY <3>1 DEF CompletedIsWhole, Boundaries, Characterization, Confused
  <2>5. QED
    BY <1>6, <1>7, <1>10, <1>11, <1>12, <2>2, <2>4 DEF CollectInv
<1>17. QED
  BY <1>2, <1>15, <1>16 DEF Boundaries

\* What a failure leaves: no file of a data set that is not in hand is touched, and none but
\* by a write.
LEMMA LeavesIs ==
  ASSUME CollectInv, Leaves
  PROVE  /\ files' \in [Boundaries -> Datasets]
         /\ \A b \in Boundaries : b # boundary => files'[b] = files[b]
         /\ place \in {"none", "boundary"} => files' = files /\ manifest' = manifest
         /\ place = "mark" => files' = files /\ manifest' = manifest
         /\ \A b \in Boundaries :
              files'[b].raw # Absent \/ files'[b].restart # Absent => files'[b].capture = Absent
         /\ session' = session \/ session' = {} \/ (place = "mark" /\ session' = Marked)
<1>1. files \in [Boundaries -> Datasets] /\ boundary \in Boundaries /\ plan \in Plans /\ Samples[plan] \in Nat
  BY CollectionAssumption DEF CollectInv, CollectTypes, Plans
<1>2. CASE files' = files /\ (manifest' = manifest \/ place = "manifest")
           /\ (session' = session \/ session' = {} \/ (place = "mark" /\ session' = Marked))
  BY <1>1, <1>2 DEF CollectInv, KindInv
<1>3. CASE /\ place = "stream" /\ UNCHANGED <<manifest, session>>
           /\ \E n \in 0 .. Count - 1, tripped \in BOOLEAN : Put(File, Stream(plan, n, tripped))
  <2>1. PICK n \in 0 .. Count - 1, tripped \in BOOLEAN : Put(File, Stream(plan, n, tripped))
    BY <1>3
  <2>2. n \in Nat /\ Writing(boundary)
    BY <1>1, <1>3, AtWork DEF Count
  <2> DEFINE content == Stream(plan, n, tripped)
  <2>3. content \in Streams /\ File \in {"raw", "capture"}
    BY <1>1, <2>2 DEF Stream, Streams, File
  <2>4. Put(File, content)
    BY <2>1
  <2> HIDE DEF content
  <2>5. files' \in [Boundaries -> Datasets]
    BY <1>1, <2>3, <2>4, PutTypes
  <2>6. /\ \A b \in Boundaries : b # boundary => files'[b] = files[b]
        /\ \A g \in {"raw", "restart", "capture", "metadata"} :
             g # File => files'[boundary][g] = files[boundary][g]
    BY <1>1, <2>3, <2>4, PutIs
  <2>7. files'[boundary].raw # Absent \/ files'[boundary].restart # Absent =>
          files'[boundary].capture = Absent
    BY <1>1, <2>2, <2>6 DEF CollectInv, KindInv, File
  <2>8. QED
    BY <1>1, <1>3, <2>5, <2>6, <2>7 DEF CollectInv, KindInv
<1>4. CASE place = "round" /\ Put("restart", Cut(plan)) /\ UNCHANGED <<manifest, session>>
  <2>1. Cut(plan) \in Cuts /\ Writing(boundary) /\ ~Characterization(plan)
    BY <1>1, <1>4, AtWork DEF Cut, Cuts, CollectInv, ProgressInv
  <2>2. files' \in [Boundaries -> Datasets]
    BY <1>1, <1>4, <2>1, PutTypes
  <2>3. /\ \A b \in Boundaries : b # boundary => files'[b] = files[b]
        /\ files'[boundary].capture = files[boundary].capture
    BY <1>1, <1>4, PutIs
  <2>4. files[boundary].capture = Absent
    BY <1>1, <2>1 DEF CollectInv, KindInv
  <2>5. QED
    BY <1>1, <1>4, <2>2, <2>3, <2>4 DEF CollectInv, KindInv
<1>5. CASE place = "metadata" /\ Put("metadata", Cut(plan)) /\ UNCHANGED <<manifest, session>>
  <2>1. Cut(plan) \in Cuts
    BY <1>1 DEF Cut, Cuts
  <2>2. files' \in [Boundaries -> Datasets]
    BY <1>1, <1>5, <2>1, PutTypes
  <2>3. /\ \A b \in Boundaries : b # boundary => files'[b] = files[b]
        /\ files'[boundary].capture = files[boundary].capture
        /\ files'[boundary].raw = files[boundary].raw
        /\ files'[boundary].restart = files[boundary].restart
    BY <1>1, <1>5, PutIs
  <2>4. QED
    BY <1>1, <1>5, <2>2, <2>3 DEF CollectInv, KindInv
<1>6. QED
  BY <1>2, <1>3, <1>4, <1>5 DEF Leaves, collected

LEMMA FailKeeps ==
  ASSUME CollectInv, Fail
  PROVE  CollectInv'
<1>1. /\ place # "none" /\ failures > 0 /\ failures' = failures - 1 /\ Leaves
      /\ place' = "none" /\ ending' = "failed" /\ summary' = FALSE /\ rounds' = 0
      /\ outcomes' = NoOutcomes /\ UNCHANGED <<plan, boundary, scenario>>
  BY DEF Fail, End
<1>2. /\ boundary \in Boundaries /\ plan \in Plans /\ done = session /\ plan \in scenario.plans
      /\ session \subseteq Plans \X Boundaries
  BY <1>1 DEF CollectInv, CollectTypes, CommandInv
<1>3. scenario.failures > 0 /\ scenario.failures \in Nat /\ failures' \in 0 .. scenario.failures
  BY <1>1, CollectionAssumption DEF CollectInv, CollectTypes
<1>4. \A p \in Plans : Safe(p)' <=> Safe(p)
  BY <1>1, SafeStays
<1>5. /\ files' \in [Boundaries -> Datasets]
      /\ \A b \in Boundaries : b # boundary => files'[b] = files[b]
      /\ place \in {"none", "boundary"} => files' = files /\ manifest' = manifest
      /\ place = "mark" => files' = files /\ manifest' = manifest
      /\ \A b \in Boundaries :
           files'[b].raw # Absent \/ files'[b].restart # Absent => files'[b].capture = Absent
      /\ session' = session \/ session' = {} \/ (place = "mark" /\ session' = Marked)
  BY <1>1, LeavesIs
<1>6. \A b \in Boundaries : ~Writing(b)'
  BY <1>1 DEF Writing
\* What is listed already was not in hand.
<1>7. ASSUME NEW p \in Plans, NEW b \in Boundaries, <<p, b>> \in session, Safe(p)
      PROVE  /\ files'[b] = files[b] /\ WholeSet(b, p)
             /\ b = boundary => place \in {"none", "boundary"}
  <2>1. WholeSet(b, p) /\ ~Writing(b)
    BY <1>7 DEF CollectInv, ListedInv
  <2>2. QED
    BY <1>5, <2>1 DEF Writing
<1>8. CollectTypes'
  <2>1. session' \subseteq Plans \X Boundaries
    BY <1>2, <1>5, MarkedIs
  <2>2. QED
    BY <1>1, <1>3, <1>5, <2>1 DEF CollectInv, CollectTypes, NoOutcomes, Boundaries,
       CommandPlaces, Plans,
       Datasets, Streams, Cuts, Rows, Sidecars
<1>9. CommandInv'
  <2>1. \A p \in Plans, b \in Boundaries : <<p, b>> \in session' => p \in scenario.plans
    BY <1>2, <1>5, MarkedIs DEF CollectInv, CommandInv
  <2>2. QED
    BY <1>1, <2>1 DEF CommandInv, Plans
<1>10. KindInv' /\ ProgressInv'
  BY <1>5, <1>6 DEF KindInv, ProgressInv
<1>11. ASSUME NEW p \in Plans, NEW b \in Boundaries, <<p, b>> \in session', Safe(p)
       PROVE  WholeSet(b, p)'
  <2>1. CASE <<p, b>> \in session
    BY <1>7, <1>11, <2>1, WholeStays
  <2>2. CASE <<p, b>> \notin session
    <3>1. place = "mark" /\ files' = files
      BY <1>5, <1>11, <2>2
    <3>2. p = plan /\ b = boundary
      BY <1>2, <1>5, <1>11, <2>2, MarkedIs
    <3>3. QED
      BY <3>1, <3>2, <1>2, WholeNow, WholeStays
  <2>3. QED
    BY <2>1, <2>2
<1>12. ListedInv'
  BY <1>1, <1>3, <1>4, <1>6, <1>11 DEF ListedInv, Plans
<1>13. ManifestInv'
  <2>1. ASSUME NEW p \in Plans, Safe(p), \A b \in Boundaries : <<p, b>> \in session'
        PROVE  manifest' = ManifestOf(files')
    <3>1. CASE place = "mark"
      BY <1>5, <3>1, WholeNow
    <3>2. CASE place # "mark"
      <4>1. \A b \in Boundaries : <<p, b>> \in session
        BY <1>5, <2>1, <3>2, <1>2
      <4>2. files' = files /\ manifest' = manifest
        BY <1>2, <1>5, <1>7, <2>1, <4>1
      <4>3. manifest = ManifestOf(files)
        BY <1>3, <2>1, <4>1 DEF CollectInv, ManifestInv
      <4>4. QED
        BY <4>2, <4>3
    <3>3. QED
      BY <3>1, <3>2
  <2>2. QED
    BY <1>1, <1>3, <1>4, <2>1 DEF ManifestInv, Plans, ManifestOf
<1>14. LowerInv' /\ CompletedIsWhole'
  BY <1>1 DEF LowerInv, CompletedIsWhole
<1>15. QED
  BY <1>8, <1>9, <1>10, <1>12, <1>13, <1>14 DEF CollectInv

LEMMA CollectBegins == CollectInit => CollectInv
<1> SUFFICES ASSUME CollectInit
             PROVE  CollectInv
  OBVIOUS
<1>1. plan \in Plans /\ scenario \in Scenarios /\ failures \in 0 .. scenario.failures
  BY CollectionAssumption DEF CollectInit, Plans
<1>2. NoDataset \in Datasets
  BY DEF NoDataset, Datasets, Absent
<1>3. CollectTypes
  BY <1>1, <1>2 DEF CollectInit, CollectTypes, Boundaries, CommandPlaces, NoOutcomes
<1>4. \A b \in Boundaries : files[b] = NoDataset
  BY DEF CollectInit
<1>5. CommandInv /\ KindInv /\ ProgressInv /\ ListedInv /\ LowerInv /\ CompletedIsWhole
  BY <1>4 DEF CollectInit, CommandInv, KindInv, ProgressInv, ListedInv, LowerInv, CompletedIsWhole,
     Writing, NoDataset
<1>6. ManifestInv
  <2>1. files = [b \in Boundaries |-> NoDataset] /\ session = {}
    BY DEF CollectInit
  <2>2. "lower" \in Boundaries
    BY DEF Boundaries
  <2>3. QED
    BY <2>1, <2>2 DEF ManifestInv
<1>7. QED
  BY <1>3, <1>5, <1>6 DEF CollectInv

LEMMA CollectStep ==
  ASSUME CollectInv, [CollectNext]_collectVars
  PROVE  CollectInv'
<1>1. ASSUME UNCHANGED collectVars
      PROVE  CollectInv'
  <2>1. UNCHANGED <<files, manifest, session, place, plan, boundary, done, summary, rounds,
                    outcomes,
                    ending, scenario, failures>>
    BY <1>1 DEF collectVars, collected, collecting
  <2>2. CollectTypes' /\ CommandInv' /\ KindInv'
    BY <2>1 DEF CollectInv, CollectTypes, CommandInv, KindInv, Writing
  <2>3. ProgressInv'
    BY <2>1 DEF CollectInv, ProgressInv, Writing, File, Count, Characterization
  <2>4. ListedInv'
    BY <2>1 DEF CollectInv, ListedInv, Writing, Safe, Confused, WholeSet, Characterization, Plans
  <2>5. ManifestInv'
    BY <2>1, SafeStays DEF CollectInv, ManifestInv, Plans
  <2>6. LowerInv'
    BY <2>1 DEF CollectInv, LowerInv, Confused, WholeSet, Characterization
  <2>7. CompletedIsWhole'
    BY <2>1 DEF CollectInv, CompletedIsWhole, Confused, WholeSet, Characterization
  <2>8. QED
    BY <2>2, <2>3, <2>4, <2>5, <2>6, <2>7 DEF CollectInv
<1>2. QED
  BY <1>1, RunKeeps, SkipKeeps, RefuseKeeps, CreateKeeps, StreamKeeps, RestartFileKeeps, RoundKeeps,
     MetadataKeeps, ManifestKeeps, MarkKeeps, FailKeeps DEF CollectNext

\* A command that ends well leaves whole data sets of its plan, as the manifest has them, for
\* any plans, any number of runs and restart rounds, and any failures and deaths; but for a
\* boundary it skipped while another plan shares the files and what it left can pass for
\* this one's (collection.rs collect_oe, collect_one_boundary).
THEOREM CollectionsAreWhole == CollectSpec => []CompletedIsWhole
<1>1. CollectInv /\ [CollectNext]_collectVars => CollectInv'
  BY CollectStep
<1>2. CollectInv => CompletedIsWhole
  BY DEF CollectInv
<1>3. QED
  BY <1>1, <1>2, CollectBegins, PTL DEF CollectSpec
=============================================================================
