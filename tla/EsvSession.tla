----------------------------- MODULE EsvSession -----------------------------
(***************************************************************************)
(* SessionDir of esv-harness: the append-only event log that makes an      *)
(* entropy-source submission resumable.  Before anything is sent to the    *)
(* server an intent is appended, afterwards its outcome, and each append   *)
(* is synced; the log is replayed when the harness starts again.           *)
(*                                                                         *)
(* The model has the file as the operating system shows it, what of it is  *)
(* on the disk, and the entry that names it in its directory, which is on  *)
(* the disk only once the directory is synced.  The process may die at any *)
(* step, the power may go, and a call to the file system may fail.         *)
(***************************************************************************)
EXTENDS Integers, Sequences, FiniteSets

CONSTANTS
  Ops,       \* what a submission asks of the server
  Target,    \* [Ops -> targets]: what an outcome names of the operation
  Capture,   \* the outcome of capturing an assessment, which has no intent
  Regimes,   \* the kinds of fault that strike together, of "crash", "power" and "io"
  MaxFaults, \* bound: how many
  MaxCalls   \* bound: operations begun, captures included

ASSUME SessionAssumption ==
  /\ Capture \notin {Target[op] : op \in Ops}
  /\ \A kinds \in Regimes : kinds \subseteq {"crash", "power", "io"}
  /\ MaxFaults \in Nat /\ MaxCalls \in Nat

VARIABLES
  handle,    \* the process holds a SessionDir
  directory, \* the session directory's entry: "absent", "visible" or "durable"
  entry,     \* the entry of events.jsonl
  log,       \* the complete lines of events.jsonl
  torn,      \* the record of which a part follows them
  synced,    \* how many of the lines are on the disk
  pc,        \* where the call in progress is
  writing,   \* the record it appends
  existed,   \* events.jsonl was there when the append began
  effects,   \* history: the targets of what the server has done
  appended,  \* history: the length of the log when an append last returned Ok
  regime,    \* the kinds of fault that strike
  calls,     \* calls still to come
  faults     \* faults still to come

limits == <<regime, calls, faults>>
disk == <<directory, entry, log, torn, synced>>
process == <<handle, pc, writing, existed>>
vars == <<disk, process, effects, appended, limits>>

Targets == {Target[op] : op \in Ops}

\* The lines of the log. A line that two records share cannot be parsed.
Intents == [kind : {"intent"}, op : Ops]
Outcomes == [kind : {"outcome"}, target : Targets \cup {Capture}]
Records == Intents \cup Outcomes
Garbled == [kind |-> "garbled"]
NoRecord == [kind |-> "none"]

Intent(op) == [kind |-> "intent", op |-> op]
Outcome(t) == [kind |-> "outcome", target |-> t]

Init ==
  /\ handle = FALSE
  /\ directory = "absent" /\ entry = "absent"
  /\ log = <<>> /\ torn = NoRecord /\ synced = 0
  /\ pc = "idle" /\ writing = NoRecord /\ existed = FALSE
  /\ effects = <<>> /\ appended = 0
  /\ regime \in Regimes /\ calls = MaxCalls /\ faults = MaxFaults

-----------------------------------------------------------------------------
(* load_state.                                                             *)

\* Fault: any outcome settles the intent before it.
Confirms_Any(i, j) == log[i].kind = "intent" /\ log[j].kind = "outcome"

\* matches_outcome: line j names what line i set out to do.
Confirms(i, j) ==
  /\ log[i].kind = "intent" /\ log[j].kind = "outcome"
  /\ Target[log[i].op] = log[j].target

\* The replay's pending intent: line i is not confirmed before the next intent, or
\* the end of the log, takes its place.
Unconfirmed(i) ==
  /\ log[i].kind = "intent"
  /\ \A j \in i + 1 .. Len(log) :
       Confirms(i, j) => \E k \in i + 1 .. j : log[k].kind = "intent"

-----------------------------------------------------------------------------
(* SessionDir::create and open.                                            *)

Idle == pc = "idle"

\* A directory that is there is opened as it is.
Open ==
  /\ ~handle /\ Idle /\ directory # "absent"
  /\ handle' = TRUE
  /\ UNCHANGED <<disk, pc, writing, existed, effects, appended, limits>>

MakeDirectory ==
  /\ ~handle /\ Idle /\ directory = "absent"
  /\ directory' = "visible" /\ pc' = "syncParent"
  /\ UNCHANGED <<entry, log, torn, synced, handle, writing, existed, effects, appended,
                 limits>>

SyncParent ==
  /\ pc = "syncParent"
  /\ directory' = "durable" /\ handle' = TRUE /\ pc' = "idle"
  /\ UNCHANGED <<entry, log, torn, synced, writing, existed, effects, appended, limits>>

-----------------------------------------------------------------------------
(* append_line.                                                            *)

BeginAppend(r) == pc' = "heal" /\ writing' = r

Finish == pc' = "idle" /\ writing' = NoRecord /\ existed' = FALSE

\* Fault: a torn tail stays where it is.
HealTornTail_Leaves ==
  /\ pc = "heal"
  /\ existed' = (entry # "absent")
  /\ pc' = "write"
  /\ UNCHANGED <<disk, handle, writing, effects, appended, limits>>

\* A torn tail is cut off and the file synced; a file without one is left alone.
HealTornTail ==
  /\ pc = "heal"
  /\ existed' = (entry # "absent")
  /\ torn' = NoRecord
  /\ synced' = IF torn = NoRecord THEN synced ELSE Len(log)
  /\ pc' = "write"
  /\ UNCHANGED <<directory, entry, log, handle, writing, effects, appended, limits>>

\* The record and its newline, in one write; behind a torn tail it shares its line.
WriteRecord ==
  /\ pc = "write"
  /\ entry' = IF entry = "absent" THEN "visible" ELSE entry
  /\ log' = Append(log, IF torn = NoRecord THEN writing ELSE Garbled)
  /\ torn' = NoRecord
  /\ pc' = "sync"
  /\ UNCHANGED <<directory, synced, handle, writing, existed, effects, appended, limits>>

\* append_line returns: after an intent its operation is submitted.
Return ==
  /\ appended' = Len(log)
  /\ IF writing.kind = "intent" THEN pc' = "submit" /\ UNCHANGED <<writing, existed>>
     ELSE Finish

\* Fault: no append syncs the directory.
SyncRecord_NoDirectory ==
  /\ pc = "sync"
  /\ synced' = Len(log)
  /\ Return
  /\ UNCHANGED <<directory, entry, log, torn, handle, effects, limits>>

SyncRecord ==
  /\ pc = "sync"
  /\ synced' = Len(log)
  /\ IF existed THEN Return
     ELSE pc' = "syncDir" /\ UNCHANGED <<writing, existed, appended>>
  /\ UNCHANGED <<directory, entry, log, torn, handle, effects, limits>>

\* Only the append that made the file syncs its directory.
SyncDir ==
  /\ pc = "syncDir"
  /\ entry' = "durable"
  /\ Return
  /\ UNCHANGED <<directory, log, torn, synced, handle, effects, limits>>

-----------------------------------------------------------------------------
(* persist_intent_then, and the capture of an assessment.                  *)

Begin(op) ==
  /\ handle /\ Idle /\ calls > 0
  /\ calls' = calls - 1
  /\ BeginAppend(Intent(op))
  /\ UNCHANGED <<disk, handle, existed, effects, appended, faults, regime>>

\* store_assessment syncs the directory; then the event is appended.
CaptureAssessment ==
  /\ handle /\ Idle /\ calls > 0
  /\ calls' = calls - 1
  /\ entry' = IF entry = "visible" THEN "durable" ELSE entry
  /\ BeginAppend(Outcome(Capture))
  /\ UNCHANGED <<directory, log, torn, synced, handle, existed, effects, appended, faults, regime>>

\* The server does it and says so.
SubmitConfirmed ==
  /\ pc = "submit"
  /\ effects' = Append(effects, Target[writing.op])
  /\ BeginAppend(Outcome(Target[writing.op]))
  /\ UNCHANGED <<disk, handle, existed, appended, limits>>

\* It refuses, or does it and the answer is lost: the call fails and the intent
\* stays.
SubmitFails ==
  /\ pc = "submit"
  /\ effects' \in {effects, Append(effects, Target[writing.op])}
  /\ Finish
  /\ UNCHANGED <<disk, handle, appended, limits>>

-----------------------------------------------------------------------------
(* Faults.                                                                 *)

Strike(kind) == kind \in regime /\ faults > 0 /\ faults' = faults - 1

\* What a step that is cut short may leave behind: a file with none or a part of the
\* record, or one whose torn tail is gone.
PartialStep ==
  \/ UNCHANGED <<entry, torn>>
  \/ /\ pc = "write"
     /\ entry' = (IF entry = "absent" THEN "visible" ELSE entry)
     /\ torn' \in {torn, writing}
  \/ pc = "heal" /\ torn' = NoRecord /\ UNCHANGED entry

\* A call to the file system fails, and so does the call in progress.
FileSystemFails ==
  /\ Strike("io")
  /\ pc \in {"syncParent", "heal", "write", "sync", "syncDir"}
  /\ PartialStep
  /\ Finish
  /\ UNCHANGED <<directory, log, synced, handle, effects, appended, calls, regime>>

\* The process dies; the operating system keeps what it was given.
Crash ==
  /\ Strike("crash")
  /\ PartialStep
  /\ Finish /\ handle' = FALSE
  /\ UNCHANGED <<directory, log, synced, effects, appended, calls, regime>>

\* The disk holds the lines that were synced, any of those that follow and perhaps
\* a part of the next.
SurvivingLines ==
  \E n \in synced .. Len(log) :
    /\ log' = SubSeq(log, 1, n) /\ synced' = n
    /\ torn' \in {NoRecord, IF n < Len(log) THEN log[n + 1] ELSE torn}

LostFile == entry' = "absent" /\ log' = <<>> /\ torn' = NoRecord /\ synced' = 0

\* The power goes: an entry that was not synced may be gone, and all it led to.
PowerLoss ==
  /\ Strike("power")
  /\ Finish /\ handle' = FALSE
  /\ \/ directory = "visible" /\ directory' = "absent" /\ LostFile
     \/ /\ directory # "absent" => directory' = "durable"
        /\ directory = "absent" => directory' = "absent"
        /\ \/ entry # "durable" /\ LostFile
           \/ entry # "absent" /\ entry' = "durable" /\ SurvivingLines
  /\ UNCHANGED <<effects, appended, calls, regime>>

-----------------------------------------------------------------------------

Next ==
  \/ Open \/ MakeDirectory \/ SyncParent
  \/ HealTornTail \/ WriteRecord \/ SyncRecord \/ SyncDir
  \/ \E op \in Ops : Begin(op)
  \/ CaptureAssessment \/ SubmitConfirmed \/ SubmitFails
  \/ FileSystemFails \/ Crash \/ PowerLoss

Spec == Init /\ [][Next]_vars

-----------------------------------------------------------------------------
(* What the log promises.                                                  *)

\* Every variable holds a value of its type; a part of a line is a part of a record,
\* and what is on the disk is a part of what the system shows.
TypeOK ==
  /\ handle \in BOOLEAN /\ existed \in BOOLEAN
  /\ directory \in {"absent", "visible", "durable"} /\ entry \in {"absent", "visible", "durable"}
  /\ log \in Seq(Records \cup {Garbled}) /\ synced \in 0..Len(log)
  /\ torn \in Records \cup {NoRecord}
  /\ pc \in {"idle", "syncParent", "heal", "write", "sync", "syncDir", "submit"}
  /\ writing \in Records \cup {NoRecord}
  /\ effects \in Seq(Targets) /\ appended \in Nat
  /\ regime \in Regimes /\ calls \in 0..MaxCalls /\ faults \in 0..MaxFaults
  /\ entry = "absent" => log = <<>> /\ torn = NoRecord

\* The log can always be replayed: no record is ever written onto a part of
\* another, whatever was cut short before it.
LogIsReadable == \A i \in DOMAIN log : log[i] # Garbled

\* An append that has returned is durable: no crash, no loss of power and no later
\* append takes the record, or one before it, away.
AppendsAreDurable == appended <= Len(log)

Times(s, Test(_)) == Cardinality({i \in DOMAIN s : Test(s[i])})

\* Nothing the server did goes unnoticed on resumption: each effect has its outcome in
\* the log, or an intent of its own that the replay finds unconfirmed.
EffectsAreAccounted ==
  \A t \in Targets :
    Times(effects, LAMBDA e : e = t)
      <= Times(log, LAMBDA r : r = Outcome(t))
           + Cardinality({i \in DOMAIN log : Unconfirmed(i) /\ Target[log[i].op] = t})

=============================================================================
