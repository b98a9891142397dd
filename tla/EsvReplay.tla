------------------------------ MODULE EsvReplay ------------------------------
(***************************************************************************)
(* What esv-harness makes of a session's log when it resumes: load_state   *)
(* folds the outcomes into a SubmissionState and finds the intents that    *)
(* were never confirmed.  The lines are complete and readable, which is    *)
(* EsvSession's part.                                                      *)
(***************************************************************************)
EXTENDS Integers, Sequences

None == "none"
NoIntent == [kind |-> "none"]

\* Slots of an operating environment that take a data file.
Slots == {"raw", "restart"}

\* OeRecord: the environment, its token, and the file id of each slot the server named.
Oe(ea, token, files) == [ea |-> ea, token |-> token, files |-> files]

Empty == [entropy |-> None, oes |-> <<>>, uploaded |-> <<>>, captured |-> <<>>, docs |-> <<>>,
          certified |-> None, interrupted |-> NoIntent]

IsIntent(r) == r.kind \in {"intentRegister", "intentUploadFile", "intentUploadDoc", "intentCertify"}

\* matches_outcome: the same operation on the same target.
MatchesOutcome(intent, event) ==
  CASE intent.kind = "intentRegister" -> event.kind = "registered"
    [] intent.kind = "intentUploadFile" ->
         event.kind = "fileUploaded" /\ event.ea = intent.ea /\ event.slot = intent.slot
    [] intent.kind = "intentUploadDoc" -> event.kind = "docUploaded" /\ event.type = intent.type
    [] intent.kind = "intentCertify" -> event.kind = "certified" /\ event.mode = intent.mode

-----------------------------------------------------------------------------
(* apply.                                                                  *)

\* Fault: a later response replaces the record of the environment.
Merged_Replaced(old, new) == new

\* A later response renews the token, and the files it names; it blanks none.
Merged(old, new) ==
  [old EXCEPT !.token = new.token,
              !.files = [s \in Slots |-> IF new.files[s] # None THEN new.files[s] ELSE @[s]]]

\* The environments of a response, one after another: each is found by its id or appended.
WithOes(oes, added) ==
  LET fold[i \in 0..Len(added)] ==
        IF i = 0 THEN oes
        ELSE LET known == fold[i - 1]
                 at == {k \in DOMAIN known : known[k].ea = added[i].ea}
             IN IF at = {} THEN Append(known, added[i])
                ELSE LET k == CHOOSE k \in at : \A j \in at : k <= j
                     IN [known EXCEPT ![k] = Merged(@, added[i])]
  IN fold[Len(added)]

Apply(state, event) ==
  CASE event.kind = "registered" ->
         [state EXCEPT !.entropy = event.entropy, !.oes = WithOes(@, event.oes)]
    [] event.kind = "fileUploaded" ->
         [state EXCEPT !.uploaded = Append(@, [ea |-> event.ea, slot |-> event.slot])]
    [] event.kind = "assessmentCaptured" ->
         [state EXCEPT !.captured = Append(@, [ea |-> event.ea, slot |-> event.slot])]
    [] event.kind = "docUploaded" -> [state EXCEPT !.docs = Append(@, event.type)]
    [] event.kind = "certified" -> [state EXCEPT !.certified = event.mode]

-----------------------------------------------------------------------------
(* load_state.                                                             *)

\* The first interruption is kept.
Interrupt(state, intent) ==
  IF state.interrupted = NoIntent THEN [state EXCEPT !.interrupted = intent] ELSE state

\* One line: an outcome is folded in and settles the pending intent it fulfils; an intent
\* that takes the place of another interrupts the submission.
Line(c, record) ==
  IF IsIntent(record)
  THEN [state |-> IF c.pending = NoIntent THEN c.state ELSE Interrupt(c.state, c.pending),
        pending |-> record]
  ELSE [state |-> Apply(c.state, record),
        pending |-> IF c.pending # NoIntent /\ MatchesOutcome(c.pending, record) THEN NoIntent ELSE c.pending]

\* The state a log stands for: an intent still pending at its end interrupts, too.
LoadState(log) ==
  LET fold[i \in 0..Len(log)] ==
        IF i = 0 THEN [state |-> Empty, pending |-> NoIntent] ELSE Line(fold[i - 1], log[i])
      end == fold[Len(log)]
  IN IF end.pending = NoIntent THEN end.state ELSE Interrupt(end.state, end.pending)

Stage(state) ==
  IF state.interrupted # NoIntent THEN "Interrupted"
  ELSE IF state.certified # None THEN "Certified"
  ELSE IF state.docs # <<>> THEN "DocsUploaded"
  ELSE IF state.uploaded # <<>> THEN "FilesUploaded"
  ELSE IF state.oes # <<>> THEN "Registered" ELSE "Empty"

-----------------------------------------------------------------------------
(* What a resumed submission may rely on.                                  *)

\* The last of the numbers of S, or 0.
Last(S) == IF S = {} THEN 0 ELSE CHOOSE i \in S : \A j \in S : j <= i

\* All environments any response of the log named, in order.
Named(log) ==
  LET fold[i \in 0..Len(log)] ==
        IF i = 0 THEN <<>>
        ELSE IF log[i].kind = "registered" THEN fold[i - 1] \o log[i].oes ELSE fold[i - 1]
  IN fold[Len(log)]

\* Each environment is there once, with the newest token it was given and, in each slot,
\* the newest file the server named.
EnvironmentsAreNewest(log) ==
  LET oes == LoadState(log).oes
      named == Named(log)
  IN /\ {oes[k].ea : k \in DOMAIN oes} = {named[i].ea : i \in DOMAIN named}
     /\ \A k \in DOMAIN oes :
          LET mine == {i \in DOMAIN named : named[i].ea = oes[k].ea}
          IN /\ \A j \in DOMAIN oes : oes[j].ea = oes[k].ea => j = k
             /\ oes[k].token = named[Last(mine)].token
             /\ \A s \in Slots :
                  LET filled == {i \in mine : named[i].files[s] # None}
                  IN oes[k].files[s] = IF filled = {} THEN None ELSE named[Last(filled)].files[s]

\* Intent i has its outcome before the next intent.
Confirmed(log, i) ==
  \E j \in i + 1 .. Len(log) :
    /\ ~IsIntent(log[j]) /\ MatchesOutcome(log[i], log[j])
    /\ \A k \in i + 1 .. j - 1 : ~IsIntent(log[k])

\* The submission is interrupted exactly when an intent was never confirmed, by the first
\* of them, whatever was done since.
InterruptionIsKept(log) ==
  LET open == {i \in DOMAIN log : IsIntent(log[i]) /\ ~Confirmed(log, i)}
      state == LoadState(log)
  IN /\ state.interrupted = IF open = {} THEN NoIntent ELSE log[CHOOSE i \in open : \A j \in open : i <= j]
     /\ (Stage(state) = "Interrupted") <=> open # {}

Rank == [Empty |-> 0, Registered |-> 1, FilesUploaded |-> 2, DocsUploaded |-> 3, Certified |-> 4]

\* One more outcome never takes the stage back, unless it leaves the submission interrupted.
StageAdvances(log) ==
  log # <<>> /\ ~IsIntent(log[Len(log)]) =>
    LET before == Stage(LoadState(SubSeq(log, 1, Len(log) - 1)))
        after == Stage(LoadState(log))
    IN before # "Interrupted" => after \in DOMAIN Rank /\ Rank[before] <= Rank[after]

ReplayIsExact(log) == EnvironmentsAreNewest(log) /\ InterruptionIsKept(log) /\ StageAdvances(log)
=============================================================================
