-------------------------- MODULE ModuleStateProofs --------------------------
(***************************************************************************)
(* Invariance proofs for ModuleState and FfiInit, for every set of         *)
(* threads, ids, profiles and services.  The inductive invariant adds to   *)
(* the properties of ModuleState where the owner of a SelfTest word        *)
(* stands, what each program point of a winning call knows of STATE and    *)
(* PROFILE, and what a losing call may have seen.                          *)
(*                                                                         *)
(* The last part is about what initialisation tells its callers.  A        *)
(* program behind the C interface is one of those ModuleState describes    *)
(* (FfiSpec implies Spec), so the invariant holds of it; what the C        *)
(* library adds is that an open module stays open, since nothing but a     *)
(* self-test latches Error there, and where a thread inside oxi_init or    *)
(* Module::init stands in the module.                                      *)
(***************************************************************************)
EXTENDS FfiInit, TLAPS

Ended == {"Error", "IntegrityUnverified"}

\* Before the outcome of a winning call is decided.
Undecided(t) ==
  pc[t] \in {"run", "reentered", "commit"} \/ (pc[t] = "drop" /\ answer[t] = Unwound)

\* Live threads have distinct ids, and a thread in a call has its arguments.
ThreadInv ==
  /\ \A t \in Threads : pc[t] = "gone" <=> id[t] = NoOwner
  /\ \A t, u \in Threads : id[t] = id[u] /\ id[t] # NoOwner => t = u
  /\ \A t \in Threads : pc[t] \in Running \cup {"claim", "wait"} => call[t] \in Calls

\* The word is well formed, and where the owner of SelfTest stands.
WordInv ==
  /\ (word.state = "SelfTest") <=> (word.owner # NoOwner)
  /\ \A t \in Threads : pc[t] \in Running => id[t] \in Recordable
  /\ \A t, u \in Threads : pc[t] \in Running /\ pc[u] \in Running => t = u
  /\ word.state = "SelfTest" => \E t \in Threads : Undecided(t) /\ word = SelfTestWord(id[t])
  /\ \A t \in Threads : Undecided(t) => word = SelfTestWord(id[t]) \/ word = Plain("Error")
  /\ \A t \in Threads : pc[t] \in {"rollback", "report"} => word = Plain("Error")
  /\ \A t \in Threads : pc[t] = "drop" /\ answer[t] # Unwound =>
       word.state \in {"Operational", "Error", "IntegrityUnverified"}

\* How the module opens, and what PROFILE holds at each point.
OpenInv ==
  /\ word.state = "Operational" => opened # NoCall
  /\ opened # NoCall => word.state \in {"Operational", "Error"}
  /\ opened # NoCall => opened.integrity > 0 /\ opened.passed = opened.integrity + opened.tests
  /\ opened # NoCall => policy = opened.profile
  /\ \A t \in Threads : pc[t] \in {"gated", "serving"} => opened # NoCall
  /\ \A t \in Threads : pc[t] = "serving" => serving[t] \in Permitted[policy]
  /\ \A t \in Threads : pc[t] \in Running \ {"drop"} => opened = NoCall
  /\ \A t \in Threads : pc[t] = "commit" =>
       /\ policy = call[t].profile
       /\ call[t].integrity > 0
       /\ done[t] = Entries(call[t])
  /\ opened = NoCall /\ policy # DefaultProfile =>
       \E t \in Threads : pc[t] \in {"commit", "rollback"}

\* What a losing or re-entrant call has seen.
SeenInv ==
  \A t \in Threads :
    /\ (seen[t].state = "SelfTest") <=> (seen[t].owner # NoOwner)
    /\ pc[t] \in {"wait", "reentered"} => seen[t].state # "PowerOff" /\ word.state # "PowerOff"
    /\ seen[t].state = "Operational" => opened # NoCall
    /\ seen[t].state \in Ended => word.state \in Ended
    /\ pc[t] = "wait" /\ seen[t].state = "SelfTest" => seen[t] # SelfTestWord(id[t])
    /\ pc[t] = "reentered" => seen[t] \in {SelfTestWord(id[t]), Plain("Error")}

\* What a returned call told its caller.
Told(t) ==
  /\ answer[t] \in {Ok, AlreadyInitialized} => opened # NoCall
  /\ Failed(t) => opened = NoCall
  /\ Failed(t) /\ ~(pc[t] = "drop" /\ answer[t] = Unwound) => word.state \in Ended
  /\ answer[t] = AlreadyFailed => word.state \in Ended
  /\ answer[t][1] = "NotOperational" => answer[t] = NotOperational("Error") /\ word.state = "Error"
  /\ nested[t] \in {Unanswered, NotOperational("SelfTest"), AlreadyFailed}
  /\ pc[t] \in (Running \ {"drop"}) \cup {"claim", "wait"} => answer[t] = Unanswered

AnswerInv == \A t \in Threads : Told(t)

IInv == TypeOK /\ ThreadInv /\ WordInv /\ OpenInv /\ SeenInv /\ AnswerInv

-----------------------------------------------------------------------------
(* Every step of a thread preserves the invariant: one lemma for a part.   *)

\* The type invariant; the arguments of a call bound how many entries pass.
LEMMA TypeStep ==
  ASSUME TypeOK, ThreadInv, NEW t \in Threads, Progress(t) \/ Application(t)
  PROVE  TypeOK'
<1> USE ModuleAssumption DEF TypeOK, ThreadInv, PCs, Words, Plain, Calls, Openings, Running, States
<1>1. CASE WinClaim(t)
  BY <1>1 DEF WinClaim, Goto, Exchange, ClaimWord, HasOwnerId, SelfTestWord, threadVars
<1>2. CASE ClaimWithoutId(t)
  BY <1>2 DEF ClaimWithoutId, Goto, Exchange, ClaimWord, HasOwnerId, EndCall, ThreadIdCheck, Answers, Unanswered
<1>3. CASE LoseClaim(t)
  BY <1>3 DEF LoseClaim, Goto
<1>4. CASE SpinOnce(t)
  BY <1>4 DEF SpinOnce, Goto
<1>5. CASE AnswerLoser(t)
  BY <1>5 DEF AnswerLoser, Goto, EndCall, ClaimWord, HasOwnerId, Verdict, Decode, Ok, AlreadyInitialized, AlreadyFailed, NotOperational, Spin, Answers, Unanswered
<1>6. CASE RefuseEmptyGroup(t)
  BY <1>6 DEF RefuseEmptyGroup, Goto, Return, Settle, Exchange, ClaimWord, HasOwnerId, SelfTestWord, IntegrityNotAttested, Answers
<1>7. CASE PassEntry(t)
  BY <1>7 DEF PassEntry, Goto, Testing, Unanswered, Answers, Entries
<1>8. CASE FailEntry(t)
  BY <1>8 DEF FailEntry, Goto, Testing, Return, Settle, Exchange, ClaimWord, HasOwnerId, SelfTestWord, SelfTestFailed, Answers
<1>9. CASE UnwindEntry(t)
  BY <1>9 DEF UnwindEntry, Goto, Testing, Return, Unwound, Answers
<1>10. CASE AnswerReentrant(t)
  BY <1>10 DEF AnswerReentrant, Goto, ClaimWord, HasOwnerId, Verdict, Decode, AlreadyInitialized, AlreadyFailed, NotOperational, Spin, Answers
<1>11. CASE PublishProfile(t)
  BY <1>11 DEF PublishProfile, Goto, Entries
<1>12. CASE Commit(t)
  BY <1>12 DEF Commit, Goto, Return, Exchange, ClaimWord, HasOwnerId, SelfTestWord, Ok, Answers
<1>13. CASE CommitRefused(t)
  BY <1>13 DEF CommitRefused, Goto, threadVars, ClaimWord, HasOwnerId, SelfTestWord
<1>14. CASE RollBackProfile(t)
  BY <1>14 DEF RollBackProfile, Goto, threadVars
<1>15. CASE ReportState(t)
  BY <1>15 DEF ReportState, Goto, Return, NotOperational, Decode, Answers
<1>16. CASE DropGuard(t)
  BY <1>16 DEF DropGuard, Goto, Settle, Exchange, ClaimWord, HasOwnerId, SelfTestWord, EndCall, Unanswered, Answers
<1>17. CASE Spawn(t)
  BY <1>17 DEF Spawn, Goto
<1>18. CASE Exit(t)
  BY <1>18 DEF Exit, Goto, Unanswered, Answers
<1>19. CASE CallInitialize(t)
  BY <1>19 DEF CallInitialize, Goto, Unanswered, Answers
<1>20. CASE Reenter(t)
  BY <1>20 DEF Reenter, Goto, Testing
<1>21. CASE PassGate(t)
  BY <1>21 DEF PassGate, Goto, threadVars
<1>22. CASE PassProfile(t)
  BY <1>22 DEF PassProfile, Goto
<1>23. CASE RefuseProfile(t)
  BY <1>23 DEF RefuseProfile, Goto, threadVars
<1>24. CASE Deliver(t)
  BY <1>24 DEF Deliver, Goto
<1>25. CASE EnterInternal(t)
  BY <1>25 DEF EnterInternal, Goto, threadVars
<1>26. CASE LeaveInternal(t)
  BY <1>26 DEF LeaveInternal, Goto, threadVars
<1>27. CASE EnterErrorState(t)
  BY <1>27 DEF EnterErrorState, Goto, threadVars, Testing
<1>28. QED
  BY <1>1, <1>2, <1>3, <1>4, <1>5, <1>6, <1>7, <1>8, <1>9, <1>10, <1>11, <1>12, <1>13, <1>14, <1>15, <1>16, <1>17, <1>18, <1>19, <1>20, <1>21, <1>22, <1>23, <1>24, <1>25, <1>26, <1>27 DEF Progress, Application

\* Ids stay distinct, and a call keeps its arguments until it returns.
LEMMA IdStep ==
  ASSUME TypeOK, ThreadInv, NEW t \in Threads, Progress(t) \/ Application(t)
  PROVE  ThreadInv'
<1> USE ModuleAssumption DEF TypeOK, ThreadInv, PCs, Running
<1>1. CASE WinClaim(t)
  BY <1>1 DEF WinClaim, Goto, Exchange, ClaimWord, HasOwnerId, SelfTestWord, Plain, threadVars
<1>2. CASE ClaimWithoutId(t)
  BY <1>2 DEF ClaimWithoutId, Goto, Exchange, ClaimWord, HasOwnerId, Plain, EndCall
<1>3. CASE LoseClaim(t)
  BY <1>3 DEF LoseClaim, Goto, Plain
<1>4. CASE SpinOnce(t)
  BY <1>4 DEF SpinOnce, Goto
<1>5. CASE AnswerLoser(t)
  BY <1>5 DEF AnswerLoser, Goto, EndCall, ClaimWord, HasOwnerId
<1>6. CASE RefuseEmptyGroup(t)
  BY <1>6 DEF RefuseEmptyGroup, Goto, Return, Settle, Exchange, ClaimWord, HasOwnerId, SelfTestWord, Plain
<1>7. CASE PassEntry(t)
  BY <1>7 DEF PassEntry, Goto, Testing
<1>8. CASE FailEntry(t)
  BY <1>8 DEF FailEntry, Goto, Testing, Return, Settle, Exchange, ClaimWord, HasOwnerId, SelfTestWord, Plain
<1>9. CASE UnwindEntry(t)
  BY <1>9 DEF UnwindEntry, Goto, Testing, Return
<1>10. CASE AnswerReentrant(t)
  BY <1>10 DEF AnswerReentrant, Goto, ClaimWord, HasOwnerId
<1>11. CASE PublishProfile(t)
  BY <1>11 DEF PublishProfile, Goto
<1>12. CASE Commit(t)
  BY <1>12 DEF Commit, Goto, Return, Exchange, ClaimWord, HasOwnerId, SelfTestWord, Plain
<1>13. CASE CommitRefused(t)
  BY <1>13 DEF CommitRefused, Goto, threadVars, ClaimWord, HasOwnerId, SelfTestWord, Plain
<1>14. CASE RollBackProfile(t)
  BY <1>14 DEF RollBackProfile, Goto, threadVars
<1>15. CASE ReportState(t)
  BY <1>15 DEF ReportState, Goto, Return
<1>16. CASE DropGuard(t)
  BY <1>16 DEF DropGuard, Goto, Settle, Exchange, ClaimWord, HasOwnerId, SelfTestWord, Plain, EndCall
<1>17. CASE Spawn(t)
  BY <1>17 DEF Spawn, Goto
<1>18. CASE Exit(t)
  BY <1>18 DEF Exit, Goto
<1>19. CASE CallInitialize(t)
  BY <1>19 DEF CallInitialize, Goto
<1>20. CASE Reenter(t)
  BY <1>20 DEF Reenter, Goto, Testing
<1>21. CASE PassGate(t)
  BY <1>21 DEF PassGate, Goto, threadVars, Plain
<1>22. CASE PassProfile(t)
  BY <1>22 DEF PassProfile, Goto
<1>23. CASE RefuseProfile(t)
  BY <1>23 DEF RefuseProfile, Goto, threadVars
<1>24. CASE Deliver(t)
  BY <1>24 DEF Deliver, Goto
<1>25. CASE EnterInternal(t)
  BY <1>25 DEF EnterInternal, Goto, threadVars
<1>26. CASE LeaveInternal(t)
  BY <1>26 DEF LeaveInternal, Goto, threadVars
<1>27. CASE EnterErrorState(t)
  BY <1>27 DEF EnterErrorState, Goto, threadVars, Plain, Testing
<1>28. QED
  BY <1>1, <1>2, <1>3, <1>4, <1>5, <1>6, <1>7, <1>8, <1>9, <1>10, <1>11, <1>12, <1>13, <1>14, <1>15, <1>16, <1>17, <1>18, <1>19, <1>20, <1>21, <1>22, <1>23, <1>24, <1>25, <1>26, <1>27 DEF Progress, Application

\* The owner of the word: every way out of a winning call moves its own claim.
LEMMA WordStep ==
  ASSUME TypeOK, ThreadInv, WordInv, SeenInv, AnswerInv, NEW t \in Threads, Progress(t) \/ Application(t)
  PROVE  WordInv'
<1> USE ModuleAssumption DEF TypeOK, ThreadInv, WordInv, SeenInv, Undecided, PCs, Running, Words, SelfTestWord, Plain
<1>1. CASE WinClaim(t)
  <2>1. /\ pc[t] = "claim" /\ pc' = [pc EXCEPT ![t] = "run"] /\ id[t] \in Recordable
        /\ word = Plain("PowerOff") /\ word' = SelfTestWord(id[t])
        /\ id' = id /\ answer' = answer
    BY <1>1 DEF WinClaim, Goto, Exchange, ClaimWord, HasOwnerId, threadVars
  <2>2. \A u \in Threads : u # t => pc'[u] = pc[u]
    BY <2>1
  <2>3. pc'[t] = "run"
    BY <2>1
  <2>4. \A u \in Threads : pc[u] \notin Running
    BY <2>1 DEF AnswerInv, Told, Unwound, Unanswered
  <2>5. \A u \in Threads : pc'[u] \in Running => u = t
    BY <2>2, <2>4
  <2>6. id[t] # NoOwner
    BY <2>1
  <2>7. QED
    BY <2>1, <2>2, <2>3, <2>5, <2>6
<1>2. CASE ClaimWithoutId(t)
  BY <1>2 DEF ClaimWithoutId, Goto, Exchange, ClaimWord, HasOwnerId, EndCall
<1>3. CASE LoseClaim(t)
  BY <1>3 DEF LoseClaim, Goto
<1>4. CASE SpinOnce(t)
  BY <1>4 DEF SpinOnce, Goto
<1>5. CASE AnswerLoser(t)
  BY <1>5 DEF AnswerLoser, Goto, EndCall, ClaimWord, HasOwnerId
<1>6. CASE RefuseEmptyGroup(t)
  BY <1>6 DEF RefuseEmptyGroup, Goto, Return, Settle, Exchange, ClaimWord, HasOwnerId, IntegrityNotAttested, AnswerInv, Told, Unanswered, Unwound, Decode
<1>7. CASE PassEntry(t)
  BY <1>7 DEF PassEntry, Goto, Testing
<1>8. CASE FailEntry(t)
  BY <1>8 DEF FailEntry, Goto, Testing, Return, Settle, Exchange, ClaimWord, HasOwnerId, SelfTestFailed, AnswerInv, Told, Unanswered, Unwound, Decode
<1>9. CASE UnwindEntry(t)
  <2>1. /\ pc[t] = "run" /\ pc' = [pc EXCEPT ![t] = "drop"]
        /\ answer' = [answer EXCEPT ![t] = Unwound]
        /\ word' = word /\ id' = id
    BY <1>9 DEF UnwindEntry, Goto, Testing, Return
  <2>2. \A u \in Threads : u # t => pc'[u] = pc[u] /\ answer'[u] = answer[u]
    BY <2>1
  <2>3. pc'[t] = "drop" /\ answer'[t] = Unwound
    BY <2>1
  <2>4. \A u \in Threads : Undecided(u) => Undecided(u)'
    BY <2>1, <2>2, <2>3
  <2>5. \A u \in Threads : Undecided(u)' => Undecided(u)
    BY <2>1, <2>2, <2>3
  <2>6. \A u \in Threads : pc'[u] \in Running => pc[u] \in Running
    BY <2>1, <2>2
  <2>7. QED
    BY <2>1, <2>2, <2>3, <2>4, <2>5, <2>6
<1>10. CASE AnswerReentrant(t)
  BY <1>10 DEF AnswerReentrant, Goto, ClaimWord, HasOwnerId
<1>11. CASE PublishProfile(t)
  BY <1>11 DEF PublishProfile, Goto
<1>12. CASE Commit(t)
  BY <1>12 DEF Commit, Goto, Return, Exchange, ClaimWord, HasOwnerId, Ok, AnswerInv, Told, Unanswered, Unwound, Decode
<1>13. CASE CommitRefused(t)
  BY <1>13 DEF CommitRefused, Goto, threadVars, ClaimWord, HasOwnerId
<1>14. CASE RollBackProfile(t)
  BY <1>14 DEF RollBackProfile, Goto, threadVars
<1>15. CASE ReportState(t)
  BY <1>15 DEF ReportState, Goto, Return, NotOperational, Decode, AnswerInv, Told, Unanswered, Unwound
<1>16. CASE DropGuard(t)
  BY <1>16 DEF DropGuard, Goto, Settle, Exchange, ClaimWord, HasOwnerId, EndCall, AnswerInv, Told, Unanswered, Unwound, Decode
<1>17. CASE Spawn(t)
  <2>1. /\ word' = word /\ answer' = answer
        /\ pc[t] = "gone" /\ pc' = [pc EXCEPT ![t] = "idle"]
        /\ \A u \in Threads : u # t => id'[u] = id[u]
    BY <1>17 DEF Spawn, Goto
  <2>2. \A u \in Threads : pc'[u] \in Running => u # t /\ pc'[u] = pc[u] /\ id'[u] = id[u]
    BY <2>1
  <2>3. \A u \in Threads : Undecided(u) => u # t /\ Undecided(u)' /\ id'[u] = id[u]
    BY <2>1
  <2>4. QED
    BY <2>1, <2>2, <2>3
<1>18. CASE Exit(t)
  BY <1>18 DEF Exit, Goto
<1>19. CASE CallInitialize(t)
  BY <1>19 DEF CallInitialize, Goto
<1>20. CASE Reenter(t)
  BY <1>20 DEF Reenter, Goto, Testing
<1>21. CASE PassGate(t)
  BY <1>21 DEF PassGate, Goto, threadVars
<1>22. CASE PassProfile(t)
  BY <1>22 DEF PassProfile, Goto
<1>23. CASE RefuseProfile(t)
  BY <1>23 DEF RefuseProfile, Goto, threadVars
<1>24. CASE Deliver(t)
  BY <1>24 DEF Deliver, Goto
<1>25. CASE EnterInternal(t)
  BY <1>25 DEF EnterInternal, Goto, threadVars
<1>26. CASE LeaveInternal(t)
  BY <1>26 DEF LeaveInternal, Goto, threadVars
<1>27. CASE EnterErrorState(t)
  BY <1>27 DEF EnterErrorState, Goto, threadVars, Testing
<1>28. QED
  BY <1>1, <1>2, <1>3, <1>4, <1>5, <1>6, <1>7, <1>8, <1>9, <1>10, <1>11, <1>12, <1>13, <1>14, <1>15, <1>16, <1>17, <1>18, <1>19, <1>20, <1>21, <1>22, <1>23, <1>24, <1>25, <1>26, <1>27 DEF Progress, Application

\* The opening: only the exchange of a fully tested call makes it, and PROFILE
\* is stored by that call or restored.
LEMMA OpenStep ==
  ASSUME TypeOK, ThreadInv, WordInv, OpenInv, NEW t \in Threads, Progress(t) \/ Application(t)
  PROVE  OpenInv'
<1> USE ModuleAssumption DEF TypeOK, ThreadInv, WordInv, OpenInv, Undecided, PCs, Running, Words, SelfTestWord, Plain, Calls, Openings, Entries
<1>1. CASE WinClaim(t)
  BY <1>1 DEF WinClaim, Goto, Exchange, ClaimWord, HasOwnerId, threadVars
<1>2. CASE ClaimWithoutId(t)
  BY <1>2 DEF ClaimWithoutId, Goto, Exchange, ClaimWord, HasOwnerId, EndCall
<1>3. CASE LoseClaim(t)
  BY <1>3 DEF LoseClaim, Goto
<1>4. CASE SpinOnce(t)
  BY <1>4 DEF SpinOnce, Goto
<1>5. CASE AnswerLoser(t)
  BY <1>5 DEF AnswerLoser, Goto, EndCall, ClaimWord, HasOwnerId
<1>6. CASE RefuseEmptyGroup(t)
  BY <1>6 DEF RefuseEmptyGroup, Goto, Return, Settle, Exchange, ClaimWord, HasOwnerId
<1>7. CASE PassEntry(t)
  BY <1>7 DEF PassEntry, Goto, Testing
<1>8. CASE FailEntry(t)
  BY <1>8 DEF FailEntry, Goto, Testing, Return, Settle, Exchange, ClaimWord, HasOwnerId
<1>9. CASE UnwindEntry(t)
  BY <1>9 DEF UnwindEntry, Goto, Testing, Return
<1>10. CASE AnswerReentrant(t)
  BY <1>10 DEF AnswerReentrant, Goto, ClaimWord, HasOwnerId
<1>11. CASE PublishProfile(t)
  BY <1>11 DEF PublishProfile, Goto
<1>12. CASE Commit(t)
  BY <1>12 DEF Commit, Goto, Return, Exchange, ClaimWord, HasOwnerId, Unwound, Ok
<1>13. CASE CommitRefused(t)
  BY <1>13 DEF CommitRefused, Goto, threadVars, ClaimWord, HasOwnerId
<1>14. CASE RollBackProfile(t)
  BY <1>14 DEF RollBackProfile, Goto, threadVars
<1>15. CASE ReportState(t)
  BY <1>15 DEF ReportState, Goto, Return
<1>16. CASE DropGuard(t)
  BY <1>16 DEF DropGuard, Goto, Settle, Exchange, ClaimWord, HasOwnerId, EndCall
<1>17. CASE Spawn(t)
  BY <1>17 DEF Spawn, Goto
<1>18. CASE Exit(t)
  BY <1>18 DEF Exit, Goto
<1>19. CASE CallInitialize(t)
  BY <1>19 DEF CallInitialize, Goto
<1>20. CASE Reenter(t)
  BY <1>20 DEF Reenter, Goto, Testing
<1>21. CASE PassGate(t)
  BY <1>21 DEF PassGate, Goto, threadVars
<1>22. CASE PassProfile(t)
  BY <1>22 DEF PassProfile, Goto
<1>23. CASE RefuseProfile(t)
  BY <1>23 DEF RefuseProfile, Goto, threadVars
<1>24. CASE Deliver(t)
  BY <1>24 DEF Deliver, Goto
<1>25. CASE EnterInternal(t)
  BY <1>25 DEF EnterInternal, Goto, threadVars
<1>26. CASE LeaveInternal(t)
  BY <1>26 DEF LeaveInternal, Goto, threadVars
<1>27. CASE EnterErrorState(t)
  BY <1>27 DEF EnterErrorState, Goto, threadVars, Testing
<1>28. QED
  BY <1>1, <1>2, <1>3, <1>4, <1>5, <1>6, <1>7, <1>8, <1>9, <1>10, <1>11, <1>12, <1>13, <1>14, <1>15, <1>16, <1>17, <1>18, <1>19, <1>20, <1>21, <1>22, <1>23, <1>24, <1>25, <1>26, <1>27 DEF Progress, Application

\* What a losing call has seen stays consistent with what has happened since.
LEMMA SeenStep ==
  ASSUME TypeOK, ThreadInv, WordInv, OpenInv, SeenInv, NEW t \in Threads, Progress(t) \/ Application(t)
  PROVE  SeenInv'
<1> USE ModuleAssumption DEF TypeOK, ThreadInv, WordInv, OpenInv, SeenInv, Undecided, PCs, Running, Words, SelfTestWord, Plain, Ended
<1>1. CASE WinClaim(t)
  BY <1>1 DEF WinClaim, Goto, Exchange, ClaimWord, HasOwnerId, threadVars
<1>2. CASE ClaimWithoutId(t)
  BY <1>2 DEF ClaimWithoutId, Goto, Exchange, ClaimWord, HasOwnerId, EndCall
<1>3. CASE LoseClaim(t)
  BY <1>3 DEF LoseClaim, Goto
<1>4. CASE SpinOnce(t)
  BY <1>4 DEF SpinOnce, Goto
<1>5. CASE AnswerLoser(t)
  BY <1>5 DEF AnswerLoser, Goto, EndCall, ClaimWord, HasOwnerId
<1>6. CASE RefuseEmptyGroup(t)
  BY <1>6 DEF RefuseEmptyGroup, Goto, Return, Settle, Exchange, ClaimWord, HasOwnerId
<1>7. CASE PassEntry(t)
  BY <1>7 DEF PassEntry, Goto, Testing
<1>8. CASE FailEntry(t)
  BY <1>8 DEF FailEntry, Goto, Testing, Return, Settle, Exchange, ClaimWord, HasOwnerId
<1>9. CASE UnwindEntry(t)
  BY <1>9 DEF UnwindEntry, Goto, Testing, Return
<1>10. CASE AnswerReentrant(t)
  BY <1>10 DEF AnswerReentrant, Goto, ClaimWord, HasOwnerId
<1>11. CASE PublishProfile(t)
  BY <1>11 DEF PublishProfile, Goto
<1>12. CASE Commit(t)
  BY <1>12 DEF Commit, Goto, Return, Exchange, ClaimWord, HasOwnerId, Unwound, Ok
<1>13. CASE CommitRefused(t)
  BY <1>13 DEF CommitRefused, Goto, threadVars, ClaimWord, HasOwnerId
<1>14. CASE RollBackProfile(t)
  BY <1>14 DEF RollBackProfile, Goto, threadVars
<1>15. CASE ReportState(t)
  BY <1>15 DEF ReportState, Goto, Return
<1>16. CASE DropGuard(t)
  BY <1>16 DEF DropGuard, Goto, Settle, Exchange, ClaimWord, HasOwnerId, EndCall
<1>17. CASE Spawn(t)
  BY <1>17 DEF Spawn, Goto
<1>18. CASE Exit(t)
  BY <1>18 DEF Exit, Goto
<1>19. CASE CallInitialize(t)
  BY <1>19 DEF CallInitialize, Goto
<1>20. CASE Reenter(t)
  BY <1>20 DEF Reenter, Goto, Testing
<1>21. CASE PassGate(t)
  BY <1>21 DEF PassGate, Goto, threadVars
<1>22. CASE PassProfile(t)
  BY <1>22 DEF PassProfile, Goto
<1>23. CASE RefuseProfile(t)
  BY <1>23 DEF RefuseProfile, Goto, threadVars
<1>24. CASE Deliver(t)
  BY <1>24 DEF Deliver, Goto
<1>25. CASE EnterInternal(t)
  BY <1>25 DEF EnterInternal, Goto, threadVars
<1>26. CASE LeaveInternal(t)
  BY <1>26 DEF LeaveInternal, Goto, threadVars
<1>27. CASE EnterErrorState(t)
  BY <1>27 DEF EnterErrorState, Goto, threadVars, Testing
<1>28. QED
  BY <1>1, <1>2, <1>3, <1>4, <1>5, <1>6, <1>7, <1>8, <1>9, <1>10, <1>11, <1>12, <1>13, <1>14, <1>15, <1>16, <1>17, <1>18, <1>19, <1>20, <1>21, <1>22, <1>23, <1>24, <1>25, <1>26, <1>27 DEF Progress, Application

\* What a call was told stays true.
LEMMA AnswerStep ==
  ASSUME TypeOK, ThreadInv, WordInv, OpenInv, SeenInv, AnswerInv, NEW t \in Threads, Progress(t) \/ Application(t)
  PROVE  AnswerInv'
<1> USE ModuleAssumption DEF TypeOK, ThreadInv, WordInv, OpenInv, SeenInv, AnswerInv, Told, Undecided, PCs, Running, Words, SelfTestWord, Plain, Ended, Failed, States, Ok, SelfTestFailed, ThreadIdCheck, IntegrityNotAttested, AlreadyInitialized, AlreadyFailed, NotOperational, Unwound, Unanswered, Spin
<1>1. CASE WinClaim(t)
  BY <1>1 DEF WinClaim, Goto, Exchange, ClaimWord, HasOwnerId, threadVars
<1>2. CASE ClaimWithoutId(t)
  BY <1>2 DEF ClaimWithoutId, Goto, Exchange, ClaimWord, HasOwnerId, EndCall
<1>3. CASE LoseClaim(t)
  BY <1>3 DEF LoseClaim, Goto
<1>4. CASE SpinOnce(t)
  BY <1>4 DEF SpinOnce, Goto
<1>5. CASE AnswerLoser(t)
  <2>1. Decode(seen[t]) = seen[t].state /\ pc[t] = "wait"
    BY <1>5 DEF AnswerLoser, Goto, Decode
  <2>2. seen[t].state = "SelfTest" => seen[t] # ClaimWord(t)
    BY <2>1 DEF ClaimWord, HasOwnerId
  <2>3. seen[t].state # "SelfTest"
    BY <1>5, <2>1, <2>2 DEF AnswerLoser, Verdict
  <2>4. seen[t].state \in {"Operational", "Error", "IntegrityUnverified"}
    BY <2>1, <2>3
  <2>5. Verdict(seen[t], ClaimWord(t)) =
          IF seen[t].state = "Operational" THEN AlreadyInitialized ELSE AlreadyFailed
    BY <2>1, <2>3 DEF Verdict
  <2>6. /\ answer' = [answer EXCEPT ![t] = Verdict(seen[t], ClaimWord(t))]
        /\ nested' = [nested EXCEPT ![t] = Unanswered]
        /\ pc' = [pc EXCEPT ![t] = "idle"]
        /\ word' = word /\ opened' = opened
    BY <1>5 DEF AnswerLoser, Goto, EndCall
  <2>7. CASE seen[t].state = "Operational"
    <3>1. opened # NoCall /\ opened' # NoCall
      BY <2>6, <2>7
    <3>2. answer' = [answer EXCEPT ![t] = AlreadyInitialized]
      BY <2>5, <2>6, <2>7
    <3>3. ~Failed(t)'
      BY <3>2
    <3>4. QED
      BY <2>6, <3>1, <3>2, <3>3
  <2>8. CASE seen[t].state \in Ended
    BY <2>5, <2>6, <2>8
  <2>9. QED
    BY <2>4, <2>7, <2>8
<1>6. CASE RefuseEmptyGroup(t)
  BY <1>6 DEF RefuseEmptyGroup, Goto, Return, Settle, Exchange, ClaimWord, HasOwnerId
<1>7. CASE PassEntry(t)
  BY <1>7 DEF PassEntry, Goto, Testing
<1>8. CASE FailEntry(t)
  BY <1>8 DEF FailEntry, Goto, Testing, Return, Settle, Exchange, ClaimWord, HasOwnerId
<1>9. CASE UnwindEntry(t)
  <2>1. /\ pc[t] = "run" /\ pc' = [pc EXCEPT ![t] = "drop"]
        /\ answer' = [answer EXCEPT ![t] = Unwound]
        /\ word' = word /\ opened' = opened /\ nested' = nested
    BY <1>9 DEF UnwindEntry, Goto, Testing, Return
  <2>2. \A u \in Threads : u # t => pc'[u] = pc[u] /\ answer'[u] = answer[u]
    BY <2>1
  <2>3. pc'[t] = "drop" /\ answer'[t] = Unwound /\ opened = NoCall
    BY <2>1
  <2>4. ASSUME NEW u \in Threads, u # t PROVE Told(u)'
    BY <2>1, <2>2, <2>4
  <2>5. Told(t)'
    BY <2>1, <2>3
  <2> HIDE DEF Told
  <2>6. QED
    BY <2>4, <2>5
<1>10. CASE AnswerReentrant(t)
  BY <1>10 DEF AnswerReentrant, Goto, ClaimWord, HasOwnerId, Verdict, Decode
<1>11. CASE PublishProfile(t)
  BY <1>11 DEF PublishProfile, Goto
<1>12. CASE Commit(t)
  <2>1. word.state = "SelfTest" /\ word'.state = "Operational" /\ pc[t] = "commit"
    BY <1>12 DEF Commit, Return, Goto, Exchange, ClaimWord, HasOwnerId
  <2>2. opened' # NoCall
    BY <1>12, <2>1 DEF Commit, Calls, Openings, Entries
  <2>3. \A u \in Threads : ~Failed(u)
    BY <2>1
  <2>4. answer'[t] = Ok /\ pc'[t] = "drop" /\ nested' = nested
    BY <1>12 DEF Commit, Return, Goto
  <2>5. \A u \in Threads : u # t => answer'[u] = answer[u] /\ pc'[u] = pc[u]
    BY <1>12 DEF Commit, Return, Goto
  <2>6. ASSUME NEW u \in Threads PROVE ~Failed(u)'
    BY <2>3, <2>4, <2>5
  <2>7. \A u \in Threads : nested'[u] = nested[u] /\ word.state \notin Ended
    BY <2>1, <2>4
  <2>8. \A u \in Threads : answer[u] # AlreadyFailed /\ answer[u][1] # "NotOperational"
    BY <2>1
  <2>9. ASSUME NEW u \in Threads, u # t PROVE Told(u)'
    BY <2>2, <2>5, <2>6, <2>7, <2>8, <2>9
  <2>10. Told(t)'
    BY <2>2, <2>4, <2>6, <2>7
  <2> HIDE DEF Told
  <2>11. QED
    BY <2>9, <2>10
<1>13. CASE CommitRefused(t)
  BY <1>13 DEF CommitRefused, Goto, threadVars, ClaimWord, HasOwnerId
<1>14. CASE RollBackProfile(t)
  BY <1>14 DEF RollBackProfile, Goto, threadVars
<1>15. CASE ReportState(t)
  BY <1>15 DEF ReportState, Goto, Return, Decode
<1>16. CASE DropGuard(t)
  BY <1>16 DEF DropGuard, Goto, Settle, Exchange, ClaimWord, HasOwnerId, EndCall
<1>17. CASE Spawn(t)
  BY <1>17 DEF Spawn, Goto
<1>18. CASE Exit(t)
  <2>1. /\ pc' = [pc EXCEPT ![t] = "gone"] /\ answer' = [answer EXCEPT ![t] = Unanswered]
        /\ word' = word /\ opened' = opened /\ nested' = nested
    BY <1>18 DEF Exit, Goto
  <2>2. \A u \in Threads : u # t => pc'[u] = pc[u] /\ answer'[u] = answer[u]
    BY <2>1
  <2>3. pc'[t] = "gone" /\ answer'[t] = Unanswered
    BY <2>1
  <2>4. ASSUME NEW u \in Threads, u # t PROVE Told(u)'
    BY <2>1, <2>2, <2>4
  <2>5. Told(t)'
    BY <2>1, <2>3
  <2> HIDE DEF Told
  <2>6. QED
    BY <2>4, <2>5
<1>19. CASE CallInitialize(t)
  <2>1. /\ pc' = [pc EXCEPT ![t] = "claim"] /\ answer' = [answer EXCEPT ![t] = Unanswered]
        /\ word' = word /\ opened' = opened /\ nested' = nested
    BY <1>19 DEF CallInitialize, Goto
  <2>2. \A u \in Threads : u # t => pc'[u] = pc[u] /\ answer'[u] = answer[u]
    BY <2>1
  <2>3. pc'[t] = "claim" /\ answer'[t] = Unanswered
    BY <2>1
  <2>4. ASSUME NEW u \in Threads, u # t PROVE Told(u)'
    BY <2>1, <2>2, <2>4
  <2>5. Told(t)'
    BY <2>1, <2>3
  <2> HIDE DEF Told
  <2>6. QED
    BY <2>4, <2>5
<1>20. CASE Reenter(t)
  BY <1>20 DEF Reenter, Goto, Testing
<1>21. CASE PassGate(t)
  BY <1>21 DEF PassGate, Goto, threadVars
<1>22. CASE PassProfile(t)
  BY <1>22 DEF PassProfile, Goto
<1>23. CASE RefuseProfile(t)
  BY <1>23 DEF RefuseProfile, Goto, threadVars
<1>24. CASE Deliver(t)
  BY <1>24 DEF Deliver, Goto
<1>25. CASE EnterInternal(t)
  BY <1>25 DEF EnterInternal, Goto, threadVars
<1>26. CASE LeaveInternal(t)
  BY <1>26 DEF LeaveInternal, Goto, threadVars
<1>27. CASE EnterErrorState(t)
  BY <1>27 DEF EnterErrorState, Goto, threadVars, Testing
<1>28. QED
  BY <1>1, <1>2, <1>3, <1>4, <1>5, <1>6, <1>7, <1>8, <1>9, <1>10, <1>11, <1>12, <1>13, <1>14, <1>15, <1>16, <1>17, <1>18, <1>19, <1>20, <1>21, <1>22, <1>23, <1>24, <1>25, <1>26, <1>27 DEF Progress, Application

-----------------------------------------------------------------------------
(* The theorems.                                                           *)

\* A process starts with its word at PowerOff and no thread in a call.
LEMMA InitIInv == Init => IInv
<1> SUFFICES ASSUME Init PROVE IInv
  OBVIOUS
<1> USE ModuleAssumption DEF Init, Plain
<1>1. TypeOK
  BY DEF TypeOK, Words, States, PCs, Answers, Unanswered
<1>2. ThreadInv /\ WordInv /\ OpenInv
  BY DEF ThreadInv, WordInv, OpenInv, Undecided, Running
<1>3. SeenInv /\ AnswerInv
  BY DEF SeenInv, AnswerInv, Told, Ended, Failed, Unanswered, Ok, AlreadyInitialized,
         AlreadyFailed, NotOperational, SelfTestFailed, ThreadIdCheck,
         IntegrityNotAttested, Unwound
<1>4. QED
  BY <1>1, <1>2, <1>3 DEF IInv

\* A step of something else leaves the invariant as it is.
LEMMA StutterIInv == IInv /\ UNCHANGED vars => IInv'
<1> SUFFICES ASSUME IInv, UNCHANGED vars PROVE IInv'
  OBVIOUS
<1> USE DEF IInv, vars
<1>1. TypeOK'
  BY DEF TypeOK
<1>2. ThreadInv' /\ WordInv' /\ OpenInv'
  BY DEF ThreadInv, WordInv, OpenInv, Undecided
<1>3. SeenInv' /\ AnswerInv'
  BY DEF SeenInv, AnswerInv, Told, Failed
<1>4. QED
  BY <1>1, <1>2, <1>3

\* The inductive invariant: every reachable state satisfies it.
THEOREM InductiveInvariant == Spec => []IInv
<1>1. IInv /\ [Next]_vars => IInv'
  <2> SUFFICES ASSUME IInv, [Next]_vars PROVE IInv'
    OBVIOUS
  <2>1. CASE UNCHANGED vars
    BY <2>1, StutterIInv
  <2>2. CASE Next
    <3>1. PICK t \in Threads : Progress(t) \/ Application(t)
      BY <2>2 DEF Next
    <3>2. TypeOK /\ ThreadInv /\ WordInv /\ OpenInv /\ SeenInv /\ AnswerInv
      BY DEF IInv
    <3>3. TypeOK' /\ ThreadInv'
      BY <3>1, <3>2, TypeStep, IdStep
    <3>4. WordInv' /\ OpenInv'
      BY <3>1, <3>2, WordStep, OpenStep
    <3>5. SeenInv' /\ AnswerInv'
      BY <3>1, <3>2, SeenStep, AnswerStep
    <3>6. QED
      BY <3>3, <3>4, <3>5 DEF IInv
  <2>3. QED
    BY <2>1, <2>2
<1>2. QED
  BY InitIInv, <1>1, PTL DEF Spec

\* Every variable keeps its type (TypeOK), in particular the state word.
THEOREM TypeCorrect == Spec => []TypeOK
<1>1. IInv => TypeOK
  BY DEF IInv
<1>2. QED
  BY InductiveInvariant, <1>1, PTL

\* STATE holds only words that current_state reads as what was written.
LEMMA WellFormedWord == IInv => Decode(word) = word.state
BY DEF IInv, WordInv, Decode

\* initialize_as, settle, UnwindToError: a SelfTest word never outlives the call
\* that claimed it, and one call at a time is past its claim.
THEOREM SelfTestOwned == Spec => []SelfTestHasRunner
<1>1. IInv => SelfTestHasRunner
  BY WellFormedWord DEF IInv, WordInv, Undecided, Running, SelfTestHasRunner
<1>2. QED
  BY InductiveInvariant, <1>1, PTL

\* initialize_as: whoever finds the module Operational finds a module whose
\* opening call had an integrity group and passed every entry.
THEOREM OpenedOnlyByTests == Spec => []OpenedByTests
<1>1. IInv => OpenedByTests
  BY WellFormedWord DEF IInv, OpenInv, OpenedByTests
<1>2. QED
  BY InductiveInvariant, <1>1, PTL

\* require_operational then require_allowed: the two loads of an admitted
\* service see the opening call's profile.
THEOREM ServiceProfile == Spec => []ServedWithinProfile
<1>1. IInv => ServedWithinProfile
  BY DEF IInv, OpenInv, ServedWithinProfile
<1>2. QED
  BY InductiveInvariant, <1>1, PTL

\* The rollback of PROFILE: a module that never opened reports the default.
THEOREM DefaultAfterFailure == Spec => []FailureKeepsDefault
<1>1. IInv => FailureKeepsDefault
  BY DEF IInv, OpenInv, Running, FailureKeepsDefault
<1>2. QED
  BY InductiveInvariant, <1>1, PTL

\* What initialise told a caller stays true for the life of the process.
THEOREM AnswersStand == Spec => []AnswersHold
<1>1. IInv => AnswersHold
  <2> SUFFICES ASSUME IInv, NEW t \in Threads
               PROVE  /\ pc[t] \notin Running /\ answer[t] \in {Ok, AlreadyInitialized}
                           => opened # NoCall
                      /\ pc[t] \notin Running /\ Failed(t) =>
                           opened = NoCall /\ word.state \in Ended
                      /\ answer[t] = AlreadyFailed => word.state \in Ended
                      /\ \A s \in States : answer[t] = NotOperational(s) =>
                           s = "Error" /\ word.state = "Error"
                      /\ nested[t] \in {Unanswered, NotOperational("SelfTest"), AlreadyFailed}
    BY WellFormedWord DEF AnswersHold, Ended
  <2>1. answer[t][1] = "NotOperational" =>
          answer[t] = NotOperational("Error") /\ word.state = "Error"
    BY DEF IInv, AnswerInv, Told
  <2>2. \A s \in States : answer[t] = NotOperational(s) => s = "Error" /\ word.state = "Error"
    BY <2>1 DEF NotOperational
  <2>3. QED
    BY <2>2 DEF IInv, AnswerInv, Told, Running
<1>2. QED
  BY InductiveInvariant, <1>1, PTL
-----------------------------------------------------------------------------
(* What a step may do, and the refinement.                                 *)

\* The seven kinds of step that store STATE, and where each may take it.
LEMMA WordSteps ==
  ASSUME IInv, NEW t \in Threads, Progress(t) \/ Application(t)
  PROVE  \/ word' = word
         \/ word' = Plain("Error")
         \/ word.state = "PowerOff" /\ WinClaim(t)
         \/ word.state = "SelfTest" /\ RefuseEmptyGroup(t) /\ word' = Plain("IntegrityUnverified")
         \/ word.state = "SelfTest" /\ Commit(t) /\ word' = Plain("Operational")
<1> USE DEF Exchange, Plain
<1>1. CASE WinClaim(t)
  BY <1>1 DEF WinClaim
<1>2. CASE ClaimWithoutId(t)
  BY <1>2 DEF ClaimWithoutId, ClaimWord
<1>3. CASE RefuseEmptyGroup(t)
  <2>1. HasOwnerId(t) /\ ClaimWord(t) = SelfTestWord(id[t])
    BY <1>3 DEF RefuseEmptyGroup, Return, Goto, IInv, WordInv, Running, HasOwnerId, ClaimWord
  <2>2. QED
    BY <1>3, <2>1 DEF RefuseEmptyGroup, Settle, SelfTestWord
<1>4. CASE FailEntry(t)
  BY <1>4 DEF FailEntry, Settle
<1>5. CASE Commit(t)
  <2>1. HasOwnerId(t) /\ ClaimWord(t) = SelfTestWord(id[t])
    BY <1>5 DEF Commit, Return, Goto, IInv, WordInv, Running, HasOwnerId, ClaimWord
  <2>2. QED
    BY <1>5, <2>1 DEF Commit, SelfTestWord
<1>6. CASE DropGuard(t)
  BY <1>6 DEF DropGuard, Settle
<1>7. CASE EnterErrorState(t)
  BY <1>7 DEF EnterErrorState
<1>8. CASE LoseClaim(t) \/ SpinOnce(t) \/ AnswerLoser(t) \/ PassEntry(t) \/ UnwindEntry(t)
           \/ AnswerReentrant(t) \/ PublishProfile(t) \/ CommitRefused(t)
           \/ RollBackProfile(t) \/ ReportState(t)
  BY <1>8 DEF LoseClaim, SpinOnce, AnswerLoser, PassEntry, UnwindEntry, AnswerReentrant,
              PublishProfile, CommitRefused, RollBackProfile, ReportState
<1>9. CASE Spawn(t) \/ Exit(t) \/ CallInitialize(t) \/ Reenter(t) \/ PassGate(t)
           \/ PassProfile(t) \/ RefuseProfile(t) \/ Deliver(t) \/ EnterInternal(t)
           \/ LeaveInternal(t)
  BY <1>9 DEF Spawn, Exit, CallInitialize, Reenter, PassGate, PassProfile, RefuseProfile,
              Deliver, EnterInternal, LeaveInternal
<1>10. QED
  BY <1>1, <1>2, <1>3, <1>4, <1>5, <1>6, <1>7, <1>8, <1>9 DEF Progress, Application

\* The state machine in the header of oxicrypt-module: Error is terminal, and
\* Operational is entered from SelfTest alone.
THEOREM ForwardOnly == Spec => StateMovesForward
<1>1. IInv /\ IInv' /\ [Next]_vars =>
        [Decode(word') # Decode(word) => <<Decode(word), Decode(word')>> \in Moves]_word
  <2> SUFFICES ASSUME IInv, IInv', [Next]_vars, word' # word
               PROVE  <<Decode(word), Decode(word')>> \in Moves
    OBVIOUS
  <2>1. Decode(word) = word.state /\ word.state \in States
    BY WellFormedWord DEF IInv, TypeOK, Words
  <2>2. Decode(word') = word'.state
    BY DEF IInv, WordInv, Decode
  <2>3. PICK t \in Threads : Progress(t) \/ Application(t)
    BY DEF Next, vars
  <2>4. CASE word' = Plain("Error")
    BY <2>1, <2>2, <2>4 DEF Moves, Plain
  <2>5. CASE word.state = "PowerOff" /\ WinClaim(t)
    <3>1. word' = SelfTestWord(id[t])
      BY <2>5 DEF WinClaim, Exchange, ClaimWord
    <3>2. QED
      BY <2>1, <2>2, <2>5, <3>1 DEF Moves, SelfTestWord
  <2>6. CASE word.state = "SelfTest" /\ word' \in {Plain("IntegrityUnverified"), Plain("Operational")}
    BY <2>1, <2>2, <2>6 DEF Moves, Plain
  <2>7. QED
    BY <2>3, <2>4, <2>5, <2>6, WordSteps
<1>2. QED
  BY InductiveInvariant, <1>1, PTL DEF Spec, StateMovesForward

\* require_self_test_started: no thread but the one running the self-tests is
\* admitted outside Operational.
THEOREM InternalGuard == Spec => GuardOnlyForRunner
<1>1. IInv /\ [Next]_vars =>
        [\A t \in Threads : pc[t] = "idle" /\ pc'[t] = "internal"
           => Decode(word) = "Operational"]_vars
  <2> SUFFICES ASSUME IInv, Next, NEW u \in Threads, pc[u] = "idle", pc'[u] = "internal"
               PROVE  Decode(word) = "Operational"
    OBVIOUS
  <2>1. PICK t \in Threads : Progress(t) \/ Application(t)
    BY DEF Next
  <2>2. pc \in [Threads -> PCs]
    BY DEF IInv, TypeOK
  <2>3. EnterInternal(u)
    BY <2>1, <2>2 DEF Progress, Application, Goto, Return, WinClaim, ClaimWithoutId,
       LoseClaim, SpinOnce, AnswerLoser, RefuseEmptyGroup, PassEntry, FailEntry,
       UnwindEntry, AnswerReentrant, PublishProfile, Commit, CommitRefused,
       RollBackProfile, ReportState, DropGuard, Spawn, Exit, CallInitialize, Reenter,
       PassGate, PassProfile, RefuseProfile, Deliver, LeaveInternal, EnterInternal,
       EnterErrorState
  <2>4. ~(Decode(word) = "SelfTest" /\ HasOwnerId(u) /\ word = SelfTestWord(id[u]))
    <3>1. SUFFICES ASSUME word.state = "SelfTest", word = SelfTestWord(id[u]), HasOwnerId(u)
                   PROVE  FALSE
      BY WellFormedWord
    <3>2. PICK r \in Threads : Undecided(r) /\ word = SelfTestWord(id[r])
      BY <3>1 DEF IInv, WordInv
    <3>3. id[r] = id[u] /\ id[u] # NoOwner
      BY <3>1, <3>2, ModuleAssumption DEF SelfTestWord, HasOwnerId
    <3>4. r = u
      BY <3>3 DEF IInv, ThreadInv
    <3>5. QED
      BY <3>2, <3>4 DEF Undecided
  <2>5. QED
    BY <2>3, <2>4 DEF EnterInternal, GuardAdmits, Decode, Plain
<1>2. QED
  BY InductiveInvariant, <1>1, PTL DEF Spec, GuardOnlyForRunner

\* UnwindToError: "the exchange below succeeds only when a self-test unwinds".
THEOREM UnwindGuardIsIdle == Spec => GuardActsOnUnwind
<1>1. IInv /\ [Next]_vars =>
        [\A t \in Threads : pc[t] = "drop" /\ pc'[t] = "idle" /\ word' # word
           => answer[t] = Unwound]_vars
  <2> SUFFICES ASSUME IInv, Next, NEW u \in Threads,
                      pc[u] = "drop", pc'[u] = "idle", word' # word
               PROVE  answer[u] = Unwound
    OBVIOUS
  <2>1. PICK t \in Threads : Progress(t) \/ Application(t)
    BY DEF Next
  <2>2. pc \in [Threads -> PCs]
    BY DEF IInv, TypeOK
  <2>3. DropGuard(u)
    BY <2>1, <2>2 DEF Progress, Application, Goto, Return, WinClaim, ClaimWithoutId,
       LoseClaim, SpinOnce, AnswerLoser, RefuseEmptyGroup, PassEntry, FailEntry,
       UnwindEntry, AnswerReentrant, PublishProfile, Commit, CommitRefused,
       RollBackProfile, ReportState, DropGuard, Spawn, Exit, CallInitialize, Reenter,
       PassGate, PassProfile, RefuseProfile, Deliver, LeaveInternal, EnterInternal,
       EnterErrorState
  <2>4. ClaimWord(u) = SelfTestWord(id[u]) /\ word = ClaimWord(u)
    BY <2>3 DEF DropGuard, Settle, Exchange, ClaimWord, HasOwnerId, IInv, WordInv, Running
  <2>5. QED
    BY <2>4 DEF IInv, WordInv, SelfTestWord
<1>2. QED
  BY InductiveInvariant, <1>1, PTL DEF Spec, GuardActsOnUnwind

\* oxicrypt-module implements the one-shot lifecycle: the profile in force
\* changes only together with the phase.
THEOREM ImplementsLifecycle == Spec => LifecycleSpec
<1>1. Init => Lifecycle!Init
  BY DEF Init, Lifecycle!Init, Decode, Plain
<1>2. IInv /\ IInv' /\ [Next]_vars => [Lifecycle!Next]_(Lifecycle!lifecycleVars)
  <2> SUFFICES ASSUME IInv, IInv', [Next]_vars
               PROVE  [Lifecycle!Next]_(Lifecycle!lifecycleVars)
    OBVIOUS
  <2>1. Decode(word) = word.state /\ word \in Words
    BY WellFormedWord DEF IInv, TypeOK
  <2>2. Decode(word') = word'.state /\ word' \in Words /\ policy' \in Profiles
    BY DEF IInv, TypeOK, WordInv, Decode
  <2>4. CASE UNCHANGED vars
    BY <2>4 DEF vars, Lifecycle!lifecycleVars, Decode
  <2>5. ASSUME NEW t \in Threads, Progress(t) \/ Application(t)
        PROVE  [Lifecycle!Next]_(Lifecycle!lifecycleVars)
    <3>1. CASE word' = word
      <4>1. word.state = "Operational" => policy' = policy
        <5>1. SUFFICES ASSUME word.state = "Operational", policy' # policy PROVE FALSE
          OBVIOUS
        <5>2. PublishProfile(t) \/ RollBackProfile(t)
          BY <2>5, <5>1 DEF Progress, Application, WinClaim, ClaimWithoutId,
             LoseClaim, SpinOnce, AnswerLoser, RefuseEmptyGroup, PassEntry, FailEntry,
             UnwindEntry, AnswerReentrant, Commit, CommitRefused, ReportState, DropGuard,
             Spawn, Exit, CallInitialize, Reenter, PassGate, PassProfile, RefuseProfile,
             Deliver, LeaveInternal, EnterInternal, EnterErrorState
        <5>3. pc[t] \in {"run", "rollback"}
          BY <5>2 DEF PublishProfile, RollBackProfile, Goto
        <5>4. QED
          BY <5>1, <5>3 DEF IInv, OpenInv, Running
      <4>2. QED
        BY <3>1, <4>1, <2>1, <2>2 DEF Lifecycle!lifecycleVars
    <3>2. CASE word' = Plain("Error")
      BY <3>2, <2>1, <2>2 DEF Lifecycle!Next, Lifecycle!Latch, Plain
    <3>3. CASE word.state = "PowerOff" /\ WinClaim(t)
      <4>1. word' = SelfTestWord(id[t]) /\ id[t] \in OsIds
        BY <3>3, ModuleAssumption DEF WinClaim, Exchange, ClaimWord, HasOwnerId
      <4>2. QED
        BY <3>3, <4>1, <2>1, <2>2 DEF Lifecycle!Next, Lifecycle!Start, SelfTestWord
    <3>4. CASE word.state = "SelfTest" /\ word' = Plain("IntegrityUnverified")
      BY <3>4, <2>1, <2>2 DEF Lifecycle!Next, Lifecycle!Decline, Plain
    <3>5. CASE word.state = "SelfTest" /\ word' = Plain("Operational")
      BY <3>5, <2>1, <2>2 DEF Lifecycle!Next, Lifecycle!Open, Plain
    <3>6. QED
      BY <2>5, <3>1, <3>2, <3>3, <3>4, <3>5, WordSteps
  <2>6. QED
    BY <2>4, <2>5 DEF Next
<1>3. QED
  BY InductiveInvariant, <1>1, <1>2, PTL DEF Spec, LifecycleSpec, Lifecycle!Spec

-----------------------------------------------------------------------------
(* Initialisation behind the C interface.                                  *)

Places == {"none", "fast", "collect", "module", "ready", "indicator", "profile"}

FrameOK ==
  /\ linked \in {"native", "cdylib"}
  /\ frame \in [Threads -> [at : Places, want : Profiles \cup {NoCall}, via : {"c", "rust"}]]

\* A native program never enters the C library.
NativeInv ==
  linked = "native" =>
    /\ codes = {} /\ modules = {}
    /\ \A t \in Threads : frame[t].at = "none"

\* Behind the C interface an open module stays open, and each code is as lasting as
\* what it was made from.
OutcomeInv ==
  linked = "cdylib" =>
    /\ opened # NoCall => word.state = "Operational"
    /\ "Ok" \in codes => opened # NoCall
    /\ \A c \in codes : c # "Ok" => word.state \in Ended

\* A thread waiting for initialize_with_profile is in it, or has its answer.
FrameInv ==
  linked = "cdylib" =>
    \A t \in Threads :
      /\ answer[t] # Unwound
      /\ frame[t].at = "module" =>
           /\ pc[t] \in {"idle", "claim", "wait"} \cup Running
           /\ pc[t] \in {"idle", "drop"} => answer[t] # Unanswered
      /\ frame[t].at = "profile" => opened # NoCall

FInv == FrameOK /\ NativeInv /\ OutcomeInv /\ FrameInv /\ ModuleHasProfile

-----------------------------------------------------------------------------
(* A program behind the C interface is a program ModuleState describes.    *)

\* Each step of a program behind the C interface is one of the module, or none.
LEMMA FfiIsModule == [FfiNext]_allVars => [Next]_vars
<1> SUFFICES ASSUME FfiNext PROVE [Next]_vars
  BY DEF allVars
<1>1. PICK t \in Threads : OxiInit(t) \/ FfiStep(t) \/ ModuleStep(t) \/ LatchingTest(t)
                             \/ ThreadStep(t) \/ NativeStep(t)
  BY DEF FfiNext
<1>2. CASE OxiInit(t)
  BY <1>2 DEF OxiInit
<1>3. CASE FfiStep(t)
  <2>1. CASE Initialize(t)
    BY <2>1 DEF Initialize, Next, Application
  <2>2. CASE FastPath(t) \/ AfterInitialize(t) \/ CheckReady(t) \/ CheckIndicator(t) \/ CheckProfile(t)
    BY <2>2 DEF FastPath, AfterInitialize, CheckReady, CheckIndicator, CheckProfile
  <2>3. QED
    BY <1>3, <2>1, <2>2 DEF FfiStep
<1>4. CASE ModuleStep(t)
  BY <1>4 DEF ModuleStep, Next
<1>5. CASE LatchingTest(t)
  BY <1>5 DEF LatchingTest, Next, Application
<1>6. CASE ThreadStep(t)
  BY <1>6 DEF ThreadStep, Next, Application
<1>7. CASE NativeStep(t)
  BY <1>7 DEF NativeStep, Next
<1>8. QED
  BY <1>1, <1>2, <1>3, <1>4, <1>5, <1>6, <1>7

\* So the invariant of the module holds behind the C interface too.
THEOREM ModuleInvariant == FfiSpec => []IInv
<1>1. FfiInitial => Init
  BY DEF FfiInitial
<1>2. FfiSpec => Spec
  BY <1>1, FfiIsModule, PTL DEF FfiSpec, Spec
<1>3. QED
  BY <1>2, InductiveInvariant, PTL

-----------------------------------------------------------------------------
(* What a step of the module keeps.                                        *)

\* A failed module stays failed.
LEMMA EndedStays ==
  ASSUME IInv, NEW t \in Threads, Progress(t) \/ Application(t), word.state \in Ended
  PROVE  word'.state \in Ended
BY WordSteps DEF Ended, Plain

\* The call that opened the module is recorded once, by the exchange that opens it.
LEMMA OpenedOnce ==
  ASSUME IInv, NEW t \in Threads, Progress(t) \/ Application(t)
  PROVE  opened' = opened \/ (opened = NoCall /\ word' = Plain("Operational"))
<1>1. CASE Commit(t)
  BY <1>1 DEF Commit, Return, Goto, Exchange, IInv, OpenInv, Running
<1>2. CASE ~Commit(t)
  BY <1>2 DEF Progress, Application, WinClaim, ClaimWithoutId, LoseClaim, SpinOnce, AnswerLoser,
       RefuseEmptyGroup, PassEntry, FailEntry, UnwindEntry, AnswerReentrant, PublishProfile,
       CommitRefused, RollBackProfile, ReportState, DropGuard, Spawn, Exit, CallInitialize, Reenter,
       PassGate, PassProfile, RefuseProfile, Deliver, EnterInternal, LeaveInternal, EnterErrorState
<1>3. QED
  BY <1>1, <1>2

\* No call in progress stores over an open module.
LEMMA OpenStays ==
  ASSUME IInv, NEW t \in Threads, Progress(t), word.state = "Operational"
  PROVE  word' = word
<1> USE DEF Exchange, Plain
<1>1. opened # NoCall
  BY DEF IInv, OpenInv
<1>2. pc[t] \notin Running \ {"drop"}
  BY <1>1 DEF IInv, OpenInv
<1>3. CASE DropGuard(t)
  <2>1. ClaimWord(t) = SelfTestWord(id[t])
    BY <1>3 DEF DropGuard, Goto, IInv, WordInv, Running, HasOwnerId, ClaimWord
  <2>2. QED
    BY <1>3, <2>1 DEF DropGuard, Settle, SelfTestWord
<1>4. CASE WinClaim(t) \/ ClaimWithoutId(t)
  BY <1>4 DEF WinClaim, ClaimWithoutId
<1>5. CASE RefuseEmptyGroup(t) \/ FailEntry(t) \/ Commit(t)
  BY <1>2, <1>5 DEF RefuseEmptyGroup, FailEntry, Commit, Return, Goto, Running
<1>6. QED
  BY <1>3, <1>4, <1>5 DEF Progress, LoseClaim, SpinOnce, AnswerLoser, PassEntry, UnwindEntry,
       AnswerReentrant, PublishProfile, CommitRefused, RollBackProfile, ReportState

-----------------------------------------------------------------------------
(* One lemma per kind of step.                                             *)

\* Such a program starts outside oxi_init.
LEMMA InitFInv == FfiInitial => FInv
<1> SUFFICES ASSUME FfiInitial PROVE FInv
  OBVIOUS
<1> USE DEF FfiInitial, Init, Idle
<1>1. FrameOK /\ NativeInv /\ ModuleHasProfile
  BY DEF FrameOK, NativeInv, ModuleHasProfile, Places
<1>2. OutcomeInv /\ FrameInv
  BY DEF OutcomeInv, FrameInv, Unwound, Unanswered, Plain
<1>3. QED
  BY <1>1, <1>2 DEF FInv

\* A code is handed out: it has to agree with the module, as FInv says.
LEMMA CodeStep ==
  ASSUME FInv, UNCHANGED <<vars, linked, modules>>, NEW t \in Threads, NEW code, ReturnCode(t, code),
         linked = "cdylib",
         code = "Ok" => opened # NoCall,
         code # "Ok" => word.state \in Ended
  PROVE  FInv'
<1> USE DEF FInv, ReturnCode, At, Leave, Idle, vars
<1>1. FrameOK'
  BY DEF FrameOK, Places
<1>2. NativeInv' /\ ModuleHasProfile'
  BY DEF NativeInv, ModuleHasProfile, FrameOK
<1>3. OutcomeInv'
  BY DEF OutcomeInv
<1>4. FrameInv'
  BY DEF FrameInv, FrameOK
<1>5. QED
  BY <1>1, <1>2, <1>3, <1>4

\* The steps of oxi_init and Module::init around the module's own.
LEMMA FfiStepKeeps ==
  ASSUME IInv, FInv, NEW t \in Threads, OxiInit(t) \/ FfiStep(t)
  PROVE  FInv'
<1> USE DEF FInv
<1>1. CASE OxiInit(t)
  <2> USE <1>1 DEF OxiInit, vars
  <2>1. FrameOK'
    BY FfiAssumption DEF FrameOK, Places
  <2>2. NativeInv' /\ OutcomeInv' /\ ModuleHasProfile'
    BY DEF NativeInv, OutcomeInv, ModuleHasProfile
  <2>3. FrameInv'
    BY DEF FrameInv, FrameOK
  <2>4. QED
    BY <2>1, <2>2, <2>3
<1>2. linked = "cdylib" \/ ~FfiStep(t)
  BY DEF FrameOK, NativeInv, FfiStep, FastPath, Initialize, AfterInitialize, CheckReady, CheckIndicator, CheckProfile
<1>3. CASE FastPath(t)
  <2>1. CASE word = Plain("Operational")
    <3>1. opened # NoCall
      BY <2>1 DEF IInv, OpenInv, Plain
    <3>2. QED
      BY <1>2, <1>3, <2>1, <3>1, CodeStep DEF FastPath, FfiStep
  <2>2. CASE word # Plain("Operational")
    <3> USE <1>3, <2>2 DEF FastPath, At, vars
    <3>1. FrameOK'
      BY DEF FrameOK, Places
    <3>2. QED
      BY <1>2, <3>1 DEF NativeInv, OutcomeInv, FrameInv, ModuleHasProfile, FrameOK, FfiStep
  <2>3. QED
    BY <2>1, <2>2
<1>4. CASE Initialize(t)
  <2> USE <1>4 DEF Initialize, CallInitialize, Goto, At
  <2>1. FrameOK'
    BY DEF FrameOK, Places
  <2>2. NativeInv' /\ OutcomeInv' /\ ModuleHasProfile'
    BY <1>2 DEF NativeInv, OutcomeInv, ModuleHasProfile, FfiStep
  <2>3. FrameInv'
    BY DEF FrameInv, FrameOK, IInv, TypeOK, Unwound, Unanswered
  <2>4. QED
    BY <2>1, <2>2, <2>3
<1>5. CASE AfterInitialize(t)
  <2>1. answer[t] \in Answers \ {Unanswered, Unwound}
    BY <1>2, <1>5 DEF AfterInitialize, FrameInv, IInv, TypeOK, FfiStep
  <2>2. Code(answer[t]) = "Ok" => opened # NoCall
    BY <2>1 DEF Code, IInv, AnswerInv, Told
  <2>3. Code(answer[t]) # "Ok" => word.state \in Ended
    <3>1. pc[t] = "idle"
      BY <1>5 DEF AfterInitialize
    <3>2. CASE answer[t] \in {SelfTestFailed, ThreadIdCheck, IntegrityNotAttested, AlreadyFailed}
      BY <3>1, <3>2 DEF IInv, AnswerInv, Told, Failed
    <3>3. CASE \E s \in States : answer[t] = NotOperational(s)
      BY <3>3 DEF IInv, AnswerInv, Told, NotOperational, Ended
    <3>4. QED
      BY <2>1, <3>2, <3>3 DEF Answers, Code
  <2>4. QED
    BY <1>2, <1>5, <2>2, <2>3, CodeStep DEF AfterInitialize, FfiStep
<1>6. CASE CheckReady(t) \/ CheckIndicator(t)
  <2> USE <1>6 DEF CheckReady, CheckIndicator, At, Leave, Idle, vars
  <2>1. FrameOK'
    BY DEF FrameOK, Places
  <2>2. NativeInv' /\ OutcomeInv' /\ ModuleHasProfile'
    BY <1>2 DEF NativeInv, OutcomeInv, ModuleHasProfile, FfiStep
  <2>3. FrameInv'
    BY DEF FrameInv, FrameOK
  <2>4. QED
    BY <2>1, <2>2, <2>3
<1>7. CASE CheckProfile(t)
  <2> USE <1>7 DEF CheckProfile, Leave, Idle, vars
  <2>1. FrameOK'
    BY DEF FrameOK, Places
  <2>2. opened # NoCall /\ policy = opened.profile
    BY <1>2 DEF FrameInv, IInv, OpenInv, FfiStep
  <2>3. NativeInv' /\ OutcomeInv' /\ ModuleHasProfile'
    BY <1>2, <2>2 DEF NativeInv, OutcomeInv, ModuleHasProfile, FfiStep
  <2>4. FrameInv'
    BY DEF FrameInv, FrameOK
  <2>5. QED
    BY <2>1, <2>3, <2>4
<1>8. QED
  BY <1>1, <1>3, <1>4, <1>5, <1>6, <1>7 DEF FfiStep

\* The module's own steps, other than what they do to the thread that takes them.
LEMMA OutcomeStep ==
  ASSUME IInv, FInv, NEW t \in Threads, ModuleStep(t) \/ LatchingTest(t) \/ ThreadStep(t) \/ NativeStep(t)
  PROVE  FrameOK' /\ NativeInv' /\ OutcomeInv' /\ ModuleHasProfile'
<1> USE DEF FInv
<1>1. UNCHANGED ffiVars /\ (Progress(t) \/ Application(t))
  BY DEF ModuleStep, LatchingTest, ThreadStep, NativeStep, Application
<1>2. FrameOK' /\ NativeInv'
  BY <1>1 DEF FrameOK, NativeInv, ffiVars
<1>3. opened # NoCall => opened' = opened
  BY <1>1, OpenedOnce
<1>4. ModuleHasProfile'
  BY <1>1, <1>3 DEF ModuleHasProfile, ffiVars
<1>5. OutcomeInv'
  <2> SUFFICES ASSUME linked = "cdylib" PROVE OutcomeInv'
    BY <1>1 DEF OutcomeInv, ffiVars
  <2>1. ASSUME opened' # NoCall PROVE word'.state = "Operational"
    <3>1. CASE opened = NoCall
      BY <1>1, <2>1, <3>1, OpenedOnce DEF Plain
    <3>2. CASE opened # NoCall
      <4>1. word.state = "Operational"
        BY <3>2 DEF OutcomeInv
      <4>2. CASE ModuleStep(t)
        BY <4>1, <4>2, OpenStays DEF ModuleStep
      <4>3. CASE LatchingTest(t)
        BY <3>2, <4>3 DEF LatchingTest, Testing, IInv, OpenInv, Running
      <4>4. CASE ThreadStep(t)
        BY <4>1, <4>4 DEF ThreadStep, Spawn, Exit, PassGate, PassProfile, RefuseProfile, Deliver
      <4>5. CASE NativeStep(t)
        BY <4>5 DEF NativeStep
      <4>6. QED
        BY <4>2, <4>3, <4>4, <4>5
    <3>3. QED
      BY <3>1, <3>2
  <2>2. "Ok" \in codes' => opened' # NoCall
    BY <1>1, <1>3 DEF OutcomeInv, ffiVars
  <2>3. \A c \in codes' : c # "Ok" => word'.state \in Ended
    BY <1>1, EndedStays DEF OutcomeInv, ffiVars
  <2>4. QED
    BY <2>1, <2>2, <2>3 DEF OutcomeInv
<1>6. QED
  BY <1>2, <1>4, <1>5

\* A thread in oxi_init leaves the module with an answer.
LEMMA FrameStep ==
  ASSUME IInv, FInv, NEW t \in Threads, ModuleStep(t) \/ LatchingTest(t) \/ ThreadStep(t) \/ NativeStep(t)
  PROVE  FrameInv'
<1> USE DEF FInv
<1>1. UNCHANGED ffiVars /\ (Progress(t) \/ Application(t))
  BY DEF ModuleStep, LatchingTest, ThreadStep, NativeStep, Application
<1>2. opened # NoCall => opened' = opened
  BY <1>1, OpenedOnce
<1> SUFFICES ASSUME linked = "cdylib" PROVE FrameInv'
  BY <1>1 DEF FrameInv, ffiVars
<1>3. CASE ThreadStep(t)
  <2>1. frame[t].at = "none" /\ frame' = frame
    BY <1>1, <1>3 DEF ThreadStep, ffiVars
  <2>2. \A u \in Threads \ {t} : pc'[u] = pc[u]
    BY <1>3 DEF ThreadStep, IInv, TypeOK, Spawn, Exit, PassGate, PassProfile, RefuseProfile, Deliver, Goto
  <2>3. \A u \in Threads : answer'[u] = answer[u] \/ (u = t /\ answer'[u] = Unanswered)
    BY <1>3 DEF ThreadStep, IInv, TypeOK, Spawn, Exit, PassGate, PassProfile, RefuseProfile, Deliver, threadVars
  <2>4. QED
    BY <1>2, <2>1, <2>2, <2>3 DEF FrameInv, Unanswered, Unwound
<1>4. CASE LatchingTest(t)
  BY <1>1, <1>2, <1>4 DEF FrameInv, ffiVars, LatchingTest, EnterErrorState, threadVars
<1>5. CASE ModuleStep(t)
  <2>1. answer'[t] # Unwound /\ Progress(t)
    BY <1>5 DEF ModuleStep
  <2>2. \A u \in Threads \ {t} : answer'[u] = answer[u] /\ pc'[u] = pc[u]
    <3> USE DEF IInv, TypeOK, Goto, Return
    <3>1. CASE WinClaim(t) \/ ClaimWithoutId(t) \/ LoseClaim(t) \/ SpinOnce(t) \/ AnswerLoser(t)
      BY <3>1 DEF WinClaim, ClaimWithoutId, LoseClaim, SpinOnce, AnswerLoser, threadVars
    <3>2. CASE RefuseEmptyGroup(t) \/ PassEntry(t) \/ FailEntry(t) \/ UnwindEntry(t) \/ AnswerReentrant(t)
      BY <3>2 DEF RefuseEmptyGroup, PassEntry, FailEntry, UnwindEntry, AnswerReentrant
    <3>3. CASE PublishProfile(t) \/ Commit(t) \/ CommitRefused(t) \/ RollBackProfile(t) \/ ReportState(t) \/ DropGuard(t)
      BY <3>3 DEF PublishProfile, Commit, CommitRefused, RollBackProfile, ReportState, DropGuard, threadVars
    <3>4. QED
      BY <2>1, <3>1, <3>2, <3>3 DEF Progress
  <2>3. ASSUME frame[t].at = "module"
        PROVE  /\ pc'[t] \in {"idle", "claim", "wait"} \cup Running
               /\ pc'[t] \in {"idle", "drop"} => answer'[t] # Unanswered
    <3> USE <2>1, <2>3 DEF IInv, TypeOK, Goto, Return, Running, Unanswered
    <3>1. CASE WinClaim(t) \/ LoseClaim(t) \/ SpinOnce(t)
      BY <3>1 DEF WinClaim, LoseClaim, SpinOnce, threadVars
    <3>2. CASE ClaimWithoutId(t) \/ AnswerLoser(t)
      BY <3>2 DEF ClaimWithoutId, AnswerLoser, ThreadIdCheck, Verdict, NotOperational, Spin, AlreadyInitialized, AlreadyFailed
    <3>3. CASE RefuseEmptyGroup(t) \/ FailEntry(t) \/ UnwindEntry(t) \/ Commit(t) \/ ReportState(t)
      BY <3>3 DEF RefuseEmptyGroup, FailEntry, UnwindEntry, Commit, ReportState, IntegrityNotAttested,
                  SelfTestFailed, Unwound, Ok, NotOperational
    <3>4. CASE PassEntry(t) \/ AnswerReentrant(t) \/ PublishProfile(t) \/ CommitRefused(t) \/ RollBackProfile(t)
      BY <3>4 DEF PassEntry, AnswerReentrant, PublishProfile, CommitRefused, RollBackProfile, threadVars, Testing
    <3>5. CASE DropGuard(t)
      BY <3>5 DEF DropGuard, FrameInv
    <3>6. QED
      BY <3>1, <3>2, <3>3, <3>4, <3>5 DEF Progress
  <2>4. QED
    BY <1>1, <1>2, <2>1, <2>2, <2>3 DEF FrameInv, ffiVars
<1>6. CASE NativeStep(t)
  BY <1>6 DEF NativeStep
<1>7. QED
  BY <1>3, <1>4, <1>5, <1>6

-----------------------------------------------------------------------------

\* The inductive invariant of a program behind the C interface, on top of the module's.
THEOREM FfiInvariant == FfiSpec => []FInv
<1>1. IInv /\ FInv /\ [FfiNext]_allVars => FInv'
  <2> SUFFICES ASSUME IInv, FInv, [FfiNext]_allVars PROVE FInv'
    OBVIOUS
  <2>1. CASE UNCHANGED allVars
    BY <2>1 DEF allVars, vars, ffiVars, FInv, FrameOK, NativeInv, OutcomeInv, FrameInv, ModuleHasProfile
  <2>2. CASE FfiNext
    <3>1. PICK t \in Threads : OxiInit(t) \/ FfiStep(t) \/ ModuleStep(t) \/ LatchingTest(t)
                                 \/ ThreadStep(t) \/ NativeStep(t)
      BY <2>2 DEF FfiNext
    <3>2. CASE OxiInit(t) \/ FfiStep(t)
      BY <3>2, FfiStepKeeps
    <3>3. CASE ModuleStep(t) \/ LatchingTest(t) \/ ThreadStep(t) \/ NativeStep(t)
      BY <3>3, OutcomeStep, FrameStep DEF FInv
    <3>4. QED
      BY <3>1, <3>2, <3>3
  <2>3. QED
    BY <2>1, <2>2
<1>2. QED
  BY InitFInv, ModuleInvariant, <1>1, PTL DEF FfiSpec

\* oxi_init, Module::init_with: whichever calls race, all callers are told that the module is
\* ready or all that it is not, and a Module is only handed out for the profile in force.
THEOREM CallersTold == FfiSpec => []CallersAgree
<1>1. FInv => CallersAgree
  <2> SUFFICES ASSUME FInv PROVE CallersAgree
    OBVIOUS
  <2>1. OutcomeIsShared
    BY DEF FInv, FrameOK, NativeInv, OutcomeInv, OutcomeIsShared, Ended
  <2>2. QED
    BY <2>1 DEF FInv, CallersAgree
<1>2. QED
  BY FfiInvariant, <1>1, PTL
=============================================================================
