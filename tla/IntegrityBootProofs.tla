------------------------- MODULE IntegrityBootProofs -------------------------
(***************************************************************************)
(* Proofs about IntegrityBoot, for any number of threads, any groups of    *)
(* entries and any image: an operational module was verified before it     *)
(* opened, and the status that a reader polls is true.                     *)
(***************************************************************************)
EXTENDS IntegrityBoot, Integers, TLAPS

Places ==
  {"idle", "boot", "bootFailed", "guard", "kat", "castPassed", "castFailed", "admit",
   "casts", "key", "image", "signature", "conclude", "detail", "status"}

TypeOK ==
  /\ phase \in {"PowerOff", "SelfTest", "Operational", "Error"}
  /\ owner \in Threads \cup {NoThread}
  /\ artifact \in Artifacts
  /\ group \in Seq(Entry) /\ next \in Seq(Entry)
  /\ booting \in Threads \cup {NoThread}
  /\ pc \in [Threads -> Places]
  /\ running \in [Threads -> Entry]
  /\ outcome \in [Threads -> Statuses]
  /\ passed \in [Casts -> BOOLEAN] /\ tested \subseteq Casts
  /\ status \in Statuses /\ detail \in Statuses /\ fingerprint \in BOOLEAN

\* What a thread runs at each place; a result is kept only until it is recorded.
PlaceInv == \A t \in Threads :
  /\ booting = t => pc[t] # "idle"
  /\ pc[t] \in {"boot", "bootFailed"} => booting = t
  /\ pc[t] = "guard" => running[t] \in Casts \cup Tests
  /\ pc[t] \in {"kat", "castPassed", "castFailed"} => running[t] \in Casts
  /\ pc[t] \in {"admit", "casts", "key", "image", "signature", "conclude", "detail", "status"} =>
       running[t] \in Tests
  /\ pc[t] = "status" => running[t] = "integrity_self_test"
  /\ pc[t] \notin {"conclude", "detail", "status"} => outcome[t] = "NotRun"

\* While there are self-tests, their thread is in the boot sequence, and it leaves that in
\* SelfTest or Error.  Nobody gets past a guard before, and a test that runs behind one for
\* another thread finds Error and has not passed.
BoundaryInv ==
  /\ phase = "SelfTest" => owner = booting /\ booting \in Threads
  /\ booting \in Threads => phase \in {"SelfTest", "Error"}
  /\ \A t \in Threads :
       /\ booting # t /\ pc[t] \notin {"idle", "guard"} => phase \in {"Operational", "Error"}
       /\ booting # t /\ pc[t] \in {"casts", "key", "image", "signature", "conclude", "detail",
                                    "status"} => phase = "Error" /\ outcome[t] # "Passed"

\* A CAST that is marked as passed did pass.
CastInv ==
  /\ \A c \in Casts : passed[c] => c \in tested
  /\ \A t \in Threads :
       /\ pc[t] = "castPassed" => running[t] \in tested
       /\ pc[t] \in {"key", "image", "signature"} => tested = Casts

\* What a test found is true and, when it is a failure, was latched before it is recorded.
OutcomeInv == \A t \in Threads :
  /\ pc[t] \in {"conclude", "detail", "status"} => outcome[t] # "NotRun"
  /\ pc[t] \in {"conclude", "detail", "status"} /\ outcome[t] = "Passed" =>
       artifact = "signed" /\ tested = Casts /\ fingerprint
  /\ pc[t] \in {"detail", "status"} /\ outcome[t] # "Passed" => phase = "Error"
  /\ pc[t] = "status" /\ outcome[t] # "Passed" => detail # "NotRun"

RecordInv ==
  /\ status \in Failures => phase = "Error" /\ detail # "NotRun"
  /\ status = "Passed" => artifact = "signed" /\ tested = Casts /\ fingerprint

\* What is known once the entry e has passed in the boot.
Verified(e) ==
  /\ artifact = "signed" /\ fingerprint
  /\ e = "integrity_self_test" => status = "Passed"

\* Every test of the group has passed, is running or is still to come.
ListInv ==
  /\ phase = "SelfTest" /\ pc[owner] # "bootFailed" =>
       \A i \in DOMAIN group : group[i] \in Tests =>
         \/ Verified(group[i])
         \/ pc[owner] # "boot" /\ running[owner] = group[i]
         \/ \E j \in DOMAIN next : next[j] = group[i]
  /\ phase = "Operational" => \A i \in DOMAIN group : group[i] \in Tests => Verified(group[i])

IInv ==
  TypeOK /\ PlaceInv /\ BoundaryInv /\ CastInv /\ OutcomeInv /\ RecordInv /\ ListInv

-----------------------------------------------------------------------------
\* The initial state.
LEMMA InvInit == Init => IInv
<1> SUFFICES ASSUME Init
             PROVE  IInv
  OBVIOUS
<1> USE BootAssumption DEF Init, Boundary!Init
<1>1. TypeOK
  <2>1. group \in Seq(Entry) /\ next \in Seq(Entry)
    OBVIOUS
  <2> QED
    BY <2>1 DEF TypeOK, Places, Casts, Entry, Statuses
<1>2. PlaceInv /\ BoundaryInv /\ OutcomeInv
  BY DEF PlaceInv, BoundaryInv, OutcomeInv
<1>3. CastInv /\ RecordInv /\ ListInv
  BY DEF CastInv, RecordInv, ListInv, Failures, Statuses
<1> QED
  BY <1>1, <1>2, <1>3 DEF IInv

\* Every variable keeps its type.
LEMMA TypeStep ==
  ASSUME TypeOK, PlaceInv, NEW t \in Threads, Step(t)
  PROVE  TypeOK'
<1> USE BootAssumption DEF TypeOK, PlaceInv, Places, Casts, Tests, Entry, Statuses, Failures,
  boundaryVars, bootVars, castVars, recordVars
<1>1. CASE StartBoot(t)
  BY <1>1 DEF StartBoot, Goto, Boundary!Start
<1>2. CASE RunEntry(t)
  BY <1>2 DEF RunEntry, Goto
<1>3. CASE FailBoot(t)
  BY <1>3 DEF FailBoot, Goto, Settle, LatchError, Boundary!Latch
<1>4. CASE FinishBoot(t)
  BY <1>4 DEF FinishBoot, Goto, Boundary!Open
<1>5. CASE CallDirectly(t)
  BY <1>5 DEF CallDirectly, Goto
<1>6. CASE OtherFailure(t)
  BY <1>6 DEF OtherFailure, LatchError, Boundary!Latch
<1>7. CASE RefuseCast(t)
  BY <1>7 DEF RefuseCast, Goto, Done
<1>8. CASE AdmitCast(t)
  BY <1>8 DEF AdmitCast, Goto, Admits
<1>9. CASE KatPasses(t)
  <2>1. /\ running[t] \in Casts
        /\ pc' = [pc EXCEPT ![t] = "castPassed"] /\ tested' = tested \cup {running[t]}
    BY <1>9 DEF KatPasses, Goto
  <2>2. pc' \in [Threads -> Places] /\ tested' \in SUBSET Casts
    BY <2>1
  <2>3. QED
    BY <1>9, <2>2 DEF KatPasses
<1>10. CASE StorePass(t)
  BY <1>10 DEF StorePass, Goto, Done
<1>11. CASE KatFails(t)
  BY <1>11 DEF KatFails, Goto
<1>12. CASE LatchCastFailure(t)
  BY <1>12 DEF LatchCastFailure, Goto, Done, LatchError, Boundary!Latch
<1>13. CASE RefuseTest(t)
  BY <1>13 DEF RefuseTest, Goto, Done
<1>14. CASE PassGuard(t)
  BY <1>14 DEF PassGuard, Goto, Admits
<1>15. CASE RefuseOperational(t)
  BY <1>15 DEF RefuseOperational, Goto, Done
<1>16. CASE AdmitTest(t)
  BY <1>16 DEF AdmitTest, Goto
<1>17. CASE CheckCasts(t)
  BY <1>17 DEF CheckCasts, Goto, Conclude, CastsPassed
<1>18. CASE ReadKey(t)
  BY <1>18 DEF ReadKey, Goto, Conclude
<1>19. CASE ReadImage(t)
  <2>1. pc' \in [Threads -> Places] /\ fingerprint' \in BOOLEAN
    BY <1>19 DEF ReadImage, Goto, Conclude
  <2>2. outcome' \in [Threads -> Statuses]
    BY <1>19 DEF ReadImage, Conclude
  <2> QED
    BY <1>19, <2>1, <2>2 DEF ReadImage
<1>20. CASE CheckSignature(t)
  BY <1>20 DEF CheckSignature, Goto, Conclude, Admits
<1>21. CASE LatchTestFailure(t)
  BY <1>21 DEF LatchTestFailure, Goto, LatchError, Boundary!Latch
<1>22. CASE ReturnUnrecorded(t)
  BY <1>22 DEF ReturnUnrecorded, Goto, Done
<1>23. CASE RecordDetail(t)
  BY <1>23 DEF RecordDetail, Goto
<1>24. CASE RecordStatus(t)
  BY <1>24 DEF RecordStatus, Goto, Done
<1> QED
  BY <1>1, <1>2, <1>3, <1>4, <1>5, <1>6, <1>7, <1>8, <1>9, <1>10, <1>11, <1>12, <1>13, <1>14, <1>15,
    <1>16, <1>17, <1>18, <1>19, <1>20, <1>21, <1>22, <1>23, <1>24 DEF Step

\* Every step leaves its thread where the code goes on, with what it runs there (run_cast,
\* boot_test).
LEMMA PlaceStep ==
  ASSUME TypeOK, PlaceInv, BoundaryInv, NEW t \in Threads, Step(t)
  PROVE  PlaceInv'
<1> USE BootAssumption DEF TypeOK, PlaceInv, Places, Casts, Tests, Entry, Statuses, Failures,
  boundaryVars, bootVars, castVars, recordVars
<1>1. CASE StartBoot(t)
  BY <1>1 DEF StartBoot, Goto, Boundary!Start, BoundaryInv
<1>2. CASE RunEntry(t)
  BY <1>2 DEF RunEntry, Goto
<1>3. CASE FailBoot(t)
  BY <1>3 DEF FailBoot, Goto, Settle, LatchError, Boundary!Latch
<1>4. CASE FinishBoot(t)
  BY <1>4 DEF FinishBoot, Goto, Boundary!Open
<1>5. CASE CallDirectly(t)
  BY <1>5 DEF CallDirectly, Goto
<1>6. CASE OtherFailure(t)
  BY <1>6 DEF OtherFailure, LatchError, Boundary!Latch
<1>7. CASE RefuseCast(t)
  BY <1>7 DEF RefuseCast, Goto, Done
<1>8. CASE AdmitCast(t)
  BY <1>8 DEF AdmitCast, Goto, Admits
<1>9. CASE KatPasses(t)
  BY <1>9 DEF KatPasses, Goto, Admits
<1>10. CASE StorePass(t)
  BY <1>10 DEF StorePass, Goto, Done
<1>11. CASE KatFails(t)
  BY <1>11 DEF KatFails, Goto
<1>12. CASE LatchCastFailure(t)
  BY <1>12 DEF LatchCastFailure, Goto, Done, LatchError, Boundary!Latch
<1>13. CASE RefuseTest(t)
  BY <1>13 DEF RefuseTest, Goto, Done
<1>14. CASE PassGuard(t)
  BY <1>14 DEF PassGuard, Goto, Admits
<1>15. CASE RefuseOperational(t)
  BY <1>15 DEF RefuseOperational, Goto, Done
<1>16. CASE AdmitTest(t)
  BY <1>16 DEF AdmitTest, Goto
<1>17. CASE CheckCasts(t)
  BY <1>17 DEF CheckCasts, Goto, Conclude, CastsPassed
<1>18. CASE ReadKey(t)
  BY <1>18 DEF ReadKey, Goto, Conclude
<1>19. CASE ReadImage(t)
  BY <1>19 DEF ReadImage, Goto, Conclude
<1>20. CASE CheckSignature(t)
  BY <1>20 DEF CheckSignature, Goto, Conclude, Admits
<1>21. CASE LatchTestFailure(t)
  BY <1>21 DEF LatchTestFailure, Goto, LatchError, Boundary!Latch
<1>22. CASE ReturnUnrecorded(t)
  BY <1>22 DEF ReturnUnrecorded, Goto, Done
<1>23. CASE RecordDetail(t)
  BY <1>23 DEF RecordDetail, Goto
<1>24. CASE RecordStatus(t)
  BY <1>24 DEF RecordStatus, Goto, Done
<1> QED
  BY <1>1, <1>2, <1>3, <1>4, <1>5, <1>6, <1>7, <1>8, <1>9, <1>10, <1>11, <1>12, <1>13, <1>14, <1>15,
    <1>16, <1>17, <1>18, <1>19, <1>20, <1>21, <1>22, <1>23, <1>24 DEF Step

\* Nobody but the boot thread passes a guard before the module opens or fails.
LEMMA BoundaryStep ==
  ASSUME TypeOK, PlaceInv, BoundaryInv, NEW t \in Threads, Step(t)
  PROVE  BoundaryInv'
<1> USE BootAssumption DEF TypeOK, PlaceInv, BoundaryInv, Places, Casts, Tests, Entry, Statuses,
  Failures, boundaryVars, bootVars, castVars, recordVars
<1>1. CASE StartBoot(t)
  BY <1>1 DEF StartBoot, Goto, Boundary!Start
<1>2. CASE RunEntry(t)
  BY <1>2 DEF RunEntry, Goto
<1>3. CASE FailBoot(t)
  BY <1>3 DEF FailBoot, Goto, Settle, LatchError, Boundary!Latch
<1>4. CASE FinishBoot(t)
  BY <1>4 DEF FinishBoot, Goto, Boundary!Open
<1>5. CASE CallDirectly(t)
  BY <1>5 DEF CallDirectly, Goto
<1>6. CASE OtherFailure(t)
  BY <1>6 DEF OtherFailure, LatchError, Boundary!Latch
<1>7. CASE RefuseCast(t)
  BY <1>7 DEF RefuseCast, Goto, Done
<1>8. CASE AdmitCast(t)
  BY <1>8 DEF AdmitCast, Goto, Admits
<1>9. CASE KatPasses(t)
  BY <1>9 DEF KatPasses, Goto, Admits
<1>10. CASE StorePass(t)
  BY <1>10 DEF StorePass, Goto, Done
<1>11. CASE KatFails(t)
  BY <1>11 DEF KatFails, Goto
<1>12. CASE LatchCastFailure(t)
  BY <1>12 DEF LatchCastFailure, Goto, Done, LatchError, Boundary!Latch
<1>13. CASE RefuseTest(t)
  BY <1>13 DEF RefuseTest, Goto, Done
<1>14. CASE PassGuard(t)
  BY <1>14 DEF PassGuard, Goto, Admits
<1>15. CASE RefuseOperational(t)
  BY <1>15 DEF RefuseOperational, Goto, Done
<1>16. CASE AdmitTest(t)
  BY <1>16 DEF AdmitTest, Goto
<1>17. CASE CheckCasts(t)
  BY <1>17 DEF CheckCasts, Goto, Conclude, CastsPassed
<1>18. CASE ReadKey(t)
  BY <1>18 DEF ReadKey, Goto, Conclude
<1>19. CASE ReadImage(t)
  BY <1>19 DEF ReadImage, Goto, Conclude
<1>20. CASE CheckSignature(t)
  BY <1>20 DEF CheckSignature, Goto, Conclude, Admits
<1>21. CASE LatchTestFailure(t)
  BY <1>21 DEF LatchTestFailure, Goto, LatchError, Boundary!Latch
<1>22. CASE ReturnUnrecorded(t)
  BY <1>22 DEF ReturnUnrecorded, Goto, Done
<1>23. CASE RecordDetail(t)
  BY <1>23 DEF RecordDetail, Goto
<1>24. CASE RecordStatus(t)
  BY <1>24 DEF RecordStatus, Goto, Done
<1> QED
  BY <1>1, <1>2, <1>3, <1>4, <1>5, <1>6, <1>7, <1>8, <1>9, <1>10, <1>11, <1>12, <1>13, <1>14, <1>15,
    <1>16, <1>17, <1>18, <1>19, <1>20, <1>21, <1>22, <1>23, <1>24 DEF Step

\* A pass flag is set behind its known-answer test, and the integrity test looks at both.
LEMMA CastStep ==
  ASSUME TypeOK, PlaceInv, CastInv, NEW t \in Threads, Step(t)
  PROVE  CastInv'
<1> USE BootAssumption DEF TypeOK, PlaceInv, CastInv, Places, Casts, Tests, Entry, Statuses,
  Failures, boundaryVars, bootVars, castVars, recordVars
<1>1. CASE StartBoot(t)
  BY <1>1 DEF StartBoot, Goto, Boundary!Start
<1>2. CASE RunEntry(t)
  BY <1>2 DEF RunEntry, Goto
<1>3. CASE FailBoot(t)
  BY <1>3 DEF FailBoot, Goto, Settle, LatchError, Boundary!Latch
<1>4. CASE FinishBoot(t)
  BY <1>4 DEF FinishBoot, Goto, Boundary!Open
<1>5. CASE CallDirectly(t)
  BY <1>5 DEF CallDirectly, Goto
<1>6. CASE OtherFailure(t)
  BY <1>6 DEF OtherFailure, LatchError, Boundary!Latch
<1>7. CASE RefuseCast(t)
  BY <1>7 DEF RefuseCast, Goto, Done
<1>8. CASE AdmitCast(t)
  BY <1>8 DEF AdmitCast, Goto, Admits
<1>9. CASE KatPasses(t)
  BY <1>9 DEF KatPasses, Goto, Admits
<1>10. CASE StorePass(t)
  BY <1>10 DEF StorePass, Goto, Done
<1>11. CASE KatFails(t)
  BY <1>11 DEF KatFails, Goto
<1>12. CASE LatchCastFailure(t)
  BY <1>12 DEF LatchCastFailure, Goto, Done, LatchError, Boundary!Latch
<1>13. CASE RefuseTest(t)
  BY <1>13 DEF RefuseTest, Goto, Done
<1>14. CASE PassGuard(t)
  BY <1>14 DEF PassGuard, Goto, Admits
<1>15. CASE RefuseOperational(t)
  BY <1>15 DEF RefuseOperational, Goto, Done
<1>16. CASE AdmitTest(t)
  BY <1>16 DEF AdmitTest, Goto
<1>17. CASE CheckCasts(t)
  <2>1. CastsPassed => tested = Casts
    <3>1. CastsPassed => \A c \in Casts : c \in tested
      BY DEF CastsPassed
    <3>2. tested \subseteq Casts
      OBVIOUS
    <3> HIDE DEF Casts, TypeOK, CastInv, PlaceInv
    <3> QED
      BY <3>1, <3>2
  <2> QED
    BY <1>17, <2>1 DEF CheckCasts, Goto, Conclude
<1>18. CASE ReadKey(t)
  BY <1>18 DEF ReadKey, Goto, Conclude
<1>19. CASE ReadImage(t)
  BY <1>19 DEF ReadImage, Goto, Conclude
<1>20. CASE CheckSignature(t)
  BY <1>20 DEF CheckSignature, Goto, Conclude, Admits
<1>21. CASE LatchTestFailure(t)
  BY <1>21 DEF LatchTestFailure, Goto, LatchError, Boundary!Latch
<1>22. CASE ReturnUnrecorded(t)
  BY <1>22 DEF ReturnUnrecorded, Goto, Done
<1>23. CASE RecordDetail(t)
  BY <1>23 DEF RecordDetail, Goto
<1>24. CASE RecordStatus(t)
  BY <1>24 DEF RecordStatus, Goto, Done
<1> QED
  BY <1>1, <1>2, <1>3, <1>4, <1>5, <1>6, <1>7, <1>8, <1>9, <1>10, <1>11, <1>12, <1>13, <1>14, <1>15,
    <1>16, <1>17, <1>18, <1>19, <1>20, <1>21, <1>22, <1>23, <1>24 DEF Step

\* A test passes only with the signed image, and a failure is latched before it is recorded.
LEMMA OutcomeStep ==
  ASSUME TypeOK, PlaceInv, CastInv, OutcomeInv, NEW t \in Threads, Step(t)
  PROVE  OutcomeInv'
<1> USE BootAssumption DEF TypeOK, PlaceInv, CastInv, OutcomeInv, Places, Casts, Tests, Entry,
  Statuses, Failures, boundaryVars, bootVars, castVars, recordVars
<1>1. CASE StartBoot(t)
  BY <1>1 DEF StartBoot, Goto, Boundary!Start
<1>2. CASE RunEntry(t)
  BY <1>2 DEF RunEntry, Goto
<1>3. CASE FailBoot(t)
  BY <1>3 DEF FailBoot, Goto, Settle, LatchError, Boundary!Latch
<1>4. CASE FinishBoot(t)
  BY <1>4 DEF FinishBoot, Goto, Boundary!Open
<1>5. CASE CallDirectly(t)
  BY <1>5 DEF CallDirectly, Goto
<1>6. CASE OtherFailure(t)
  BY <1>6 DEF OtherFailure, LatchError, Boundary!Latch
<1>7. CASE RefuseCast(t)
  BY <1>7 DEF RefuseCast, Goto, Done
<1>8. CASE AdmitCast(t)
  BY <1>8 DEF AdmitCast, Goto, Admits
<1>9. CASE KatPasses(t)
  BY <1>9 DEF KatPasses, Goto, Admits
<1>10. CASE StorePass(t)
  BY <1>10 DEF StorePass, Goto, Done
<1>11. CASE KatFails(t)
  BY <1>11 DEF KatFails, Goto
<1>12. CASE LatchCastFailure(t)
  BY <1>12 DEF LatchCastFailure, Goto, Done, LatchError, Boundary!Latch
<1>13. CASE RefuseTest(t)
  BY <1>13 DEF RefuseTest, Goto, Done
<1>14. CASE PassGuard(t)
  BY <1>14 DEF PassGuard, Goto, Admits
<1>15. CASE RefuseOperational(t)
  BY <1>15 DEF RefuseOperational, Goto, Done
<1>16. CASE AdmitTest(t)
  BY <1>16 DEF AdmitTest, Goto
<1>17. CASE CheckCasts(t)
  BY <1>17 DEF CheckCasts, Goto, Conclude, CastsPassed
<1>18. CASE ReadKey(t)
  BY <1>18 DEF ReadKey, Goto, Conclude
<1>19. CASE ReadImage(t)
  BY <1>19 DEF ReadImage, Goto, Conclude
<1>20. CASE CheckSignature(t)
  <2>1. /\ pc[t] = "signature" /\ pc' = [pc EXCEPT ![t] = "conclude"]
        /\ fingerprint' = TRUE /\ artifact' = artifact /\ phase' = phase /\ tested' = tested
        /\ detail' = detail
    BY <1>20 DEF CheckSignature, Goto, Conclude
  <2>2. \E o \in {"Refused", "Passed", "SignatureInvalid"} :
          /\ outcome' = [outcome EXCEPT ![t] = o]
          /\ o = "Passed" => artifact = "signed"
    BY <1>20 DEF CheckSignature, Conclude
  <2>3. tested = Casts
    BY <2>1
  <2>4. QED
    BY <2>1, <2>2, <2>3
<1>21. CASE LatchTestFailure(t)
  BY <1>21 DEF LatchTestFailure, Goto, LatchError, Boundary!Latch
<1>22. CASE ReturnUnrecorded(t)
  BY <1>22 DEF ReturnUnrecorded, Goto, Done
<1>23. CASE RecordDetail(t)
  BY <1>23 DEF RecordDetail, Goto
<1>24. CASE RecordStatus(t)
  BY <1>24 DEF RecordStatus, Goto, Done
<1> QED
  BY <1>1, <1>2, <1>3, <1>4, <1>5, <1>6, <1>7, <1>8, <1>9, <1>10, <1>11, <1>12, <1>13, <1>14, <1>15,
    <1>16, <1>17, <1>18, <1>19, <1>20, <1>21, <1>22, <1>23, <1>24 DEF Step

\* The first result is recorded once (latch_outcome), and its text before it.
LEMMA RecordStep ==
  ASSUME TypeOK, PlaceInv, OutcomeInv, RecordInv, NEW t \in Threads, Step(t)
  PROVE  RecordInv'
<1> USE BootAssumption DEF TypeOK, PlaceInv, OutcomeInv, RecordInv, Places, Casts, Tests, Entry,
  Statuses, Failures, boundaryVars, bootVars, castVars, recordVars
<1>1. CASE StartBoot(t)
  BY <1>1 DEF StartBoot, Goto, Boundary!Start
<1>2. CASE RunEntry(t)
  BY <1>2 DEF RunEntry, Goto
<1>3. CASE FailBoot(t)
  BY <1>3 DEF FailBoot, Goto, Settle, LatchError, Boundary!Latch
<1>4. CASE FinishBoot(t)
  BY <1>4 DEF FinishBoot, Goto, Boundary!Open
<1>5. CASE CallDirectly(t)
  BY <1>5 DEF CallDirectly, Goto
<1>6. CASE OtherFailure(t)
  BY <1>6 DEF OtherFailure, LatchError, Boundary!Latch
<1>7. CASE RefuseCast(t)
  BY <1>7 DEF RefuseCast, Goto, Done
<1>8. CASE AdmitCast(t)
  BY <1>8 DEF AdmitCast, Goto, Admits
<1>9. CASE KatPasses(t)
  BY <1>9 DEF KatPasses, Goto, Admits
<1>10. CASE StorePass(t)
  BY <1>10 DEF StorePass, Goto, Done
<1>11. CASE KatFails(t)
  BY <1>11 DEF KatFails, Goto
<1>12. CASE LatchCastFailure(t)
  BY <1>12 DEF LatchCastFailure, Goto, Done, LatchError, Boundary!Latch
<1>13. CASE RefuseTest(t)
  BY <1>13 DEF RefuseTest, Goto, Done
<1>14. CASE PassGuard(t)
  BY <1>14 DEF PassGuard, Goto, Admits
<1>15. CASE RefuseOperational(t)
  BY <1>15 DEF RefuseOperational, Goto, Done
<1>16. CASE AdmitTest(t)
  BY <1>16 DEF AdmitTest, Goto
<1>17. CASE CheckCasts(t)
  BY <1>17 DEF CheckCasts, Goto, Conclude, CastsPassed
<1>18. CASE ReadKey(t)
  BY <1>18 DEF ReadKey, Goto, Conclude
<1>19. CASE ReadImage(t)
  BY <1>19 DEF ReadImage, Goto, Conclude
<1>20. CASE CheckSignature(t)
  BY <1>20 DEF CheckSignature, Goto, Conclude, Admits
<1>21. CASE LatchTestFailure(t)
  BY <1>21 DEF LatchTestFailure, Goto, LatchError, Boundary!Latch
<1>22. CASE ReturnUnrecorded(t)
  BY <1>22 DEF ReturnUnrecorded, Goto, Done
<1>23. CASE RecordDetail(t)
  BY <1>23 DEF RecordDetail, Goto
<1>24. CASE RecordStatus(t)
  BY <1>24 DEF RecordStatus, Goto, Done
<1> QED
  BY <1>1, <1>2, <1>3, <1>4, <1>5, <1>6, <1>7, <1>8, <1>9, <1>10, <1>11, <1>12, <1>13, <1>14, <1>15,
    <1>16, <1>17, <1>18, <1>19, <1>20, <1>21, <1>22, <1>23, <1>24 DEF Step

\* No entry of the group is left out or passed over on the way to Operational.
LEMMA ListStep ==
  ASSUME TypeOK, PlaceInv, BoundaryInv, OutcomeInv, RecordInv, ListInv, NEW t \in Threads, Step(t)
  PROVE  ListInv'
<1> USE BootAssumption DEF TypeOK, PlaceInv, BoundaryInv, OutcomeInv, RecordInv, ListInv, Verified,
  Places, Casts, Tests, Entry, Statuses, Failures, boundaryVars, bootVars, castVars, recordVars
<1>1. CASE StartBoot(t)
  BY <1>1 DEF StartBoot, Goto, Boundary!Start
<1>2. CASE RunEntry(t)
  <2>1. \A j \in DOMAIN next : next[j] = running'[t] \/ \E k \in DOMAIN next' : next'[k] = next[j]
    <3>1. running'[t] = next[1] /\ next' = Tail(next) /\ next # <<>>
      BY <1>2 DEF RunEntry
    <3>2. ASSUME NEW j \in DOMAIN next, j # 1
          PROVE  j - 1 \in DOMAIN next' /\ next'[j - 1] = next[j]
      BY <3>1, <3>2
    <3> QED
      BY <3>1, <3>2
  <2>2. running'[t] \in Tests => pc'[t] # "boot"
    BY <1>2 DEF RunEntry, Goto
  <2> QED
    BY <1>2, <2>1, <2>2 DEF RunEntry, Goto
<1>3. CASE FailBoot(t)
  BY <1>3 DEF FailBoot, Goto, Settle, LatchError, Boundary!Latch
<1>4. CASE FinishBoot(t)
  BY <1>4 DEF FinishBoot, Goto, Boundary!Open
<1>5. CASE CallDirectly(t)
  BY <1>5 DEF CallDirectly, Goto
<1>6. CASE OtherFailure(t)
  BY <1>6 DEF OtherFailure, LatchError, Boundary!Latch
<1>7. CASE RefuseCast(t)
  BY <1>7 DEF RefuseCast, Goto, Done
<1>8. CASE AdmitCast(t)
  BY <1>8 DEF AdmitCast, Goto, Admits
<1>9. CASE KatPasses(t)
  BY <1>9 DEF KatPasses, Goto, Admits
<1>10. CASE StorePass(t)
  BY <1>10 DEF StorePass, Goto, Done
<1>11. CASE KatFails(t)
  BY <1>11 DEF KatFails, Goto
<1>12. CASE LatchCastFailure(t)
  BY <1>12 DEF LatchCastFailure, Goto, Done, LatchError, Boundary!Latch
<1>13. CASE RefuseTest(t)
  BY <1>13 DEF RefuseTest, Goto, Done
<1>14. CASE PassGuard(t)
  BY <1>14 DEF PassGuard, Goto, Admits
<1>15. CASE RefuseOperational(t)
  BY <1>15 DEF RefuseOperational, Goto, Done
<1>16. CASE AdmitTest(t)
  BY <1>16 DEF AdmitTest, Goto
<1>17. CASE CheckCasts(t)
  BY <1>17 DEF CheckCasts, Goto, Conclude, CastsPassed
<1>18. CASE ReadKey(t)
  BY <1>18 DEF ReadKey, Goto, Conclude
<1>19. CASE ReadImage(t)
  BY <1>19 DEF ReadImage, Goto, Conclude
<1>20. CASE CheckSignature(t)
  BY <1>20 DEF CheckSignature, Goto, Conclude, Admits
<1>21. CASE LatchTestFailure(t)
  BY <1>21 DEF LatchTestFailure, Goto, LatchError, Boundary!Latch
<1>22. CASE ReturnUnrecorded(t)
  BY <1>22 DEF ReturnUnrecorded, Goto, Done
<1>23. CASE RecordDetail(t)
  BY <1>23 DEF RecordDetail, Goto
<1>24. CASE RecordStatus(t)
  BY <1>24 DEF RecordStatus, Goto, Done
<1> QED
  BY <1>1, <1>2, <1>3, <1>4, <1>5, <1>6, <1>7, <1>8, <1>9, <1>10, <1>11, <1>12, <1>13, <1>14, <1>15,
    <1>16, <1>17, <1>18, <1>19, <1>20, <1>21, <1>22, <1>23, <1>24 DEF Step

-----------------------------------------------------------------------------
(* What follows for every behaviour.                                       *)

\* A step that changes nothing keeps what is known.
LEMMA StutterStep == IInv /\ UNCHANGED vars => IInv'
BY DEF IInv, TypeOK, PlaceInv, BoundaryInv, CastInv, OutcomeInv, RecordInv, ListInv, Verified,
  vars, boundaryVars, bootVars, castVars, recordVars

\* The conjuncts together are an inductive invariant of the specification (IntegrityBoot).
THEOREM InductiveInvariant == Spec => []IInv
<1>1. IInv /\ [Next]_vars => IInv'
  <2> SUFFICES ASSUME IInv, [Next]_vars
               PROVE  IInv'
    OBVIOUS
  <2>1. ASSUME NEW t \in Threads, Step(t)
        PROVE  IInv'
    <3> USE <2>1 DEF IInv
    <3>1. TypeOK'
      BY TypeStep
    <3>2. PlaceInv'
      BY PlaceStep
    <3>3. BoundaryInv'
      BY BoundaryStep
    <3>4. CastInv'
      BY CastStep
    <3>5. OutcomeInv'
      BY OutcomeStep
    <3>6. RecordInv'
      BY RecordStep
    <3>7. ListInv'
      BY ListStep
    <3> QED
      BY <3>1, <3>2, <3>3, <3>4, <3>5, <3>6, <3>7
  <2> QED
    BY <2>1, StutterStep DEF Next
<1> QED
  BY <1>1, InvInit, PTL DEF Spec

\* Every variable of the crate and of its threads keeps its type.
THEOREM TypeCorrect == Spec => []TypeOK
BY InductiveInvariant, PTL DEF IInv

\* An operational module whose group holds the integrity test runs the image that was signed,
\* and the test used no primitive before its CAST (integrity_self_test, AS10.20): for any
\* number of threads, any group in any order, and any image.
THEOREM VerifiedBeforeOpening == Spec => []OpenedVerified
<1>1. IInv => OpenedVerified
  <2> SUFFICES ASSUME IInv
               PROVE  OpenedVerified
    OBVIOUS
  <2>1. phase = "Operational" => \A e \in Tests : Listed(e) => Verified(e)
    BY DEF IInv, ListInv, Listed
  <2>2. \A t \in Threads : pc[t] \in {"key", "image", "signature"} => tested = Casts
    BY DEF IInv, CastInv
  <2> QED
    BY <2>1, <2>2 DEF OpenedVerified, Verified, Tests
<1> QED
  BY <1>1, InductiveInvariant, PTL

\* The status that oxi_integrity_status reads is true, and a test that runs for a thread
\* outside the boot finds Error and cannot pass (admit loads the state twice).
THEOREM StatusTrue == Spec => []StatusIsTrue
<1>1. IInv => StatusIsTrue
  <2> SUFFICES ASSUME IInv
               PROVE  StatusIsTrue
    OBVIOUS
  <2>1. \A t \in Threads :
          pc[t] \in {"casts", "key", "image", "signature", "conclude", "detail", "status"} =>
            booting = t \/ (phase = "Error" /\ outcome[t] # "Passed")
    BY DEF IInv, BoundaryInv
  <2> QED
    BY <2>1 DEF IInv, RecordInv, StatusIsTrue
<1> QED
  BY <1>1, InductiveInvariant, PTL

-----------------------------------------------------------------------------
(***************************************************************************)
(* The boot in the lifecycle: each step of the boot of oxicrypt-integrity  *)
(* (power_on_with_profile, the CAST runner, the on-demand integrity test)  *)
(* is one transition of the module's lifecycle or leaves it alone, so      *)
(* nothing the boot does takes the module where oxicrypt-module would not. *)
(***************************************************************************)
THEOREM KeepsLifecycle == Spec => Boundary!Spec
<1>1. Init => Boundary!Init
  BY DEF Init
<1>2. [Next]_vars => [Boundary!Next]_(Boundary!lifecycleVars)
  <2> SUFFICES ASSUME [Next]_vars PROVE [Boundary!Next]_(Boundary!lifecycleVars)
    OBVIOUS
  <2>1. CASE UNCHANGED boundaryVars
    BY <2>1 DEF boundaryVars, Boundary!lifecycleVars
  <2>2. CASE Boundary!Next
    BY <2>2
  <2>3. ASSUME NEW t \in Threads, Step(t) PROVE UNCHANGED boundaryVars \/ Boundary!Next
    <3> USE DEF boundaryVars, Boundary!Next
    <3>1. CASE StartBoot(t)
      BY <3>1 DEF StartBoot
    <3>2. CASE FailBoot(t)
      BY <3>2 DEF FailBoot, Settle, LatchError
    <3>3. CASE FinishBoot(t)
      BY <3>3 DEF FinishBoot
    <3>4. CASE OtherFailure(t)
      BY <3>4 DEF OtherFailure, LatchError
    <3>5. CASE LatchCastFailure(t)
      BY <3>5 DEF LatchCastFailure, LatchError
    <3>6. CASE LatchTestFailure(t)
      BY <3>6 DEF LatchTestFailure, LatchError
    <3>7. CASE RunEntry(t) \/ CallDirectly(t) \/ RefuseCast(t) \/ AdmitCast(t) \/ KatPasses(t)
               \/ StorePass(t) \/ KatFails(t) \/ RefuseTest(t) \/ PassGuard(t)
               \/ RefuseOperational(t) \/ AdmitTest(t) \/ CheckCasts(t) \/ ReadKey(t)
               \/ ReadImage(t) \/ CheckSignature(t) \/ ReturnUnrecorded(t) \/ RecordDetail(t)
               \/ RecordStatus(t)
      BY <3>7 DEF RunEntry, CallDirectly, RefuseCast, AdmitCast, KatPasses, StorePass, KatFails,
         RefuseTest, PassGuard, RefuseOperational, AdmitTest, CheckCasts, ReadKey, ReadImage,
         CheckSignature, ReturnUnrecorded, RecordDetail, RecordStatus
    <3>8. QED
      BY <2>3, <3>1, <3>2, <3>3, <3>4, <3>5, <3>6, <3>7 DEF Step
  <2>4. QED
    BY <2>1, <2>2, <2>3 DEF Next, vars, boundaryVars
<1>3. QED
  BY <1>1, <1>2, PTL DEF Spec, Boundary!Spec

=============================================================================
