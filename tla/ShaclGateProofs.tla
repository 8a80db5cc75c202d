--------------------------- MODULE ShaclGateProofs ---------------------------
(***************************************************************************)
(* Validating after the commit keeps the data conforming as long as no     *)
(* write is refused, for any number of requests, shapes and quads.         *)
(***************************************************************************)
EXTENDS ShaclGate, TLAPS

\* The provers, and their time limits in seconds, that the steps are tried with.
USE ZenonT(5), SMTT(20), ZenonT(20), SMTT(60)

\* A write is committed and its validation has not read the store yet.
Unread == \E r \in Requests : pc[r] = "written"

\* While enforcement is clean, what was validated last conforms; and either a write is
\* still to be read, or the validation under way has read the data that are in the
\* store, or without one the last verdict was about these data.
Pending ==
  clean => /\ mode = "enforce"
           /\ shapes # NoShapes
           /\ Conforms(shapes, judged)
           /\ Unread \/ \A r \in Requests : pc[r] = "validating" => SameData(snapshot[r], store)
           /\ \/ Unread
              \/ \E r \in Requests : pc[r] = "validating"
              \/ SameData(judged, store)

IInv == TypeOK /\ Pending

\* The initial state satisfies the invariant: enforcement is not clean before
\* shapes are uploaded.
LEMMA InitInv == Init => IInv
<1> SUFFICES ASSUME Init PROVE IInv
  OBVIOUS
<1>1. snapshot \in [Requests -> SUBSET Quads]
  BY DEF Init
<1>2. \A r \in Requests : pc[r] = "validating" <=> validator = r
  BY ConstantsAssumption DEF Init
<1> QED
  BY <1>1, <1>2, ConstantsAssumption DEF Init, IInv, TypeOK, Pending, Locations

\* Every handler keeps the types, and the mutex with the request that validates.
LEMMA TypeStep == TypeOK /\ [Next]_vars => TypeOK'
<1> SUFFICES ASSUME TypeOK, [Next]_vars PROVE TypeOK'
  OBVIOUS
<1> USE DEF TypeOK, Locations, Modes, Goto, Return, gate, history
<1>1. ASSUME NEW r \in Requests, NEW delete \in SUBSET Quads, NEW insert \in SUBSET Quads,
             Write(r, delete, insert)
      PROVE  TypeOK'
  BY <1>1, ConstantsAssumption DEF Write
<1>2. ASSUME NEW r \in Requests, NEW delete \in SUBSET Quads, NEW insert \in SUBSET Quads,
             UnvalidatedWrite(r, delete, insert)
      PROVE  TypeOK'
  BY <1>2, ConstantsAssumption DEF UnvalidatedWrite
<1>3. ASSUME NEW r \in Requests, LockValidator(r) PROVE TypeOK'
  BY <1>3, ConstantsAssumption DEF LockValidator
<1>4. ASSUME NEW r \in Requests, Accept(r) PROVE TypeOK'
  BY <1>4, ConstantsAssumption DEF Accept
<1>5. ASSUME NEW r \in Requests, Leave(r) PROVE TypeOK'
  BY <1>5, ConstantsAssumption DEF Leave
<1>6. ASSUME NEW r \in Requests, NEW gone \in SUBSET EntryQuads,
             NEW entry \in SUBSET EntryQuads, Record(r, gone, entry)
      PROVE  TypeOK'
  BY <1>6, ConstantsAssumption DEF Record
<1>12. ASSUME NEW r \in Requests, NEW gone \in SUBSET EntryQuads, Purge(r, gone)
       PROVE  TypeOK'
  BY <1>12 DEF Purge
<1>13. ASSUME NEW r \in Requests, Answer(r) PROVE TypeOK'
  BY <1>13, ConstantsAssumption DEF Answer
<1>7. ASSUME NEW s \in Shapes, UploadShapes(s) PROVE TypeOK'
  BY <1>7, ConstantsAssumption DEF UploadShapes, Clean
<1>8. ASSUME NEW m \in Modes, SetMode(m) PROVE TypeOK'
  BY <1>8, ConstantsAssumption DEF SetMode, Clean
<1>9. CASE DeleteShapes
  BY <1>9 DEF DeleteShapes
<1>10. CASE Restart
  BY <1>10, ConstantsAssumption DEF Restart
<1>11. CASE UNCHANGED vars
  BY <1>11 DEF vars
<1> QED
  BY <1>1, <1>2, <1>3, <1>4, <1>5, <1>6, <1>7, <1>8, <1>9, <1>10, <1>11,
     <1>12, <1>13 DEF Next, Handle, Reject, ValidationError

\* Every handler keeps Pending: a write is unread as it commits, and then it is read by
\* its own validation, whose verdict is about it and all that were read before.
LEMMA PendingStep == TypeOK /\ Pending /\ [Next]_vars => Pending'
<1> SUFFICES ASSUME TypeOK, Pending, [Next]_vars PROVE Pending'
  OBVIOUS
<1> SUFFICES ASSUME clean' PROVE Pending'
  BY DEF Pending
<1> USE DEF Pending, Unread, history
<1>1. ASSUME NEW r \in Requests, NEW delete \in SUBSET Quads, NEW insert \in SUBSET Quads,
             Write(r, delete, insert)
      PROVE  Pending'
  <2>1. pc'[r] = "written"
    BY <1>1 DEF Write, Goto, TypeOK
  <2> QED
    BY <1>1, <2>1 DEF Write, gate
<1>2. ASSUME NEW r \in Requests, NEW delete \in SUBSET Quads, NEW insert \in SUBSET Quads,
             UnvalidatedWrite(r, delete, insert)
      PROVE  Pending'
  BY <1>2 DEF UnvalidatedWrite
<1>3. ASSUME NEW r \in Requests, LockValidator(r) PROVE Pending'
  <2>1. clean /\ mode = "enforce" /\ shapes # NoShapes /\ Conforms(shapes, judged)
    BY <1>3 DEF LockValidator
  <2>2. /\ pc' = [pc EXCEPT ![r] = "validating"]
        /\ snapshot' = [snapshot EXCEPT ![r] = store]
    BY <1>3, <2>1 DEF LockValidator, Goto
  <2>3. pc'[r] = "validating" /\ SameData(snapshot'[r], store')
    BY <1>3, <2>2 DEF LockValidator, SameData, TypeOK
  <2>4. \A other \in Requests : pc'[other] = "validating" => other = r
    BY <1>3, <2>2, ConstantsAssumption DEF LockValidator, TypeOK
  <2>5. mode' = mode /\ shapes' = shapes /\ judged' = judged
    BY <1>3 DEF LockValidator
  <2>6. \A other \in Requests :
          pc'[other] = "validating" => SameData(snapshot'[other], store')
    BY <2>3, <2>4
  <2> QED
    BY <2>1, <2>3, <2>5, <2>6
<1>4. ASSUME NEW r \in Requests, Accept(r) PROVE Pending'
  <2>1. clean /\ mode = "enforce" /\ shapes # NoShapes
    BY <1>4 DEF Accept
  <2>2. Conforms(shapes, snapshot[r])
    BY <1>4, <2>1 DEF Accept, Rejects
  <2>3. \A other \in Requests : pc'[other] # "validating"
    BY <1>4 DEF Accept, Goto, TypeOK
  <2>4. CASE Unread
    <3>1. PICK other \in Requests : pc[other] = "written"
      BY <2>4
    <3>2. pc'[other] = "written"
      BY <1>4, <3>1 DEF Accept, Goto, TypeOK
    <3> QED
      BY <1>4, <2>1, <2>2, <2>3, <3>2 DEF Accept
  <2>5. CASE ~Unread
    <3>1. SameData(snapshot[r], store)
      BY <1>4, <2>1, <2>5 DEF Accept
    <3> QED
      BY <1>4, <2>1, <2>2, <2>3, <3>1 DEF Accept
  <2> QED
    BY <2>4, <2>5
<1>5. ASSUME NEW r \in Requests, Leave(r) PROVE Pending'
  BY <1>5 DEF Leave
<1>6. ASSUME NEW r \in Requests, NEW gone \in SUBSET EntryQuads,
             NEW entry \in SUBSET EntryQuads, Record(r, gone, entry)
      PROVE  Pending'
  <2>1. SameData(store, store')
    BY <1>6 DEF Record, SameData
  <2> QED
    BY <1>6, <2>1 DEF Record, gate, SameData
<1>7. ASSUME NEW s \in Shapes, UploadShapes(s) PROVE Pending'
  <2>1. \A r \in Requests : pc[r] # "validating"
    BY <1>7, ConstantsAssumption DEF UploadShapes, TypeOK
  <2> QED
    BY <1>7, <2>1 DEF UploadShapes, Clean, SameData
<1>8. ASSUME NEW m \in Modes, SetMode(m) PROVE Pending'
  <2>1. \A r \in Requests : pc[r] # "validating"
    BY <1>8, ConstantsAssumption DEF SetMode, TypeOK
  <2> QED
    BY <1>8, <2>1 DEF SetMode, Clean, SameData
<1>9. CASE DeleteShapes
  BY <1>9 DEF DeleteShapes
<1>10. CASE Restart
  BY <1>10 DEF Restart
<1>11. CASE UNCHANGED vars
  BY <1>11 DEF vars
<1>12. ASSUME NEW r \in Requests, NEW gone \in SUBSET EntryQuads, Purge(r, gone)
       PROVE  Pending'
  <2>1. SameData(store, store')
    BY <1>12 DEF Purge, SameData
  <2> QED
    BY <1>12, <2>1 DEF Purge, gate, SameData
<1>13. ASSUME NEW r \in Requests, Answer(r) PROVE Pending'
  <2>1. \A other \in Requests :
          /\ pc[other] = "written" <=> pc'[other] = "written"
          /\ pc[other] = "validating" <=> pc'[other] = "validating"
          /\ pc[other] = "validating" => snapshot'[other] = snapshot[other]
    BY <1>13 DEF Answer, Return, Goto, TypeOK
  <2> QED
    BY <1>13, <2>1 DEF Answer, gate
<1> QED
  BY <1>1, <1>2, <1>3, <1>4, <1>5, <1>6, <1>7, <1>8, <1>9, <1>10, <1>11,
     <1>12, <1>13 DEF Next, Handle, Reject, ValidationError

\* The inductive invariant of the gate holds in every behaviour of the handlers.
THEOREM Invariance == Spec => []IInv
<1>1. IInv /\ [Next]_vars => IInv'
  BY TypeStep, PendingStep DEF IInv
<1> QED
  BY InitInv, <1>1, PTL DEF Spec

\* The handlers keep the types, and the validator's mutex is held exactly by the
\* request that validates.
THEOREM TypeCorrect == Spec => []TypeOK
  BY Invariance, PTL DEF IInv

\* If enforcement began on a conforming store and every write since went through
\* validate_after_write and was answered with success, then whenever no write waits
\* for its validation the store is what was last found to conform, but for entries of
\* the changelog.
THEOREM AcceptedConform == Spec => []AcceptedWritesConform
<1>1. IInv => AcceptedWritesConform
  BY DEF IInv, Pending, Unread, AcceptedWritesConform
<1> QED
  BY Invariance, <1>1, PTL
=============================================================================
