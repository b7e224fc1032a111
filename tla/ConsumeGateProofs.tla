------------------------- MODULE ConsumeGateProofs -------------------------
(* The gate's safety for any number of processes, threads, crashes and      *)
(* database errors, on either backend.                                     *)
EXTENDS ConsumeGate, TLAPS

\* A transaction is open on one connection at most, for keys without a row.
TxnInv ==
  /\ \A r, s \in Saver : txn[r] # {} /\ txn[s] # {} => r = s
  /\ \A s \in Saver : \A k \in txn[s] : claims[k] = NoOne
  /\ Postgres => \A s \in Saver : txn[s] = {}

\* What a worker knows at each place of its call.
CallInv ==
  \A w \in Worker :
    /\ pc[w] \in {"insert", "commit"} => mutex[SaverOf[w]] = w
    /\ pc[w] = "commit" => key[w] \in txn[SaverOf[w]]
    /\ pc[w] = "won" => claims[key[w]] = Me(w)
    /\ pc[w] = "granted" => key[w] \in held[SaverOf[w]]

GateInv == TypeOK /\ TxnInv /\ CallInv /\ LatchBackedByRow

-----------------------------------------------------------------------------
(* The rows of remit_claims, in every step.                                *)

\* A row is written once and keeps its holder; new rows are the transaction of
\* one worker, or the one key of an autocommit INSERT.
LEMMA RowsOnlyAdded ==
  ASSUME GateInv, [Next]_vars
  PROVE  \A k \in Key : claims[k] # NoOne => claims'[k] = claims[k]
<1> USE GateAssumption DEF GateInv, TxnInv, TypeOK
<1>1. ASSUME NEW w \in Worker, CommitTxn(w)
      PROVE  \A k \in Key : claims[k] # NoOne => claims'[k] = claims[k]
  BY <1>1 DEF CommitTxn
<1>2. ASSUME NEW w \in Worker, TakeClaim(w)
      PROVE  \A k \in Key : claims[k] # NoOne => claims'[k] = claims[k]
  BY <1>1, <1>2 DEF TakeClaim, CheckHeld, Lock, InsertRow, InsertDuplicate,
                    InsertBusy, Commit, InsertOnConflict, Hold, RowExists, store
<1>3. ASSUME NEW w \in Worker, Resume(w)
      PROVE  \A k \in Key : claims[k] # NoOne => claims'[k] = claims[k]
  BY <1>1, <1>3 DEF Resume, Serve, ResumeWrite, LatchPasses, Journal, Advance,
                    StoreBusy, Return, StoreWrite, store
<1>4. ASSUME NEW w \in Worker, Fault(w)
      PROVE  \A k \in Key : claims[k] # NoOne => claims'[k] = claims[k]
  BY <1>4 DEF Fault, CommitFails, AnswerLost, RowExists, store
<1>5. ASSUME NEW w \in Worker,
             ReadlessResume(w) \/ \E fork, inspect \in BOOLEAN : Read(w, fork, inspect)
      PROVE  \A k \in Key : claims[k] # NoOne => claims'[k] = claims[k]
  BY <1>5 DEF ReadlessResume, Read, store
<1>6. ASSUME NEW s \in Saver, Crash(s)
      PROVE  \A k \in Key : claims[k] # NoOne => claims'[k] = claims[k]
  BY <1>6 DEF Crash, store
<1>7. CASE UNCHANGED vars
  BY <1>7 DEF vars, store
<1> QED
  BY <1>2, <1>3, <1>4, <1>5, <1>6, <1>7 DEF Next

-----------------------------------------------------------------------------
(* Type correctness.                                                       *)

\* The incarnation a worker claims for is a holder.
LEMMA MeIsHolder ==
  ASSUME TypeOK, NEW w \in Worker
  PROVE  SaverOf[w] \in Saver /\ Me(w) \in Holder
BY GateAssumption DEF TypeOK, Me, Holder

\* The gate's state keeps its shape through every step of every worker, every
\* crash and every database error.
THEOREM GateTypeCorrect == Spec => []TypeOK
<1>1. Init => TypeOK
  BY GateAssumption DEF Init, TypeOK, Key, Parked, Phase
<1>2. TypeOK /\ [Next]_vars => TypeOK'
  <2> SUFFICES ASSUME TypeOK, [Next]_vars PROVE TypeOK'
    OBVIOUS
  <2> USE GateAssumption DEF TypeOK
  <2>1. ASSUME NEW w \in Worker, NEW phase \in Phase, Goto(w, phase)
        PROVE  pc' \in [Worker -> Phase]
    BY <2>1 DEF Goto
  <2>2. ASSUME NEW w \in Worker, EndCall(w)
        PROVE  /\ pc' \in [Worker -> Phase]
               /\ site' \in [Worker -> {"read", "write"}]
               /\ key' \in [Worker -> Key]
               /\ view' \in [Worker -> Parked]
    BY <2>2 DEF EndCall, Goto, Key, Parked, Phase
  <2>3. ASSUME NEW w \in Worker, CommitTxn(w)
        PROVE  claims' \in [Key -> Holder \cup {NoOne}] /\ txn' \in [Saver -> SUBSET Key]
    BY <2>3, MeIsHolder DEF CommitTxn
  <2>4. ASSUME NEW w \in Worker, Unlock(w)
        PROVE  mutex' \in [Saver -> Worker \cup {NoOne}]
    BY <2>4 DEF Unlock
  <2>5. ASSUME NEW w \in Worker, TakeClaim(w) PROVE TypeOK'
    <3>1. CASE CheckHeld(w)
      BY <3>1, <2>1 DEF CheckHeld, Phase, store, instance, local
    <3>2. CASE Lock(w)
      BY <3>2, <2>1 DEF Lock, Phase, store, instance, local
    <3>3. CASE InsertRow(w)
      BY <3>3, <2>1 DEF InsertRow, Phase, store, instance, local
    <3>4. CASE InsertDuplicate(w)
      BY <3>4, <2>1, <2>4 DEF InsertDuplicate, Phase, store, instance, local
    <3>5. CASE InsertBusy(w)
      BY <3>5, <2>2, <2>4 DEF InsertBusy, store, instance
    <3>6. CASE Commit(w)
      BY <3>6, <2>1, <2>3, <2>4 DEF Commit, Phase, instance, local
    <3>7. CASE InsertOnConflict(w)
      <4>1. claims' \in [Key -> Holder \cup {NoOne}]
        BY <3>7, MeIsHolder DEF InsertOnConflict
      <4>2. pc' \in [Worker -> Phase]
        BY <3>7, <2>1 DEF InsertOnConflict, Phase
      <4> QED
        BY <3>7, <2>4, <4>1, <4>2 DEF InsertOnConflict, instance, local
    <3>8. CASE Hold(w)
      BY <3>8, <2>1 DEF Hold, Phase, store, local
    <3> QED
      BY <2>5, <3>1, <3>2, <3>3, <3>4, <3>5, <3>6, <3>7, <3>8 DEF TakeClaim
  <2>6. ASSUME NEW w \in Worker, Resume(w) PROVE TypeOK'
    <3>1. CASE Serve(w)
      <4>1. served' \in SUBSET (Holder \X Key)
        <5>1. << Me(w), key[w] >> \in Holder \X Key
          BY MeIsHolder
        <5>2. served' = served \cup {<< Me(w), key[w] >>}
          BY <3>1 DEF Serve
        <5> QED
          BY <5>1, <5>2, Zenon
      <4> QED
        BY <3>1, <2>1, <4>1 DEF Serve, Phase, store, local
    <3>2. CASE ResumeWrite(w)
      <4>1. key' \in [Worker -> Key] /\ site' \in [Worker -> {"read", "write"}]
        <5>1. CASE UNCHANGED << site, key >>
          BY <5>1
        <5>2. ASSUME NEW k \in Key, key' = [key EXCEPT ![w] = k],
                     site' = [site EXCEPT ![w] = "write"]
              PROVE  key' \in [Worker -> Key] /\ site' \in [Worker -> {"read", "write"}]
          BY <5>2
        <5> QED
          BY <3>2, <5>1, <5>2 DEF ResumeWrite, Key
      <4>2. pc' \in [Worker -> Phase]
        BY <3>2, <2>1 DEF ResumeWrite, Phase
      <4> QED
        BY <3>2, <4>1, <4>2 DEF ResumeWrite, store, instance
    <3>3. CASE LatchPasses(w)
      BY <3>3, <2>1 DEF LatchPasses, Phase, store, instance, local
    <3>4. CASE Journal(w)
      <4>1. journaled' \in SUBSET (Holder \X Parked)
        <5>1. << Me(w), view[w] >> \in Holder \X Parked
          BY MeIsHolder
        <5>2. journaled' = journaled \cup {<< Me(w), view[w] >>}
          BY <3>4 DEF Journal
        <5> QED
          BY <5>1, <5>2, Zenon
      <4> QED
        BY <3>4, <2>1, <2>3, <4>1 DEF Journal, StoreWrite, Phase, instance, local
    <3>5. CASE Advance(w)
      BY <3>5, <2>2, <2>3 DEF Advance, StoreWrite, Parked, instance
    <3>6. CASE StoreBusy(w) \/ Return(w)
      BY <3>6, <2>2 DEF StoreBusy, Return, store, instance
    <3> QED
      BY <2>6, <3>1, <3>2, <3>3, <3>4, <3>5, <3>6 DEF Resume
  <2>7. ASSUME NEW w \in Worker, Fault(w) PROVE TypeOK'
    <3>1. CASE CommitFails(w)
      BY <3>1, <2>2, <2>4 DEF CommitFails, store, instance
    <3>2. CASE AnswerLost(w)
      <4>1. claims' \in [Key -> Holder \cup {NoOne}]
        BY <3>2, MeIsHolder DEF AnswerLost
      <4> QED
        BY <3>2, <2>2, <2>4, <4>1 DEF AnswerLost, instance
    <3> QED
      BY <2>7, <3>1, <3>2 DEF Fault
  <2>8. ASSUME NEW w \in Worker,
               ReadlessResume(w) \/ \E fork, inspect \in BOOLEAN : Read(w, fork, inspect)
        PROVE  TypeOK'
    <3>1. CASE ReadlessResume(w)
      BY <3>1, <2>1 DEF ReadlessResume, Parked, Phase, store, instance
    <3>2. ASSUME NEW fork \in BOOLEAN, NEW inspect \in BOOLEAN, Read(w, fork, inspect)
          PROVE  TypeOK'
      <4>1. CASE UNCHANGED << pc, local >>
        BY <3>2, <4>1 DEF Read, store, instance, local
      <4>2. CASE latest \in Parked /\ Goto(w, "check")
                 /\ view' = [view EXCEPT ![w] = latest]
                 /\ key' = [key EXCEPT ![w] = latest]
                 /\ site' = [site EXCEPT ![w] = "read"]
        BY <3>2, <4>2, <2>1 DEF Read, Key, Phase, store, instance
      <4> QED
        BY <3>2, <4>1, <4>2 DEF Read, ConsumeView
    <3> QED
      BY <2>8, <3>1, <3>2
  <2>9. ASSUME NEW s \in Saver, Crash(s) PROVE TypeOK'
    BY <2>9 DEF Crash, Key, Parked, Phase, store
  <2>10. CASE UNCHANGED vars
    BY <2>10 DEF vars, store, instance, local
  <2> QED
    BY <2>5, <2>6, <2>7, <2>8, <2>9, <2>10 DEF Next
<1> QED
  BY <1>1, <1>2, PTL DEF Spec

-----------------------------------------------------------------------------
(* The inductive invariant.                                                *)

\* At most one connection is in a transaction, and never for an existing row.
LEMMA TxnInvStep ==
  ASSUME GateInv, [Next]_vars
  PROVE  TxnInv'
<1> USE GateAssumption DEF GateInv, TypeOK, TxnInv
<1>1. CASE UNCHANGED << claims, txn >>
  BY <1>1
<1>2. ASSUME NEW w \in Worker, InsertRow(w) PROVE TxnInv'
  BY <1>2 DEF InsertRow, RowExists, WriterElsewhere, store
<1>3. ASSUME NEW w \in Worker, InsertDuplicate(w) PROVE TxnInv'
  BY <1>3 DEF InsertDuplicate, store
<1>4. ASSUME NEW w \in Worker, CommitTxn(w) PROVE TxnInv'
  BY <1>4 DEF CommitTxn
<1>5. ASSUME NEW w \in Worker, CommitFails(w) PROVE TxnInv'
  BY <1>5 DEF CommitFails, store
<1>6. ASSUME NEW w \in Worker, InsertOnConflict(w) \/ AnswerLost(w) PROVE TxnInv'
  BY <1>6 DEF InsertOnConflict, AnswerLost
<1>7. ASSUME NEW s \in Saver, Crash(s) PROVE TxnInv'
  BY <1>7 DEF Crash, store
<1> QED
  BY <1>1, <1>2, <1>3, <1>4, <1>5, <1>6, <1>7
     DEF Next, TakeClaim, Resume, Fault, Read, ReadlessResume, CheckHeld, Lock,
         InsertBusy, Commit, Hold, Serve, ResumeWrite, LatchPasses, Journal,
         Advance, StoreWrite, StoreBusy, Return, vars, store

\* A worker inside self.lock holds it; after a won claim its row is committed,
\* and after the latch is set the instance holds the key.
LEMMA CallInvStep ==
  ASSUME GateInv, [Next]_vars
  PROVE  CallInv'
<1> USE GateAssumption DEF GateInv, TypeOK, CallInv, Me
<1>1. ASSUME NEW w \in Worker, CheckHeld(w) \/ Lock(w) \/ InsertRow(w) PROVE CallInv'
  BY <1>1 DEF CheckHeld, Lock, InsertRow, Goto, store, instance, local
<1>2. ASSUME NEW w \in Worker, InsertDuplicate(w) \/ InsertBusy(w) PROVE CallInv'
  BY <1>2 DEF InsertDuplicate, InsertBusy, Unlock, EndCall, Goto, store, instance, local
<1>3. ASSUME NEW w \in Worker, Commit(w) PROVE CallInv'
  BY <1>3, RowsOnlyAdded DEF Commit, CommitTxn, Unlock, Goto, instance, local
<1>4. ASSUME NEW w \in Worker, InsertOnConflict(w) PROVE CallInv'
  <2>1. CASE Goto(w, "refused") /\ UNCHANGED claims
    BY <1>4, <2>1 DEF InsertOnConflict, Unlock, Goto, instance, local
  <2>2. CASE Goto(w, "won") /\ claims' = [claims EXCEPT ![key[w]] = Me(w)]
    <3>1. claims'[key[w]] = Me(w)
      BY <2>2
    <3>2. ASSUME NEW u \in Worker, claims[key[u]] = Me(u)
          PROVE  claims'[key[u]] = Me(u)
      <4>1. Me(u) # NoOne
        BY DEF Holder
      <4>2. key[u] \in Key
        OBVIOUS
      <4> HIDE DEF GateInv, TypeOK, CallInv, Me
      <4> QED
        BY <3>2, <4>1, <4>2, RowsOnlyAdded
    <3>3. pc[w] = "insert" /\ mutex' = [mutex EXCEPT ![SaverOf[w]] = NoOne]
      BY <1>4 DEF InsertOnConflict, Unlock
    <3>4. pc' = [pc EXCEPT ![w] = "won"]
      BY <2>2 DEF Goto
    <3>5. UNCHANGED << key, held, epoch, txn >>
      BY <1>4 DEF InsertOnConflict, instance, local
    <3> HIDE DEF GateInv, TypeOK
    <3>6. pc \in [Worker -> Phase] /\ mutex \in [Saver -> Worker \cup {NoOne}]
      BY DEF GateInv, TypeOK
    <3>7. CallInv
      BY DEF GateInv
    <3> QED
      BY <3>1, <3>2, <3>3, <3>4, <3>5, <3>6, <3>7
  <2> QED
    BY <1>4, <2>1, <2>2 DEF InsertOnConflict
<1>5. ASSUME NEW w \in Worker, Hold(w) \/ Serve(w) \/ LatchPasses(w) PROVE CallInv'
  BY <1>5 DEF Hold, Serve, LatchPasses, Goto, store, instance, local
<1>6. ASSUME NEW w \in Worker, ResumeWrite(w) PROVE CallInv'
  <2>1. pc' = [pc EXCEPT ![w] = "check"] \/ pc' = [pc EXCEPT ![w] = "journal"]
    BY <1>6 DEF ResumeWrite, Goto
  <2>2. \A u \in Worker \ {w} : key'[u] = key[u]
    BY <1>6 DEF ResumeWrite
  <2> QED
    BY <1>6, <2>1, <2>2 DEF ResumeWrite, store, instance
<1>7. ASSUME NEW w \in Worker, Journal(w) \/ Advance(w) PROVE CallInv'
  BY <1>7, RowsOnlyAdded DEF Journal, Advance, StoreWrite, CommitTxn, EndCall, Goto,
                             instance, local
<1>8. ASSUME NEW w \in Worker, StoreBusy(w) \/ Return(w) PROVE CallInv'
  BY <1>8 DEF StoreBusy, Return, EndCall, Goto, store, instance
<1>9. ASSUME NEW w \in Worker, CommitFails(w) PROVE CallInv'
  BY <1>9 DEF CommitFails, Unlock, EndCall, Goto, store, instance
<1>10. ASSUME NEW w \in Worker, AnswerLost(w) PROVE CallInv'
  BY <1>10, RowsOnlyAdded DEF AnswerLost, Unlock, EndCall, Goto, instance
<1>11. ASSUME NEW w \in Worker, ReadlessResume(w) PROVE CallInv'
  BY <1>11 DEF ReadlessResume, Goto, store, instance
<1>12. ASSUME NEW w \in Worker, NEW fork \in BOOLEAN, NEW inspect \in BOOLEAN,
              Read(w, fork, inspect)
       PROVE  CallInv'
  BY <1>12 DEF Read, Goto, store, instance, local
<1>13. ASSUME NEW s \in Saver, Crash(s) PROVE CallInv'
  BY <1>13 DEF Crash, store
<1>14. CASE UNCHANGED vars
  BY <1>14 DEF vars, store, instance, local
<1> HIDE DEF GateInv, TypeOK, CallInv, Me
<1> QED
  BY <1>1, <1>2, <1>3, <1>4, <1>5, <1>6, <1>7, <1>8, <1>9, <1>10, <1>11, <1>12,
     <1>13, <1>14 DEF Next, TakeClaim, Resume, Fault

\* The latch, and what was served under it, stays backed by committed rows.
LEMMA LatchStep ==
  ASSUME GateInv, [Next]_vars
  PROVE  LatchBackedByRow'
<1> USE GateAssumption DEF GateInv, TypeOK, LatchBackedByRow
<1>0. /\ \A s \in Saver : \A k \in held[s] : claims'[k] = << s, epoch[s] >>
      /\ \A p \in served : claims'[p[2]] = p[1]
  <2>1. \A s \in Saver : \A k \in held[s] : k \in Key /\ << s, epoch[s] >> # NoOne
    BY DEF Holder
  <2>2. ASSUME NEW p \in served PROVE p[2] \in Key /\ p[1] # NoOne
    <3>1. p \in Holder \X Key
      OBVIOUS
    <3> QED
      BY <3>1 DEF Holder
  <2> QED
    BY <2>1, <2>2, RowsOnlyAdded
<1>1. CASE UNCHANGED << held, epoch, served >>
  BY <1>0, <1>1
<1>2. ASSUME NEW w \in Worker, Hold(w) PROVE LatchBackedByRow'
  BY <1>2 DEF Hold, CallInv, Me, store
<1>3. ASSUME NEW w \in Worker, Serve(w) PROVE LatchBackedByRow'
  <2>1. key[w] \in held[SaverOf[w]] /\ claims[key[w]] = Me(w)
    BY <1>3 DEF Serve, CallInv, Me
  <2>2. ASSUME NEW p \in served' PROVE claims'[p[2]] = p[1]
    <3>1. CASE p \in served
      BY <1>0, <3>1
    <3>2. CASE p = << Me(w), key[w] >>
      BY <1>3, <2>1, <3>2 DEF Serve, store
    <3> QED
      BY <1>3, <3>1, <3>2 DEF Serve
  <2> QED
    BY <1>3, <2>2 DEF Serve, store
<1>4. ASSUME NEW s \in Saver, Crash(s) PROVE LatchBackedByRow'
  BY <1>4 DEF Crash, store
<1> QED
  BY <1>1, <1>2, <1>3, <1>4
     DEF Next, TakeClaim, Resume, Fault, Read, ReadlessResume, CheckHeld, Lock,
         InsertRow, InsertDuplicate, InsertBusy, Commit, InsertOnConflict,
         ResumeWrite, LatchPasses, Journal, Advance, StoreBusy, Return,
         CommitFails, AnswerLost, vars, instance

\* The strengthened invariant holds in every reachable state.
LEMMA GateInvHolds == Spec => []GateInv
<1>1. Init => TxnInv /\ CallInv /\ LatchBackedByRow
  BY GateAssumption DEF Init, TxnInv, CallInv, LatchBackedByRow
<1>2. GateInv /\ [Next]_vars => (TxnInv /\ CallInv /\ LatchBackedByRow)'
  BY TxnInvStep, CallInvStep, LatchStep
<1> QED
  BY <1>1, <1>2, GateTypeCorrect, PTL DEF Spec, GateInv

-----------------------------------------------------------------------------
(* What it gives.                                                          *)

\* What an instance holds or was served is its own committed row.
THEOREM LatchBackedByRowHolds == Spec => []LatchBackedByRow
<1>1. GateInv => LatchBackedByRow
  BY DEF GateInv
<1> QED
  BY <1>1, GateInvHolds, PTL

\* No two holders are ever served the same parked interrupt.
THEOREM AtMostOneServedHolds == Spec => []AtMostOneServed
<1>1. GateInv => AtMostOneServed
  <2> SUFFICES ASSUME GateInv, NEW p \in served, NEW q \in served, p[2] = q[2]
               PROVE  p = q
    BY DEF AtMostOneServed
  <2>1. p[1] = q[1]
    BY DEF GateInv, LatchBackedByRow
  <2>2. p = << p[1], p[2] >> /\ q = << q[1], q[2] >>
    BY DEF GateInv, TypeOK
  <2> QED
    BY <2>1, <2>2
<1> QED
  BY <1>1, GateInvHolds, PTL

\* The gate implements one owner per interrupt: a commit of an open transaction
\* (by the claim itself or by a later write of the store on that connection) is
\* a claim of its keys, a won autocommit INSERT is a claim of one key, and
\* everything else but a served read is a stuttering step.
THEOREM GateImplementsConsumeOnce == Spec => ImplementsConsumeOnce
<1>1. Init => Once!Init
  BY DEF Init, Once!Init
<1>2. GateInv /\ [Next]_vars => [Once!Next]_(Once!vars)
  <2> SUFFICES ASSUME GateInv, [Next]_vars PROVE [Once!Next]_(Once!vars)
    OBVIOUS
  <2>1. TypeOK /\ TxnInv
    BY DEF GateInv
  <2>2. ASSUME NEW w \in Worker, NEW ks \in SUBSET Key, ks # {},
               \A k \in ks : claims[k] = NoOne,
               claims' = [k \in Key |-> IF k \in ks THEN Me(w) ELSE claims[k]],
               UNCHANGED served
        PROVE  Once!Next
    BY <2>1, <2>2, MeIsHolder DEF Once!Next, Once!Claim
  <2>3. ASSUME NEW w \in Worker, CommitTxn(w), UNCHANGED served
        PROVE  [Once!Next]_(Once!vars)
    <3>1. CASE txn[SaverOf[w]] = {}
      BY <2>1, <2>3, <3>1 DEF CommitTxn, TypeOK, Once!vars
    <3>2. CASE txn[SaverOf[w]] # {}
      <4>1. SaverOf[w] \in Saver
        BY <2>1, MeIsHolder
      <4>2. txn[SaverOf[w]] \in SUBSET Key
        BY <2>1, <4>1 DEF TypeOK
      <4>3. \A k \in txn[SaverOf[w]] : claims[k] = NoOne
        BY <2>1, <4>1 DEF TxnInv
      <4> QED
        BY <2>2, <2>3, <3>2, <4>2, <4>3 DEF CommitTxn
    <3> QED
      BY <3>1, <3>2
  <2>4. ASSUME NEW w \in Worker, ~RowExists(w), UNCHANGED served,
               claims' = [claims EXCEPT ![key[w]] = Me(w)]
        PROVE  Once!Next
    <3>1. key[w] \in Key /\ claims[key[w]] = NoOne /\ claims \in [Key -> Holder \cup {NoOne}]
      BY <2>1, <2>4 DEF RowExists, TypeOK
    <3>2. claims' = [k \in Key |-> IF k \in {key[w]} THEN Me(w) ELSE claims[k]]
      BY <2>4, <3>1
    <3> QED
      BY <2>2, <2>4, <3>1, <3>2
  <2>5. ASSUME NEW w \in Worker, InsertOnConflict(w) \/ AnswerLost(w)
        PROVE  [Once!Next]_(Once!vars)
    <3>1. UNCHANGED served
      BY <2>5 DEF InsertOnConflict, AnswerLost
    <3>2. CASE RowExists(w)
      BY <2>1, <2>5, <3>1, <3>2 DEF InsertOnConflict, AnswerLost, TypeOK, Once!vars
    <3>3. CASE ~RowExists(w)
      <4>1. claims' = [claims EXCEPT ![key[w]] = Me(w)]
        BY <2>5, <3>3 DEF InsertOnConflict, AnswerLost
      <4> QED
        BY <2>4, <3>1, <3>3, <4>1
    <3> QED
      BY <3>2, <3>3
  <2>6. ASSUME NEW w \in Worker, Serve(w) PROVE Once!Next
    <3>1. claims[key[w]] = Me(w)
      <4>1. key[w] \in held[SaverOf[w]]
        BY <2>6 DEF Serve, GateInv, CallInv
      <4> QED
        BY <2>1, <4>1, MeIsHolder DEF GateInv, LatchBackedByRow, Me
    <3>2. key[w] \in Key /\ Me(w) \in Holder
      BY <2>1, MeIsHolder DEF TypeOK
    <3> QED
      BY <2>6, <3>1, <3>2 DEF Serve, store, Once!Next, Once!Serve
  <2>7. CASE UNCHANGED << claims, served >>
    BY <2>7 DEF Once!vars
  <2> QED
    BY <2>3, <2>5, <2>6, <2>7
       DEF Next, TakeClaim, Resume, Fault, Read, ReadlessResume, CheckHeld, Lock,
           InsertRow, InsertDuplicate, InsertBusy, Commit, Hold, ResumeWrite,
           LatchPasses, Journal, Advance, StoreWrite, StoreBusy, Return,
           CommitFails, Crash, vars, store
<1> QED
  BY <1>1, <1>2, GateInvHolds, PTL DEF Spec, ImplementsConsumeOnce, Once!Spec

-----------------------------------------------------------------------------
(* The secondary latch.                                                    *)

\* A write claims the checkpoint its run loaded; past the latch, that row is
\* committed and its own.
WriteInv ==
  \A w \in Worker :
    /\ site[w] = "write" /\ pc[w] \in {"check", "lock", "insert", "commit", "won", "granted"}
         => key[w] = view[w]
    /\ pc[w] = "journal" => claims[view[w]] = Me(w)

\* WriteInv survives every step when a write names its checkpoint and that does
\* not make it a fork.
LEMMA WriteInvStep ==
  ASSUME NamesCkpt, ~ForkOnExplicit, GateInv, WriteInv, [Next]_vars
  PROVE  WriteInv'
<1> USE GateAssumption DEF WriteInv, TypeOK, Me
<1>1. TypeOK /\ CallInv /\ LatchBackedByRow
  BY DEF GateInv
<1>2. ASSUME NEW u \in Worker, claims[view[u]] = Me(u)
      PROVE  claims'[view[u]] = Me(u)
  <2>1. Me(u) # NoOne /\ view[u] \in Key
    BY <1>1 DEF Holder, Key
  <2> HIDE DEF Me
  <2> QED
    BY <1>2, <2>1, RowsOnlyAdded
<1>3. ASSUME NEW w \in Worker, TakeClaim(w) PROVE WriteInv'
  <2>1. UNCHANGED epoch
    BY <1>3 DEF TakeClaim, CheckHeld, Lock, InsertRow, InsertDuplicate, InsertBusy,
                Commit, InsertOnConflict, Hold, instance
  <2>2. CASE EndCall(w)
    BY <1>1, <1>2, <2>1, <2>2 DEF EndCall, Goto
  <2>3. ASSUME NEW ph \in {"lock", "insert", "commit", "won", "granted", "refused"},
               pc' = [pc EXCEPT ![w] = ph], UNCHANGED local,
               pc[w] \in {"check", "lock", "insert", "commit", "won"}
        PROVE  WriteInv'
    BY <1>1, <1>2, <2>1, <2>3 DEF local
  <2> QED
    BY <1>3, <2>2, <2>3
       DEF TakeClaim, CheckHeld, Lock, InsertRow, InsertDuplicate, InsertBusy,
           Commit, InsertOnConflict, Hold, Goto
<1>4. ASSUME NEW w \in Worker, Serve(w) PROVE WriteInv'
  BY <1>1, <1>2, <1>4 DEF Serve, Goto, local
<1>5. ASSUME NEW w \in Worker, ResumeWrite(w) PROVE WriteInv'
  <2>1. /\ pc' = [pc EXCEPT ![w] = "check"]
        /\ key' = [key EXCEPT ![w] = view[w]]
        /\ site' = [site EXCEPT ![w] = "write"]
    BY <1>5 DEF ResumeWrite, ConsumeView, Goto
  <2>2. UNCHANGED << view, epoch >>
    BY <1>5 DEF ResumeWrite, instance
  <2> QED
    BY <1>1, <1>2, <2>1, <2>2
<1>6. ASSUME NEW w \in Worker, LatchPasses(w) PROVE WriteInv'
  <2>1. key[w] = view[w] /\ key[w] \in held[SaverOf[w]]
    BY <1>1, <1>6 DEF LatchPasses, CallInv
  <2>2. claims[view[w]] = Me(w)
    BY <1>1, <2>1 DEF LatchBackedByRow
  <2> QED
    BY <1>1, <1>2, <1>6, <2>2 DEF LatchPasses, Goto, instance, local
<1>7. ASSUME NEW w \in Worker, Journal(w) PROVE WriteInv'
  BY <1>1, <1>2, <1>7 DEF Journal, Goto, instance, local
<1>8. ASSUME NEW w \in Worker, Advance(w) \/ StoreBusy(w) \/ Return(w) PROVE WriteInv'
  BY <1>1, <1>2, <1>8 DEF Advance, StoreBusy, Return, EndCall, Goto, instance
<1>9. ASSUME NEW w \in Worker, Fault(w) PROVE WriteInv'
  BY <1>1, <1>2, <1>9 DEF Fault, CommitFails, AnswerLost, EndCall, Goto, instance
<1>10. ASSUME NEW w \in Worker, ReadlessResume(w) PROVE WriteInv'
  BY <1>1, <1>2, <1>10 DEF ReadlessResume, Goto, instance
<1>11. ASSUME NEW w \in Worker, NEW fork \in BOOLEAN, NEW inspect \in BOOLEAN,
              Read(w, fork, inspect)
       PROVE  WriteInv'
  BY <1>1, <1>2, <1>11 DEF Read, Goto, instance, local
<1>12. ASSUME NEW s \in Saver, Crash(s) PROVE WriteInv'
  BY <1>1, <1>2, <1>12 DEF Crash
<1>13. CASE UNCHANGED vars
  BY <1>13 DEF vars, store, instance, local
<1> HIDE DEF WriteInv, TypeOK, Me
<1> QED
  BY <1>3, <1>4, <1>5, <1>6, <1>7, <1>8, <1>9, <1>10, <1>11, <1>12, <1>13
     DEF Next, Resume, Fault

\* A resume is journaled only by the holder of its claim, with a gated read
\* before it or not: what put_writes claims is the checkpoint it stores for.
THEOREM JournaledByHolderHolds ==
  ASSUME NamesCkpt, ~ForkOnExplicit
  PROVE  Spec => []JournaledByHolder
<1>1. Init => WriteInv /\ JournaledByHolder
  BY DEF Init, WriteInv, JournaledByHolder
<1>2. GateInv /\ WriteInv /\ [Next]_vars => WriteInv'
  BY WriteInvStep
<1>3. GateInv /\ WriteInv /\ JournaledByHolder /\ [Next]_vars => JournaledByHolder'
  <2> SUFFICES ASSUME GateInv, WriteInv, JournaledByHolder, [Next]_vars
               PROVE  JournaledByHolder'
    OBVIOUS
  <2>1. ASSUME NEW p \in journaled PROVE claims'[p[2]] = p[1]
    <3>1. p[2] \in Key /\ p[1] # NoOne /\ claims[p[2]] = p[1]
      <4>1. p \in Holder \X Parked
        BY <2>1 DEF GateInv, TypeOK
      <4> QED
        BY <2>1, <4>1, GateAssumption DEF Holder, Key, JournaledByHolder
    <3> QED
      BY <3>1, RowsOnlyAdded
  <2>2. ASSUME NEW w \in Worker, Journal(w) PROVE JournaledByHolder'
    <3>1. claims[view[w]] = Me(w)
      BY <2>2 DEF Journal, WriteInv
    <3>2. claims'[view[w]] = Me(w)
      <4>1. Me(w) # NoOne /\ view[w] \in Key
        BY GateAssumption, MeIsHolder DEF GateInv, TypeOK, Holder, Key
      <4> QED
        BY <3>1, <4>1, RowsOnlyAdded
    <3>3. ASSUME NEW p \in journaled' PROVE claims'[p[2]] = p[1]
      <4>1. CASE p \in journaled
        BY <2>1, <4>1
      <4>2. CASE p = << Me(w), view[w] >>
        BY <3>2, <4>2
      <4> QED
        BY <2>2, <3>3, <4>1, <4>2 DEF Journal
    <3> QED
      BY <3>3 DEF JournaledByHolder
  <2>3. CASE UNCHANGED journaled
    BY <2>1, <2>3 DEF JournaledByHolder
  <2> QED
    BY <2>2, <2>3
       DEF Next, TakeClaim, Resume, Fault, Read, ReadlessResume, CheckHeld, Lock,
           InsertRow, InsertDuplicate, InsertBusy, Commit, InsertOnConflict, Hold,
           Serve, ResumeWrite, LatchPasses, Advance, StoreBusy, Return,
           CommitFails, AnswerLost, Crash, vars, store
<1> QED
  BY <1>1, <1>2, <1>3, GateInvHolds, PTL DEF Spec
=============================================================================
