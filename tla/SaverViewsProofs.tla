-------------------------- MODULE SaverViewsProofs --------------------------
(***************************************************************************)
(* What holds of the savers between an engine and its store for any number *)
(* of callers, answers, resumes, failures of the store and restarts.       *)
(***************************************************************************)
EXTENDS SaverViews, FiniteSetTheorems, WellFoundedInduction, TLAPS

Step == {"idle", "load", "null", "store_null", "task", "store_task", "put",
         "sequence", "store"}

\* Where a resume has a checkpoint that it loaded.
Loaded == Step \ {"idle", "load"}

\* Where a resume will mint an identifier, and where it has one.
Minting == Step \ {"idle", "sequence", "store"}
Minted == {"sequence", "store"}

Rec == [task : BOOLEAN, val : Value, key : BOOLEAN \X Nat]

Op == {"Put", "PutWrites", "ValidityRejected"}
Entry == [seq : Nat, kind : Op, ckpt : Nat]

Types ==
  /\ kind \in Kinds /\ on_explicit \in BOOLEAN
  /\ gate \in [CkptId -> Nat]
  /\ values \in [CkptId -> Seq(Value)]
  /\ writes \in [CkptId -> Seq(Rec)]
  /\ ordinal \in [CkptId -> Nat]
  /\ minted \in Nat /\ calls \in Nat /\ fails \in Nat /\ deaths \in Nat
  /\ journal \in Seq(Entry) /\ next_seq \in 0 .. MaxSeq
  /\ step \in [Worker -> Step]
  /\ call \in [Worker -> [fork : BOOLEAN, flag : BOOLEAN, ckpt : CkptId \cup {NoCkpt}, val : Value]]
  /\ view \in [Worker -> [ckpt : CkptId, seen : SUBSET Value]]
  /\ answer \in [Worker -> Value]
  /\ holds \in [Worker -> Nat]
  /\ recorded \in [Worker -> SUBSET Value]
  /\ lost \in SUBSET Nat

Pending == {w \in Worker : step[w] \in Minting}

\* An identifier is minted at most once for each resume.
Counted ==
  /\ calls <= MaxCalls
  /\ minted + Cardinality(Pending) <= calls + 1

\* There is a newest checkpoint, and every resume past its load has one.
Newer ==
  /\ \E m \in Stored : \A d \in Stored : d <= m
  /\ \A w \in Worker : step[w] \in Loaded => view[w].ckpt \in Stored

\* What a resume is about to store is an identifier nobody else has used.
Fresh ==
  /\ \A c \in Stored : c <= minted
  /\ \A w \in Worker : step[w] \in Minted =>
       holds[w] \in CkptId \ Stored /\ holds[w] <= minted
  /\ \A w, u \in Worker : step[w] \in Minted /\ step[u] \in Minted /\ w # u =>
       holds[w] # holds[u]

\* A resume under way names a stored checkpoint or none, and is a fork by its flag
\* or by the checkpoint it names.
Named ==
  \A w \in Worker : step[w] # "idle" =>
    /\ call[w].ckpt \in Stored \cup {NoCkpt}
    /\ call[w].fork = (call[w].flag \/ (on_explicit /\ call[w].ckpt # NoCkpt))

SaverBasics == Types /\ Counted /\ Newer /\ Fresh /\ Named

-----------------------------------------------------------------------------
Puts == {m.ckpt : m \in {n \in Range(journal) : n.kind = "Put"}}

Storing == {holds[w] : w \in {u \in Worker : step[u] = "store"}}

\* The journal of RemitSaverMixin and the store account for each other.
Ledger ==
  kind = "remit" =>
    /\ Stored \ lost \subseteq Puts \cup {1}
    /\ Puts \subseteq Stored \cup lost \cup Storing
    /\ \A w \in Worker : step[w] = "store" => holds[w] \in Puts

\* What was validated is what will be stored.
Validated ==
  kind \in {"remit", "validating"} =>
    /\ \A c \in Stored : Valid(values[c])
    /\ \A w \in Worker : step[w] \in Minted => Valid(State(w))

\* A fork sees no recorded answer, any other resume the first there was.
SeenByIntent ==
  kind = "remit" =>
    \A w \in Worker : step[w] \in Loaded =>
      /\ view[w].seen \subseteq recorded[w]
      /\ call[w].fork => view[w].seen = {}
      /\ ~call[w].fork /\ recorded[w] # {} => view[w].seen # {}

-----------------------------------------------------------------------------
LEMMA CkptNat == CkptId \subseteq Nat /\ 1 \in CkptId /\ \A c \in CkptId : c >= 1
  BY SaverAssumption DEF CkptId

LEMMA NoCallType == NoCall \in [fork : BOOLEAN, flag : BOOLEAN, ckpt : CkptId \cup {NoCkpt}, val : Value]
  BY SaverAssumption DEF NoCall

\* The first answer is one of the answers, and there is one if there is any.
LEMMA FirstOfAnswers ==
  ASSUME NEW ws \in Seq(Rec)
  PROVE  /\ First(ws) \subseteq Answers(ws)
         /\ Answers(ws) # {} => First(ws) # {}
         /\ Answers(ws) \subseteq Value
<1> DEFINE T == {i \in DOMAIN ws : ws[i].task}
<1>1. T \subseteq Nat
  OBVIOUS
<1>2. ASSUME T # {} PROVE \E k \in T : \A j \in T : k <= j
  <2>1. PICK k \in T : \A j \in T : << j, k >> \notin OpToRel(<, Nat)
    BY <1>1, <1>2, NatLessThanWellFounded, WFMin, Zenon
  <2>2. ASSUME NEW j \in T PROVE k <= j
    <3>1. j \in Nat /\ k \in Nat
      BY <1>1
    <3>2. ~ (j < k)
      BY <2>1, <3>1 DEF OpToRel
    <3> QED BY <3>1, <3>2
  <2> QED BY <2>2
<1>3. First(ws) \subseteq Answers(ws) /\ (Answers(ws) # {} => First(ws) # {})
  BY <1>2 DEF First, Answers
<1>4. Answers(ws) \subseteq Value
  <2>1. \A i \in DOMAIN ws : ws[i] \in Rec
    OBVIOUS
  <2> QED BY <2>1 DEF Answers, Rec
<1> QED BY <1>3, <1>4

\* What is kept under keys stays a sequence of recorded resumes.
LEMMA KeyedType ==
  ASSUME NEW ws \in Seq(Rec), NEW x \in Rec PROVE Keyed(ws, x) \in Seq(Rec)
<1>1. CASE \E k \in DOMAIN ws : ws[k].key = x.key
  <2> DEFINE f == [k \in DOMAIN ws |-> IF ws[k].key = x.key THEN x ELSE ws[k]]
  <2>1. f \in [1 .. Len(ws) -> Rec]
    OBVIOUS
  <2>2. f \in Seq(Rec)
    BY <2>1, Len(ws) \in Nat
  <2> QED BY <1>1, <2>2 DEF Keyed
<1>2. CASE ~ \E k \in DOMAIN ws : ws[k].key = x.key
  BY <1>2 DEF Keyed
<1> QED BY <1>1, <1>2

\* get_tuple hands out nothing, the last recorded resume, or all of them.
LEMMA GetTupleType ==
  ASSUME NEW k, NEW ws \in Seq(Rec) PROVE get_tuple(k, ws) \in Seq(Rec)
<1>1. Len(ws) > 1 => << Last(ws) >> \in Seq(Rec)
  BY DEF Last
<1> QED BY <1>1 DEF get_tuple

LEMMA NewestStored == ASSUME SaverBasics PROVE Newest \in Stored
  BY CkptNat DEF SaverBasics, Newer, Newest, Stored

-----------------------------------------------------------------------------
\* The two outcomes that end a resume keep its local state typed.
LEMMA LeaveTypes ==
  ASSUME Types, NEW w \in Worker, Leave(w)
  PROVE  /\ step' = [step EXCEPT ![w] = "idle"]
         /\ step' \in [Worker -> Step]
         /\ call' \in [Worker -> [fork : BOOLEAN, flag : BOOLEAN, ckpt : CkptId \cup {NoCkpt}, val : Value]]
         /\ view' \in [Worker -> [ckpt : CkptId, seen : SUBSET Value]]
         /\ answer' \in [Worker -> Value]
         /\ holds' \in [Worker -> Nat]
         /\ recorded' \in [Worker -> SUBSET Value]
         /\ \A u \in Worker \ {w} :
              /\ step'[u] = step[u] /\ call'[u] = call[u] /\ view'[u] = view[u]
              /\ answer'[u] = answer[u] /\ holds'[u] = holds[u]
              /\ recorded'[u] = recorded[u]
<1>1. NoCall.val \in Value
  BY SaverAssumption DEF NoCall
<1>2. NoView \in [ckpt : CkptId, seen : SUBSET Value]
  BY CkptNat DEF NoView
<1> QED BY <1>1, <1>2, NoCallType DEF Leave, Goto, Types, Step

LEMMA ServedType ==
  ASSUME Types, NEW w \in Worker, NEW task \in BOOLEAN PROVE Served(w, task) \in Value
<1>1. call[w].val \in Value /\ view[w].seen \subseteq Value
  BY DEF Types
<1> QED BY <1>1 DEF Served

LEMMA RangeAppend ==
  ASSUME NEW S, NEW s \in Seq(S), NEW e \in S
  PROVE  Range(Append(s, e)) = Range(s) \cup {e}
<1> DEFINE t == Append(s, e)
<1>1. Len(s) \in Nat /\ DOMAIN s = 1 .. Len(s) /\ DOMAIN t = 1 .. Len(s) + 1
  OBVIOUS
<1>2. t[Len(s) + 1] = e /\ \A i \in 1 .. Len(s) : t[i] = s[i]
  OBVIOUS
<1> HIDE DEF t
<1>3. Range(t) \subseteq Range(s) \cup {e}
  <2>1. ASSUME NEW i \in DOMAIN t PROVE t[i] \in Range(s) \cup {e}
    <3>1. CASE i \in 1 .. Len(s)
      BY <1>1, <1>2, <3>1 DEF Range
    <3>2. CASE i = Len(s) + 1
      BY <1>2, <3>2
    <3> QED BY <1>1, <3>1, <3>2
  <2> QED BY <2>1 DEF Range
<1>4. Range(s) \subseteq Range(t) /\ e \in Range(t)
  BY <1>1, <1>2 DEF Range
<1> QED BY <1>3, <1>4 DEF t

LEMMA SequenceType ==
  ASSUME Types, NEW op \in Op, NEW c \in Nat, Sequence(op, c)
  PROVE  /\ journal' \in Seq(Entry) /\ next_seq' \in 0 .. MaxSeq
         /\ kind # "remit" => UNCHANGED core
         /\ kind = "remit" =>
              Range(journal') = Range(journal) \cup {[seq |-> next_seq, kind |-> op, ckpt |-> c]}
<1> DEFINE e == [seq |-> next_seq, kind |-> op, ckpt |-> c]
<1>1. journal \in Seq(Entry) /\ next_seq \in 0 .. MaxSeq /\ e \in Entry
  BY DEF Types, Entry
<1>2. CASE kind = "remit"
  <2>1. /\ journal' = Append(journal, e)
        /\ next_seq < MaxSeq /\ next_seq' = next_seq + 1
    BY <1>2 DEF Sequence
  <2> HIDE DEF e
  <2>2. journal' \in Seq(Entry)
    BY <1>1, <2>1
  <2>3. Range(Append(journal, e)) = Range(journal) \cup {e}
    BY <1>1, RangeAppend
  <2>4. next_seq' \in 0 .. MaxSeq
    BY <1>1, <2>1, SaverAssumption
  <2> QED BY <1>2, <2>1, <2>2, <2>3, <2>4 DEF e
<1>3. CASE kind # "remit"
  BY <1>1, <1>3 DEF Sequence, core
<1> QED BY <1>2, <1>3

LEMMA AcceptType ==
  ASSUME Types, Accept
  PROVE  journal' = journal /\ next_seq' \in 0 .. MaxSeq
BY SaverAssumption DEF Accept, Types, core

-----------------------------------------------------------------------------
\* Every step keeps the types.
LEMMA TypesStep == ASSUME SaverBasics, SaverNext PROVE Types'
<1> USE DEF disk, local, counts, core
<1>0. Types
  BY DEF SaverBasics
<1>1. ASSUME NEW w \in Worker, NEW flag \in BOOLEAN, NEW c \in CkptId \cup {NoCkpt},
             NEW v \in Value, Resume(w, flag, c, v)
      PROVE  Types'
  BY <1>0, <1>1 DEF Resume, Goto, Types, Step
<1>2. ASSUME NEW w \in Worker, Load(w) PROVE Types'
  <2> DEFINE c == IF call[w].ckpt = NoCkpt THEN Newest ELSE call[w].ckpt
  <2>1. CASE Leave(w)
    BY <1>0, <1>2, <2>1, LeaveTypes DEF Load, Types
  <2>2. CASE /\ view' = [view EXCEPT ![w] = [ckpt |-> c, seen |-> First(get_tuple(call[w], writes[c]))]]
             /\ recorded' = [recorded EXCEPT ![w] = Answers(writes[c])]
             /\ Goto(w, "null")
             /\ UNCHANGED << call, answer, holds >>
    <3>1. c \in CkptId
      BY <1>0, NewestStored DEF Types, Stored
    <3> HIDE DEF c
    <3>2. writes[c] \in Seq(Rec)
      BY <1>0, <3>1 DEF Types
    <3>3. get_tuple(call[w], writes[c]) \in Seq(Rec)
      BY <3>2, GetTupleType
    <3>4. Answers(writes[c]) \subseteq Value
      BY <3>2, FirstOfAnswers
    <3>5. First(get_tuple(call[w], writes[c])) \subseteq Value
      BY <3>3, FirstOfAnswers
    <3>6. view' \in [Worker -> [ckpt : CkptId, seen : SUBSET Value]]
      BY <1>0, <2>2, <3>1, <3>5 DEF Types
    <3>7. recorded' \in [Worker -> SUBSET Value] /\ step' \in [Worker -> Step]
      BY <1>0, <2>2, <3>4 DEF Types, Goto, Step
    <3> QED BY <1>0, <1>2, <2>2, <3>6, <3>7 DEF Load, Types
  <2> QED BY <1>2, <2>1, <2>2 DEF Load
<1>3. ASSUME NEW w \in Worker, SequenceWrites(w) PROVE Types'
  <2>1. view[w].ckpt \in CkptId
    BY <1>0 DEF Types
  <2>2. journal' \in Seq(Entry) /\ next_seq' \in 0 .. MaxSeq
    BY <1>0, <1>3, <2>1, SequenceType, CkptNat DEF SequenceWrites, Op
  <2> QED BY <1>0, <1>3, <2>1, <2>2 DEF SequenceWrites, Goto, Types, Step
<1>4. ASSUME NEW w \in Worker, StoreWrites(w) PROVE Types'
  <2> DEFINE task == step[w] = "store_task"
             c == view[w].ckpt
             key == IF kind = "fork_keyed" THEN << task, holds[w] >> ELSE << task, 0 >>
             x == [task |-> task, val |-> Served(w, task), key |-> key]
  <2>1. c \in CkptId /\ holds[w] \in Nat /\ writes[c] \in Seq(Rec) /\ ordinal[c] \in Nat
    BY <1>0 DEF Types
  <2>2. Served(w, task) \in Value /\ Served(w, TRUE) \in Value
    BY <1>0, ServedType
  <2>3. x \in Rec
    BY <2>1, <2>2 DEF Rec
  <2>4. Keyed(writes[c], x) \in Seq(Rec)
    BY <2>1, <2>3, KeyedType
  <2>5. writes' = [writes EXCEPT ![c] = Keyed(@, x)]
    BY <1>4 DEF StoreWrites
  <2> HIDE DEF x
  <2>6. writes' \in [CkptId -> Seq(Rec)]
    BY <1>0, <2>1, <2>4, <2>5 DEF Types
  <2>7. ordinal' \in [CkptId -> Nat]
    BY <1>0, <1>4, <2>1 DEF StoreWrites, Types
  <2>8. answer' \in [Worker -> Value]
    BY <1>0, <1>4, <2>2 DEF StoreWrites, Types
  <2>9. step' \in [Worker -> Step]
    BY <1>0, <1>4 DEF StoreWrites, Goto, Types, Step
  <2> QED BY <1>0, <1>4, <2>6, <2>7, <2>8, <2>9 DEF StoreWrites, Types
<1>5. ASSUME NEW w \in Worker, Put(w) PROVE Types'
  <2>1. minted + 1 \in Nat
    BY <1>0 DEF Types
  <2>2. CASE Sequence("ValidityRejected", minted + 1) /\ Leave(w)
    <3>1. journal' \in Seq(Entry) /\ next_seq' \in 0 .. MaxSeq
      BY <1>0, <2>1, <2>2, SequenceType DEF Op
    <3> QED BY <1>0, <1>5, <2>1, <2>2, <3>1, LeaveTypes DEF Put, Types
  <2>3. CASE /\ Accept
             /\ holds' = [holds EXCEPT ![w] = minted + 1]
             /\ Goto(w, "sequence")
             /\ UNCHANGED << call, view, answer, recorded >>
    BY <1>0, <1>5, <2>1, <2>3, AcceptType DEF Put, Goto, Types, Step
  <2> QED BY <1>5, <2>2, <2>3 DEF Put
<1>6. ASSUME NEW w \in Worker, SequencePut(w) PROVE Types'
  <2>1. journal' \in Seq(Entry) /\ next_seq' \in 0 .. MaxSeq
    <3>1. holds[w] \in Nat
      BY <1>0 DEF Types
    <3> QED BY <1>0, <1>6, <3>1, SequenceType DEF SequencePut, Op
  <2> QED BY <1>0, <1>6, <2>1 DEF SequencePut, Goto, Types, Step
<1>7. ASSUME NEW w \in Worker, StorePut(w) PROVE Types'
  <2>1. gate[view[w].ckpt] + 1 \in Nat /\ State(w) \in Seq(Value)
    BY <1>0 DEF Types, State
  <2>2. gate' \in [CkptId -> Nat] /\ values' \in [CkptId -> Seq(Value)]
    BY <1>0, <1>7, <2>1 DEF StorePut, Types
  <2> QED BY <1>0, <1>7, <2>2, LeaveTypes DEF StorePut, Types
<1>8. ASSUME NEW w \in Worker, StoreFails(w) PROVE Types'
  <2>1. lost' \in SUBSET Nat
    BY <1>0, <1>8 DEF StoreFails, Types
  <2>2. /\ step' \in [Worker -> Step]
        /\ call' \in [Worker -> [fork : BOOLEAN, flag : BOOLEAN, ckpt : CkptId \cup {NoCkpt}, val : Value]]
        /\ view' \in [Worker -> [ckpt : CkptId, seen : SUBSET Value]]
        /\ answer' \in [Worker -> Value] /\ holds' \in [Worker -> Nat]
        /\ recorded' \in [Worker -> SUBSET Value]
    BY <1>0, <1>8, LeaveTypes DEF StoreFails
  <2>3. /\ UNCHANGED << kind, on_explicit, gate, values, writes, ordinal, minted, core, calls, deaths >>
        /\ fails' \in Nat
    BY <1>0, <1>8 DEF StoreFails, Types
  <2> QED BY <1>0, <2>1, <2>2, <2>3 DEF Types
<1>9. CASE Die
  <2>1. NoCall.val \in Value /\ NoView \in [ckpt : CkptId, seen : SUBSET Value]
    BY SaverAssumption, CkptNat DEF NoCall, NoView
  <2>2. lost' \subseteq Nat
    BY <1>9, CkptNat DEF Die
  <2>3. /\ step' \in [Worker -> Step]
        /\ journal' \in Seq(Entry) /\ next_seq' \in 0 .. MaxSeq
        /\ call' \in [Worker -> [fork : BOOLEAN, flag : BOOLEAN, ckpt : CkptId \cup {NoCkpt}, val : Value]]
        /\ view' \in [Worker -> [ckpt : CkptId, seen : SUBSET Value]]
        /\ answer' \in [Worker -> Value] /\ holds' \in [Worker -> Nat]
        /\ recorded' \in [Worker -> SUBSET Value]
    BY <1>9, <2>1, NoCallType, SaverAssumption DEF Die, Step
  <2>4. /\ UNCHANGED << kind, on_explicit, gate, values, writes, ordinal, minted, calls, fails >>
        /\ deaths' \in Nat
    BY <1>0, <1>9 DEF Die, Types
  <2> QED BY <1>0, <2>2, <2>3, <2>4 DEF Types
<1> QED BY <1>1, <1>2, <1>3, <1>4, <1>5, <1>6, <1>7, <1>8, <1>9 DEF SaverNext

LEMMA CountedStep == ASSUME SaverBasics, SaverNext PROVE Counted'
<1> USE DEF disk, local, counts, core
<1>0. /\ Types /\ Counted /\ IsFiniteSet(Pending) /\ Cardinality(Pending) \in Nat
      /\ minted \in Nat /\ calls \in Nat /\ MaxCalls \in Nat
  <2>1. IsFiniteSet(Pending)
    BY SaverAssumption, FS_Subset DEF Pending
  <2> QED BY <2>1, FS_CardinalityType, SaverAssumption DEF SaverBasics, Types
<1>1. ASSUME Pending' \subseteq Pending, minted' = minted, calls' = calls PROVE Counted'
  <2>1. Cardinality(Pending') \in Nat /\ Cardinality(Pending') <= Cardinality(Pending)
    BY <1>0, <1>1, FS_Subset, FS_CardinalityType
  <2> QED BY <1>0, <1>1, <2>1 DEF Counted
<1>2. ASSUME NEW w \in Worker, NEW flag \in BOOLEAN, NEW c \in CkptId \cup {NoCkpt},
             NEW v \in Value, Resume(w, flag, c, v)
      PROVE  Counted'
  <2>1. Pending' = Pending \cup {w} /\ w \notin Pending
    BY <1>0, <1>2 DEF Resume, Goto, Pending, Minting, Step, Types
  <2>2. Cardinality(Pending') = Cardinality(Pending) + 1
    BY <1>0, <2>1, FS_AddElement
  <2> QED BY <1>0, <1>2, <2>2 DEF Resume, Counted
<1>3. ASSUME NEW w \in Worker, Put(w) PROVE Counted'
  <2>1. Pending' = Pending \ {w} /\ w \in Pending
    BY <1>0, <1>3 DEF Put, Leave, Goto, Pending, Minting, Step, Types
  <2>2. Cardinality(Pending') = Cardinality(Pending) - 1
    BY <1>0, <2>1, FS_RemoveElement
  <2> QED BY <1>0, <1>3, <2>2 DEF Put, Counted
<1>4. ASSUME NEW w \in Worker,
             Load(w) \/ SequenceWrites(w) \/ StoreWrites(w) \/ SequencePut(w)
               \/ StorePut(w) \/ StoreFails(w)
      PROVE  Counted'
  <2>1. Pending' \subseteq Pending
    BY <1>0, <1>4 DEF Load, SequenceWrites, StoreWrites, SequencePut, StorePut, StoreFails,
                      Leave, Goto, Pending, Minting, Step, Types, Writing
  <2> QED BY <1>1, <1>4, <2>1 DEF Load, SequenceWrites, StoreWrites, SequencePut, StorePut,
                                  StoreFails
<1>5. CASE Die
  <2>1. Pending' \subseteq Pending
    BY <1>5 DEF Die, Pending, Minting, Step
  <2> QED BY <1>1, <1>5, <2>1 DEF Die
<1> QED BY <1>2, <1>3, <1>4, <1>5 DEF SaverNext

\* Whoever is about to mint an identifier mints a new one, and within bounds.
LEMMA MintsWithin ==
  ASSUME SaverBasics, NEW w \in Worker, step[w] \in Minting
  PROVE  minted + 1 \in CkptId \ Stored /\ minted + 1 # 0
<1>1. IsFiniteSet(Pending) /\ w \in Pending
  BY SaverAssumption, FS_Subset DEF Pending
<1>2. Cardinality(Pending) \in Nat /\ Cardinality(Pending) # 0
  BY <1>1, FS_CardinalityType, FS_EmptySet
<1>3. minted + 1 <= MaxCalls + 1 /\ minted \in Nat
  BY <1>2, SaverAssumption DEF SaverBasics, Types, Counted
<1>4. minted + 1 \notin Stored
  BY <1>3 DEF SaverBasics, Fresh
<1> QED BY <1>3, <1>4, SaverAssumption DEF CkptId

\* A stored checkpoint stays stored, and only a finished put adds one.
LEMMA StoredStep ==
  ASSUME SaverBasics, SaverNext
  PROVE  \/ Stored' = Stored /\ values' = values
         \/ \E w \in Worker :
              /\ step[w] = "store" /\ step' = [step EXCEPT ![w] = "idle"]
              /\ StorePut(w)
              /\ holds[w] \in CkptId \ Stored
              /\ Stored' = Stored \cup {holds[w]}
              /\ values' = [values EXCEPT ![holds[w]] = State(w)]
<1> USE DEF disk, local, counts, core
<1>1. ASSUME NEW w \in Worker, StorePut(w)
      PROVE  /\ holds[w] \in CkptId \ Stored
             /\ Stored' = Stored \cup {holds[w]}
  <2>1. holds[w] \in CkptId \ Stored /\ gate[view[w].ckpt] + 1 # 0
    BY <1>1 DEF StorePut, SaverBasics, Types, Fresh, Minted
  <2> QED BY <1>1, <2>1 DEF StorePut, Stored, SaverBasics, Types
<1>2. ASSUME UNCHANGED << gate, values >> PROVE Stored' = Stored /\ values' = values
  BY <1>2 DEF Stored
<1>3. CASE Die
  BY <1>2, <1>3 DEF Die
<1>4. ASSUME NEW w \in Worker,
             \/ \E flag \in BOOLEAN, c \in CkptId \cup {NoCkpt}, v \in Value : Resume(w, flag, c, v)
             \/ Load(w) \/ SequenceWrites(w) \/ StoreWrites(w) \/ Put(w) \/ SequencePut(w)
             \/ StoreFails(w)
      PROVE  UNCHANGED << gate, values >>
  BY <1>4 DEF Resume, Load, SequenceWrites, StoreWrites, Put, SequencePut, StoreFails
<1> QED BY <1>1, <1>2, <1>3, <1>4 DEF SaverNext, StorePut, Leave, Goto

LEMMA NewerStep == ASSUME SaverBasics, SaverNext PROVE Newer'
<1> USE DEF disk, local, counts, core
<1>0. Types /\ Newer /\ Stored \subseteq Nat
  BY CkptNat DEF SaverBasics, Stored
<1>1. Stored \subseteq Stored'
  BY StoredStep
<1>2. \E m \in Stored' : \A d \in Stored' : d <= m
  <2>1. CASE Stored' = Stored
    BY <1>0, <2>1 DEF Newer
  <2>2. ASSUME NEW w \in Worker, holds[w] \in CkptId, Stored' = Stored \cup {holds[w]}
        PROVE  \E m \in Stored' : \A d \in Stored' : d <= m
    <3>1. PICK m \in Stored : \A d \in Stored : d <= m
      BY <1>0 DEF Newer
    <3>2. m \in Nat /\ holds[w] \in Nat
      BY <1>0, <2>2, CkptNat
    <3>3. CASE holds[w] <= m
      BY <1>0, <2>2, <3>1, <3>2, <3>3
    <3>4. CASE m < holds[w]
      BY <1>0, <2>2, <3>1, <3>2, <3>4
    <3> QED BY <3>2, <3>3, <3>4
  <2> QED BY <2>1, <2>2, StoredStep
<1>3. ASSUME NEW u \in Worker, step'[u] \in Loaded PROVE view'[u].ckpt \in Stored
  <2>1. ASSUME NEW w \in Worker, Load(w) PROVE view'[u].ckpt \in Stored
    <3>1. (IF call[w].ckpt = NoCkpt THEN Newest ELSE call[w].ckpt) \in CkptId
      BY <1>0, NewestStored DEF Types, Stored
    <3>2. CASE u # w
      BY <1>0, <1>3, <2>1, <3>2 DEF Load, Leave, Goto, Types, Newer
    <3>3. CASE u = w /\ ~Leave(w)
      <4> DEFINE c == IF call[w].ckpt = NoCkpt THEN Newest ELSE call[w].ckpt
      <4>1. view'[w].ckpt = c
        BY <1>0, <2>1, <3>3 DEF Load, Types
      <4>2. CASE call[w].ckpt = NoCkpt
        BY <3>3, <4>1, <4>2, NewestStored
      <4>3. CASE call[w].ckpt # NoCkpt
        BY <2>1, <3>3, <4>1, <4>3 DEF Named, SaverBasics, Load
      <4> QED BY <4>2, <4>3
    <3>4. CASE u = w /\ Leave(w)
      BY <1>0, <1>3, <3>4 DEF Leave, Goto, Types, Loaded
    <3> QED BY <3>2, <3>3, <3>4
  <2>2. ASSUME NEW w \in Worker,
               SequenceWrites(w) \/ StoreWrites(w) \/ SequencePut(w) \/ StorePut(w)
                 \/ StoreFails(w) \/ Put(w)
        PROVE  view'[u].ckpt \in Stored
    BY <1>0, <1>3, <2>2 DEF SequenceWrites, Writing, StoreWrites, SequencePut, StorePut,
         StoreFails, Put, Leave, Goto, Types, Newer, Loaded, Step
  <2>3. ASSUME NEW w \in Worker, NEW flag \in BOOLEAN, NEW c \in CkptId \cup {NoCkpt},
               NEW v \in Value, Resume(w, flag, c, v)
        PROVE  view'[u].ckpt \in Stored
    <3>1. u # w /\ step'[u] = step[u] /\ view' = view
      BY <1>0, <1>3, <2>3 DEF Resume, Goto, Types, Loaded
    <3> QED BY <1>0, <1>3, <3>1 DEF Newer
  <2>4. CASE Die
    BY <1>3, <2>4 DEF Die, Loaded
  <2> QED BY <2>1, <2>2, <2>3, <2>4 DEF SaverNext
<1> QED BY <1>1, <1>2, <1>3 DEF Newer

LEMMA NamedStep == ASSUME SaverBasics, SaverNext PROVE Named'
<1> USE DEF disk, local, counts, core
<1>0. Types /\ Named
  BY DEF SaverBasics
<1>1. Stored \subseteq Stored'
  BY StoredStep
<1>2. \A u \in Worker : step'[u] # "idle" =>
        /\ call'[u].ckpt \in Stored \cup {NoCkpt}
        /\ call'[u].fork = (call'[u].flag \/ (on_explicit /\ call'[u].ckpt # NoCkpt))
  <2>1. ASSUME NEW u \in Worker, step'[u] # "idle", NEW w \in Worker, NEW flag \in BOOLEAN,
               NEW c \in CkptId \cup {NoCkpt}, NEW v \in Value, Resume(w, flag, c, v)
        PROVE  /\ call'[u].ckpt \in Stored \cup {NoCkpt}
               /\ call'[u].fork = (call'[u].flag \/ (on_explicit /\ call'[u].ckpt # NoCkpt))
    <3>1. CASE u = w
      BY <1>0, <2>1, <3>1 DEF Resume, Types
    <3>2. CASE u # w
      BY <1>0, <2>1, <3>2 DEF Resume, Goto, Types, Named
    <3> QED BY <3>1, <3>2
  <2>2. ASSUME NEW u \in Worker, step'[u] # "idle", NEW w \in Worker,
               Load(w) \/ SequenceWrites(w) \/ StoreWrites(w) \/ Put(w) \/ SequencePut(w)
                 \/ StorePut(w) \/ StoreFails(w)
        PROVE  step[u] # "idle" /\ call'[u] = call[u]
    BY <1>0, <2>2 DEF Load, SequenceWrites, Writing, StoreWrites, Put, SequencePut, StorePut,
         StoreFails, Leave, Goto, Types
  <2>3. CASE Die
    BY <2>3 DEF Die
  <2> QED BY <1>0, <2>1, <2>2, <2>3 DEF SaverNext, Named
<1>3. on_explicit' = on_explicit
  BY DEF SaverNext, Resume, Load, SequenceWrites, StoreWrites, Put, SequencePut, StorePut,
         StoreFails, Die
<1> QED BY <1>1, <1>2, <1>3 DEF Named

LEMMA FreshStep == ASSUME SaverBasics, SaverNext PROVE Fresh'
<1> USE DEF disk, local, counts, core
<1>0. Types /\ Fresh /\ Stored \subseteq Nat
  BY CkptNat DEF SaverBasics, Stored
<1>1. ASSUME NEW w \in Worker, Put(w) PROVE Fresh'
  <2>1. Stored' = Stored /\ minted' = minted + 1 /\ minted \in Nat
    BY <1>0, <1>1 DEF Put, Stored, Types
  <2>2. minted + 1 \in CkptId \ Stored
    BY <1>1, MintsWithin DEF Put, Minting, Step
  <2>3. \A c \in Stored' : c <= minted'
    BY <1>0, <2>1 DEF Fresh
  <2>4. \A u \in Worker \ {w} : step'[u] = step[u] /\ holds'[u] = holds[u]
    BY <1>0, <1>1 DEF Put, Leave, Goto, Types
  <2>5. step'[w] = "idle" \/ (step'[w] = "sequence" /\ holds'[w] = minted + 1)
    BY <1>0, <1>1 DEF Put, Leave, Goto, Types
  <2>6. \A u \in Worker : holds[u] \in Nat
    BY <1>0 DEF Types
  <2>7. ASSUME NEW u \in Worker, step'[u] \in Minted
        PROVE  holds'[u] \in CkptId \ Stored' /\ holds'[u] <= minted'
    BY <1>0, <2>1, <2>2, <2>4, <2>5, <2>6, <2>7 DEF Fresh, Minted
  <2>8. ASSUME NEW u \in Worker, NEW t \in Worker, step'[u] \in Minted, step'[t] \in Minted,
               u # t
        PROVE  holds'[u] # holds'[t]
    BY <1>0, <2>1, <2>4, <2>5, <2>6, <2>8 DEF Fresh, Minted
  <2> QED BY <2>3, <2>7, <2>8 DEF Fresh
<1>2. ASSUME NEW w \in Worker, StorePut(w) PROVE Fresh'
  <2>1. /\ holds[w] \in CkptId \ Stored /\ step[w] \in Minted
        /\ Stored' = Stored \cup {holds[w]} /\ minted' = minted
    <3>1. holds[w] \in CkptId \ Stored /\ gate[view[w].ckpt] + 1 # 0 /\ step[w] \in Minted
      BY <1>2 DEF StorePut, SaverBasics, Types, Fresh, Minted
    <3> QED BY <1>0, <1>2, <3>1 DEF StorePut, Stored, Types
  <2>2. \A u \in Worker : step'[u] \in Minted => u # w /\ step[u] \in Minted /\ holds'[u] = holds[u]
    BY <1>0, <1>2 DEF StorePut, Leave, Goto, Types, Minted
  <2> QED BY <1>0, <2>1, <2>2 DEF Fresh
<1>3. ASSUME UNCHANGED << gate, minted >>,
             \A u \in Worker : step'[u] \in Minted => step[u] \in Minted /\ holds'[u] = holds[u]
      PROVE  Fresh'
  <2>1. Stored' = Stored
    BY <1>3 DEF Stored
  <2> QED BY <1>0, <1>3, <2>1 DEF Fresh
<1>4. ASSUME NEW w \in Worker,
             \/ \E flag \in BOOLEAN, c \in CkptId \cup {NoCkpt}, v \in Value : Resume(w, flag, c, v)
             \/ Load(w) \/ SequenceWrites(w) \/ StoreWrites(w) \/ SequencePut(w)
             \/ StoreFails(w)
      PROVE  Fresh'
  <2>1. UNCHANGED << gate, minted >>
    BY <1>4 DEF Resume, Load, SequenceWrites, StoreWrites, SequencePut, StoreFails
  <2>2. \A u \in Worker : step'[u] \in Minted => step[u] \in Minted /\ holds'[u] = holds[u]
    BY <1>0, <1>4 DEF Resume, Load, SequenceWrites, Writing, StoreWrites, SequencePut,
         StoreFails, Leave, Goto, Types, Minted
  <2> QED BY <1>3, <2>1, <2>2
<1>5. CASE Die
  BY <1>3, <1>5 DEF Die, Minted
<1> QED BY <1>1, <1>2, <1>3, <1>4, <1>5 DEF SaverNext

\* The kind of saver, and whether naming a checkpoint is a fork, never change.
LEMMA KindStep == ASSUME SaverNext PROVE kind' = kind /\ on_explicit' = on_explicit
  BY DEF SaverNext, Resume, Load, SequenceWrites, StoreWrites, Put, SequencePut, StorePut,
         StoreFails, Die

LEMMA BasicsInit == SaverInit => SaverBasics
<1> SUFFICES ASSUME SaverInit PROVE SaverBasics
  OBVIOUS
<1>1. Types
  <2>1. NoCall.val \in Value /\ NoView \in [ckpt : CkptId, seen : SUBSET Value]
    BY SaverAssumption, CkptNat DEF NoCall, NoView
  <2>2. /\ kind \in Kinds /\ on_explicit \in BOOLEAN
        /\ gate \in [CkptId -> Nat] /\ values \in [CkptId -> Seq(Value)]
        /\ writes \in [CkptId -> Seq(Rec)] /\ ordinal \in [CkptId -> Nat]
        /\ minted \in Nat /\ calls \in Nat /\ fails \in Nat /\ deaths \in Nat
    BY DEF SaverInit
  <2>3. journal \in Seq(Entry) /\ next_seq \in 0 .. MaxSeq
    BY SaverAssumption DEF SaverInit
  <2>4. /\ step \in [Worker -> Step]
        /\ call \in [Worker -> [fork : BOOLEAN, flag : BOOLEAN, ckpt : CkptId \cup {NoCkpt}, val : Value]]
        /\ view \in [Worker -> [ckpt : CkptId, seen : SUBSET Value]]
        /\ answer \in [Worker -> Value] /\ holds \in [Worker -> Nat]
        /\ recorded \in [Worker -> SUBSET Value] /\ lost \in SUBSET Nat
    BY <2>1, NoCallType DEF SaverInit, Step
  <2> QED BY <2>2, <2>3, <2>4 DEF Types
<1>2. Stored = {1}
  BY CkptNat DEF SaverInit, Stored
<1>3. Counted
  <2>1. Pending = {}
    BY DEF SaverInit, Pending, Minting, Step
  <2> QED BY <2>1, FS_EmptySet, SaverAssumption DEF SaverInit, Counted
<1>4. Newer /\ Fresh /\ Named
  BY <1>2 DEF SaverInit, Newer, Fresh, Named, Loaded, Minted
<1> QED BY <1>1, <1>3, <1>4 DEF SaverBasics

LEMMA BasicsStep == SaverBasics /\ [SaverNext]_saverVars => SaverBasics'
<1>1. ASSUME SaverBasics, SaverNext PROVE SaverBasics'
  BY <1>1, TypesStep, CountedStep, NewerStep, FreshStep, NamedStep DEF SaverBasics
<1>2. ASSUME SaverBasics, UNCHANGED saverVars PROVE SaverBasics'
  BY <1>2 DEF saverVars, disk, local, counts, core, SaverBasics, Types, Counted, Newer, Fresh,
              Named, Pending, Stored
<1> QED BY <1>1, <1>2

-----------------------------------------------------------------------------
\* What is sequenced joins the puts if it is one.
LEMMA PutsStep ==
  ASSUME Types, NEW op \in Op, NEW c \in Nat, Sequence(op, c), kind = "remit"
  PROVE  Puts' = IF op = "Put" THEN Puts \cup {c} ELSE Puts
<1>1. Range(journal') = Range(journal) \cup {[seq |-> next_seq, kind |-> op, ckpt |-> c]}
  BY SequenceType
<1> DEFINE e == [seq |-> next_seq, kind |-> op, ckpt |-> c]
<1>2. e.kind = op /\ e.ckpt = c
  OBVIOUS
<1> HIDE DEF e
<1>3. {n \in Range(journal') : n.kind = "Put"} =
        {n \in Range(journal) : n.kind = "Put"} \cup (IF op = "Put" THEN {e} ELSE {})
  BY <1>1, <1>2 DEF e
<1> QED BY <1>2, <1>3 DEF Puts

LEMMA LedgerStep == ASSUME SaverBasics, Ledger, SaverNext PROVE Ledger'
<1> USE DEF disk, local, counts, core
<1> SUFFICES ASSUME kind = "remit"
             PROVE  /\ Stored' \ lost' \subseteq Puts' \cup {1}
                    /\ Puts' \subseteq Stored' \cup lost' \cup Storing'
                    /\ \A w \in Worker : step'[w] = "store" => holds'[w] \in Puts'
  BY KindStep DEF Ledger
<1> DEFINE Accounts ==
             /\ Stored' \ lost' \subseteq Puts' \cup {1}
             /\ Puts' \subseteq Stored' \cup lost' \cup Storing'
             /\ \A w \in Worker : step'[w] = "store" => holds'[w] \in Puts'
<1>0. Types /\ Stored \ lost \subseteq Puts \cup {1}
      /\ Puts \subseteq Stored \cup lost \cup Storing
      /\ \A w \in Worker : step[w] = "store" => holds[w] \in Puts
  BY DEF SaverBasics, Ledger
\* A step that stores nothing, sequences no put and leaves the finished puts alone.
<1>1. ASSUME Stored' = Stored, lost' = lost, Puts' = Puts, Storing' = Storing,
             \A w \in Worker : step'[w] = "store" => step[w] = "store" /\ holds'[w] = holds[w]
      PROVE  Accounts
  BY <1>0, <1>1
<1>2. ASSUME NEW w \in Worker, NEW flag \in BOOLEAN, NEW c \in CkptId \cup {NoCkpt},
             NEW v \in Value, Resume(w, flag, c, v)
      PROVE  Accounts
  <2>1. /\ Stored' = Stored /\ lost' = lost /\ Puts' = Puts
    BY <1>2 DEF Resume, Stored, Puts
  <2>2. \A u \in Worker : (step'[u] = "store" <=> step[u] = "store") /\ holds'[u] = holds[u]
    BY <1>0, <1>2 DEF Resume, Goto, Types
  <2>3. Storing' = Storing
    BY <2>2 DEF Storing
  <2> QED BY <1>1, <2>1, <2>2, <2>3
<1>3. ASSUME NEW w \in Worker, Load(w) \/ SequenceWrites(w) \/ StoreWrites(w) \/ Put(w)
      PROVE  Accounts
  <2>1. /\ Stored' = Stored /\ lost' = lost
    BY <1>3 DEF Load, SequenceWrites, StoreWrites, Put, Stored
  <2>2. Puts' = Puts
    <3>1. CASE journal' = journal
      BY <3>1 DEF Puts
    <3>2. CASE Sequence("PutWrites", view[w].ckpt)
      <4>1. view[w].ckpt \in Nat
        BY <1>0, CkptNat DEF Types
      <4> QED BY <1>0, <3>2, <4>1, PutsStep DEF Op
    <3>3. CASE Sequence("ValidityRejected", minted + 1)
      <4>1. minted + 1 \in Nat
        BY <1>0 DEF Types
      <4> QED BY <1>0, <3>3, <4>1, PutsStep DEF Op
    <3>4. CASE Accept
      BY <1>0, <3>4, AcceptType DEF Puts
    <3> QED BY <1>3, <3>1, <3>2, <3>3, <3>4 DEF Load, SequenceWrites, StoreWrites, Put
  <2>3. \A u \in Worker : (step'[u] = "store" <=> step[u] = "store")
                          /\ (step[u] = "store" => holds'[u] = holds[u])
    BY <1>0, <1>3 DEF Load, SequenceWrites, Writing, StoreWrites, Put, Leave, Goto, Types
  <2>4. Storing' = Storing
    BY <2>3 DEF Storing
  <2> QED BY <1>1, <2>1, <2>2, <2>3, <2>4
<1>4. ASSUME NEW w \in Worker, SequencePut(w) PROVE Accounts
  <2>1. Stored' = Stored /\ lost' = lost /\ holds' = holds
    BY <1>4 DEF SequencePut, Stored
  <2>2. Puts' = Puts \cup {holds[w]}
    <3>1. holds[w] \in Nat
      BY <1>0 DEF Types
    <3> QED BY <1>0, <1>4, <3>1, PutsStep DEF SequencePut, Op
  <2>3. \A u \in Worker : step'[u] = "store" <=> u = w \/ step[u] = "store"
    BY <1>0, <1>4 DEF SequencePut, Goto, Types
  <2>4. Storing' = Storing \cup {holds[w]}
    BY <2>1, <2>3 DEF Storing
  <2> QED BY <1>0, <2>1, <2>2, <2>3, <2>4
<1>5. ASSUME NEW w \in Worker, StorePut(w) PROVE Accounts
  <2>1. /\ step[w] = "store" /\ lost' = lost /\ Puts' = Puts
    BY <1>5 DEF StorePut, Puts
  <2>2. Stored' = Stored \cup {holds[w]}
    <3>1. holds[w] \in CkptId /\ gate[view[w].ckpt] + 1 # 0
      BY <1>5 DEF StorePut, SaverBasics, Types, Fresh, Minted
    <3> QED BY <1>0, <1>5, <3>1 DEF StorePut, Stored, Types
  <2>3. \A u \in Worker : (step'[u] = "store" <=> u # w /\ step[u] = "store")
                          /\ (u # w => holds'[u] = holds[u])
    BY <1>0, <1>5 DEF StorePut, Leave, Goto, Types
  <2>4. Storing \subseteq Storing' \cup {holds[w]}
    BY <2>3 DEF Storing
  <2> QED BY <1>0, <2>1, <2>2, <2>3, <2>4
<1>6. ASSUME NEW w \in Worker, StoreFails(w) PROVE Accounts
  <2>1. Stored' = Stored /\ Puts' = Puts /\ lost \subseteq lost'
    BY <1>6 DEF StoreFails, Stored, Puts
  <2>2. \A u \in Worker : (step'[u] = "store" <=> u # w /\ step[u] = "store")
                          /\ (u # w => holds'[u] = holds[u])
    BY <1>0, <1>6 DEF StoreFails, Leave, Goto, Types
  <2>3. step[w] = "store" => holds[w] \in lost'
    BY <1>6 DEF StoreFails
  <2>4. Storing \subseteq Storing' \cup lost'
    BY <2>2, <2>3 DEF Storing
  <2> QED BY <1>0, <2>1, <2>2, <2>4
<1>7. CASE Die
  <2>1. Puts' = {} /\ \A u \in Worker : step'[u] # "store"
    BY <1>7 DEF Die, Puts, Range
  <2>2. Stored' \subseteq lost'
    <3>1. \A c \in Stored : c \in CkptId /\ c \in Nat /\ c >= 1 /\ c <= minted
      BY CkptNat DEF SaverBasics, Fresh, Stored
    <3> QED BY <1>0, <1>7, <3>1 DEF Die, Stored, Types
  <2> QED BY <2>1, <2>2
<1> QED BY <1>2, <1>3, <1>4, <1>5, <1>6, <1>7 DEF SaverNext

LEMMA ValidatedStep == ASSUME SaverBasics, Validated, SaverNext PROVE Validated'
<1> USE DEF disk, local, counts, core
<1> SUFFICES ASSUME kind \in {"remit", "validating"}
             PROVE  /\ \A c \in Stored' : Valid(values'[c])
                    /\ \A u \in Worker : step'[u] \in Minted => Valid(State(u)')
  BY KindStep DEF Validated, Valid
<1> DEFINE Valids == /\ \A c \in Stored' : Valid(values'[c])
                     /\ \A u \in Worker : step'[u] \in Minted => Valid(State(u)')
<1>0. /\ Types /\ Newer /\ Fresh
      /\ \A c \in Stored : Valid(values[c])
      /\ \A u \in Worker : step[u] \in Minted => Valid(State(u)) /\ view[u].ckpt \in Stored
  BY DEF SaverBasics, Validated, Newer, Loaded, Minted, Step
<1>1. ASSUME UNCHANGED << gate, values >>,
             \A u \in Worker : step'[u] \in Minted =>
               step[u] \in Minted /\ view'[u] = view[u] /\ answer'[u] = answer[u]
      PROVE  Valids
  <2>1. Stored' = Stored
    BY <1>1 DEF Stored
  <2>2. ASSUME NEW u \in Worker, step'[u] \in Minted PROVE Valid(State(u)')
    <3>1. State(u)' = State(u)
      BY <1>1, <2>2 DEF State
    <3> QED BY <1>0, <1>1, <2>2, <3>1
  <2> QED BY <1>0, <1>1, <2>1, <2>2
<1>2. ASSUME NEW w \in Worker,
             \/ \E flag \in BOOLEAN, c \in CkptId \cup {NoCkpt}, v \in Value : Resume(w, flag, c, v)
             \/ Load(w) \/ SequenceWrites(w) \/ StoreWrites(w) \/ SequencePut(w)
             \/ StoreFails(w)
      PROVE  Valids
  <2>1. UNCHANGED << gate, values >>
    BY <1>2 DEF Resume, Load, SequenceWrites, StoreWrites, SequencePut, StoreFails
  <2>2. \A u \in Worker : step'[u] \in Minted =>
          step[u] \in Minted /\ view'[u] = view[u] /\ answer'[u] = answer[u]
    BY <1>0, <1>2 DEF Resume, Load, SequenceWrites, Writing, StoreWrites, SequencePut,
         StoreFails, Leave, Goto, Types, Minted
  <2> QED BY <1>1, <2>1, <2>2
<1>3. ASSUME NEW w \in Worker, Put(w) PROVE Valids
  <2>1. Stored' = Stored /\ values' = values
    BY <1>3 DEF Put, Stored
  <2>2. ASSUME NEW u \in Worker, step'[u] \in Minted PROVE Valid(State(u)')
    <3>1. CASE u = w
      <4>1. Valid(State(w)) /\ UNCHANGED << view, answer >>
        BY <1>0, <1>3, <2>2, <3>1 DEF Put, Leave, Goto, Types, Minted
      <4>2. State(u)' = State(w)
        BY <2>1, <3>1, <4>1 DEF State
      <4> QED BY <4>1, <4>2
    <3>2. CASE u # w
      <4>1. step[u] \in Minted /\ view'[u] = view[u] /\ answer'[u] = answer[u]
        BY <1>0, <1>3, <2>2, <3>2 DEF Put, Leave, Goto, Types
      <4>2. State(u)' = State(u)
        BY <2>1, <4>1 DEF State
      <4> QED BY <1>0, <4>1, <4>2
    <3> QED BY <3>1, <3>2
  <2> QED BY <1>0, <2>1, <2>2
<1>4. ASSUME NEW w \in Worker, StorePut(w) PROVE Valids
  <2>1. step[w] \in Minted /\ holds[w] \in CkptId \ Stored /\ gate[view[w].ckpt] + 1 # 0
    BY <1>0, <1>4 DEF StorePut, Types, Fresh, Minted
  <2>2. Stored' = Stored \cup {holds[w]} /\ values' = [values EXCEPT ![holds[w]] = State(w)]
    BY <1>0, <1>4, <2>1 DEF StorePut, Stored, Types
  <2>3. values'[holds[w]] = State(w) /\ \A c \in Stored : values'[c] = values[c]
    BY <1>0, <2>1, <2>2 DEF Types, Stored
  <2>4. ASSUME NEW u \in Worker, step'[u] \in Minted PROVE Valid(State(u)')
    <3>1. step[u] \in Minted /\ view'[u] = view[u] /\ answer'[u] = answer[u]
      BY <1>0, <1>4, <2>4 DEF StorePut, Leave, Goto, Types, Minted
    <3>2. State(u)' = State(u)
      BY <1>0, <2>3, <3>1 DEF State
    <3> QED BY <1>0, <3>1, <3>2
  <2> QED BY <1>0, <2>1, <2>2, <2>3, <2>4
<1>5. CASE Die
  BY <1>1, <1>5 DEF Die, Minted
<1> QED BY <1>2, <1>3, <1>4, <1>5 DEF SaverNext

-----------------------------------------------------------------------------
LEMMA SeenStep == ASSUME SaverBasics, SeenByIntent, SaverNext PROVE SeenByIntent'
<1> USE DEF disk, local, counts, core
<1> DEFINE Sees(u) == /\ view[u].seen \subseteq recorded[u]
                      /\ call[u].fork => view[u].seen = {}
                      /\ ~call[u].fork /\ recorded[u] # {} => view[u].seen # {}
<1> SUFFICES ASSUME kind = "remit", NEW u \in Worker, step'[u] \in Loaded PROVE Sees(u)'
  BY KindStep DEF SeenByIntent
<1>0. Types /\ Named /\ (step[u] \in Loaded => Sees(u))
  BY DEF SaverBasics, SeenByIntent
<1>1. ASSUME step[u] \in Loaded, view'[u] = view[u], call'[u] = call[u], recorded'[u] = recorded[u]
      PROVE  Sees(u)'
  BY <1>0, <1>1
<1>2. ASSUME NEW w \in Worker, Load(w) PROVE Sees(u)'
  <2>1. CASE u # w
    BY <1>0, <1>1, <1>2, <2>1 DEF Load, Leave, Goto, Types
  <2>2. CASE u = w
    <3> DEFINE c == IF call[w].ckpt = NoCkpt THEN Newest ELSE call[w].ckpt
               ws == writes[c]
    <3>1. ~Leave(w)
      BY <1>0, <2>2 DEF Leave, Goto, Types, Loaded
    <3>2. c \in CkptId /\ ws \in Seq(Rec)
      BY <1>0, NewestStored DEF Types, Stored
    <3>3. /\ view'[w].seen = First(get_tuple(call[w], ws))
          /\ recorded'[w] = Answers(ws) /\ call' = call
      BY <1>0, <1>2, <3>1 DEF Load, Types
    <3>4. step[w] = "load"
      BY <1>2 DEF Load
    <3> HIDE DEF c, ws
    <3>5. CASE call[w].fork
      <4>1. get_tuple(call[w], ws) = << >>
        BY <1>0, <3>4, <3>5 DEF get_tuple, _remit_address, Named
      <4>2. First(<< >>) = {}
        BY DEF First
      <4> QED BY <2>2, <3>3, <3>5, <4>1, <4>2
    <3>6. CASE ~call[w].fork
      <4>1. get_tuple(call[w], ws) = ws
        BY <1>0, <3>4, <3>6 DEF get_tuple, _remit_address, Named
      <4> QED BY <2>2, <3>2, <3>3, <3>6, <4>1, FirstOfAnswers
    <3> QED BY <3>5, <3>6
  <2> QED BY <2>1, <2>2
<1>3. ASSUME NEW w \in Worker,
             \/ \E flag \in BOOLEAN, c \in CkptId \cup {NoCkpt}, v \in Value : Resume(w, flag, c, v)
             \/ SequenceWrites(w) \/ StoreWrites(w) \/ Put(w) \/ SequencePut(w)
             \/ StorePut(w) \/ StoreFails(w)
      PROVE  Sees(u)'
  <2> DEFINE Keeps == /\ step[u] \in Loaded /\ view'[u] = view[u] /\ call'[u] = call[u]
                      /\ recorded'[u] = recorded[u]
  <2>1. Keeps
    <3>1. CASE \/ SequenceWrites(w) \/ StoreWrites(w) \/ SequencePut(w)
               \/ \E flag \in BOOLEAN, c \in CkptId \cup {NoCkpt}, v \in Value :
                    Resume(w, flag, c, v)
      BY <1>0, <3>1 DEF Resume, SequenceWrites, Writing, StoreWrites, SequencePut, Goto,
           Types, Loaded, Step
    <3>2. CASE Put(w) \/ StorePut(w) \/ StoreFails(w)
      BY <1>0, <3>2 DEF Put, StorePut, StoreFails, Leave, Goto, Types, Loaded, Step
    <3> QED BY <1>3, <3>1, <3>2
  <2> QED BY <1>1, <2>1
<1>4. CASE Die
  BY <1>4 DEF Die, Loaded
<1> QED BY <1>2, <1>3, <1>4 DEF SaverNext

\* Past the store of the caller's value a resume has its answer, and keeps it.
LEMMA ServedStep ==
  ASSUME SaverBasics, SeenByIntent, ServedByIntent, SaverNext PROVE ServedByIntent'
<1> USE DEF disk, local, counts, core
<1> DEFINE Past == {"task", "store_task", "put", "sequence", "store"}
           Right(u) == answer[u] \in IF call[u].fork \/ recorded[u] = {}
                                     THEN {call[u].val} ELSE recorded[u]
<1> SUFFICES ASSUME kind = "remit", NEW u \in Worker, step'[u] \in Past PROVE Right(u)'
  BY KindStep DEF ServedByIntent
<1>0. Types /\ (step[u] \in Past => Right(u))
  BY DEF SaverBasics, ServedByIntent
<1>1. ASSUME step[u] \in Past, answer'[u] = answer[u], call'[u] = call[u],
             recorded'[u] = recorded[u]
      PROVE  Right(u)'
  BY <1>0, <1>1
<1>2. ASSUME NEW w \in Worker, StoreWrites(w) PROVE Right(u)'
  <2>1. CASE u # w
    BY <1>0, <1>1, <1>2, <2>1 DEF StoreWrites, Goto, Types
  <2>2. CASE u = w
    <3>1. /\ answer'[w] = Served(w, TRUE) /\ call' = call /\ recorded' = recorded
          /\ step[w] \in Loaded
      BY <1>0, <1>2 DEF StoreWrites, Types, Loaded, Step
    <3>2. /\ view[w].seen \subseteq recorded[w]
          /\ call[w].fork => view[w].seen = {}
          /\ ~call[w].fork /\ recorded[w] # {} => view[w].seen # {}
      BY <3>1 DEF SeenByIntent
    <3>3. CASE view[w].seen = {}
      BY <2>2, <3>1, <3>2, <3>3 DEF Served
    <3>4. CASE view[w].seen # {}
      <4>1. (CHOOSE v \in view[w].seen : TRUE) \in view[w].seen
        BY <3>4
      <4> QED BY <2>2, <3>1, <3>2, <3>4, <4>1 DEF Served
    <3> QED BY <3>3, <3>4
  <2> QED BY <2>1, <2>2
<1>3. ASSUME NEW w \in Worker,
             \/ \E flag \in BOOLEAN, c \in CkptId \cup {NoCkpt}, v \in Value : Resume(w, flag, c, v)
             \/ Load(w) \/ SequenceWrites(w) \/ Put(w) \/ SequencePut(w)
             \/ StorePut(w) \/ StoreFails(w)
      PROVE  Right(u)'
  <2>1. step[u] \in Past /\ answer'[u] = answer[u] /\ call'[u] = call[u]
        /\ recorded'[u] = recorded[u]
    BY <1>0, <1>3 DEF Resume, Load, SequenceWrites, Writing, Put, SequencePut, StorePut,
         StoreFails, Leave, Goto, Types
  <2> QED BY <1>1, <2>1
<1>4. CASE Die
  BY <1>4 DEF Die
<1> QED BY <1>2, <1>3, <1>4 DEF SaverNext

-----------------------------------------------------------------------------
\* RemitSaverMixin gives every resume what it asked for: a fork its own value,
\* any other the first answer recorded where it loaded.  For any number of callers,
\* resumes, failures and restarts, under both settings of the flag.
THEOREM ServedByIntentHolds == SaverSpec => []ServedByIntent
<1>1. SaverInit => SaverBasics /\ SeenByIntent /\ ServedByIntent
  <2>1. SaverInit => SeenByIntent /\ ServedByIntent
    BY DEF SaverInit, SeenByIntent, ServedByIntent, Loaded
  <2> QED BY <2>1, BasicsInit
<1>2. SaverBasics /\ SeenByIntent /\ ServedByIntent /\ [SaverNext]_saverVars
        => (SaverBasics /\ SeenByIntent /\ ServedByIntent)'
  <2>1. ASSUME SaverBasics, SeenByIntent, ServedByIntent, SaverNext
        PROVE  (SeenByIntent /\ ServedByIntent)'
    BY <2>1, SeenStep, ServedStep
  <2>2. ASSUME SeenByIntent, ServedByIntent, UNCHANGED saverVars
        PROVE  (SeenByIntent /\ ServedByIntent)'
    BY <2>2 DEF saverVars, disk, local, counts, core, SeenByIntent, ServedByIntent
  <2> QED BY <2>1, <2>2, BasicsStep
<1> QED BY <1>1, <1>2, PTL DEF SaverSpec

\* What the store holds was validated and, by the process that is alive, sequenced
\* first; what that process sequenced as a put is stored unless the store failed or
\* is still at it.  For any number of callers, resumes, failures and restarts.
THEOREM JournalAccountsHolds == SaverSpec => []JournalAccounts
<1> DEFINE Inv == SaverBasics /\ Ledger /\ Validated
<1>1. SaverInit => Inv
  <2>1. ASSUME SaverInit PROVE Ledger /\ Validated
    <3>1. Stored = {1} /\ values[1] = << >> /\ Puts = {}
      BY <2>1, CkptNat DEF SaverInit, Stored, Puts, Range
    <3>2. Valid(<< >>)
      BY DEF Valid, Range
    <3> QED BY <2>1, <3>1, <3>2 DEF SaverInit, Ledger, Validated, Minted
  <2> QED BY <2>1, BasicsInit
<1>2. Inv /\ [SaverNext]_saverVars => Inv'
  <2>1. ASSUME Inv, SaverNext PROVE (Ledger /\ Validated)'
    BY <2>1, LedgerStep, ValidatedStep
  <2>2. ASSUME Ledger, Validated, UNCHANGED saverVars PROVE (Ledger /\ Validated)'
    BY <2>2 DEF saverVars, disk, local, counts, core, Ledger, Validated, Stored, Puts, Storing,
                State, Valid
  <2> QED BY <2>1, <2>2, BasicsStep
<1>3. Inv => JournalAccounts
  BY DEF Ledger, Validated, JournalAccounts, Puts, Storing
<1> QED BY <1>1, <1>2, <1>3, PTL DEF SaverSpec

-----------------------------------------------------------------------------
\* What the plane of these calls is asked for is what Plane assumes of its constants.
LEMMA CoreAssumption == Core!PlaneAssumption
  BY SaverAssumption DEF Core!PlaneAssumption

\* A sequenced operation ends the journal of the plane too.
LEMMA PlaneJournalAppend ==
  ASSUME Types, NEW op \in Op, NEW c \in Nat,
         journal' = Append(journal, [seq |-> next_seq, kind |-> op, ckpt |-> c])
  PROVE  PlaneJournal' = Append(PlaneJournal, [seq |-> next_seq, kind |-> op, ref |-> NoCkpt])
<1> DEFINE e == [seq |-> next_seq, kind |-> op, ckpt |-> c]
           E(m) == [seq |-> m.seq, kind |-> m.kind, ref |-> NoCkpt]
           n == Len(journal)
<1>1. /\ journal \in Seq(Entry) /\ e \in Entry /\ n \in Nat
      /\ E(e) = [seq |-> next_seq, kind |-> op, ref |-> NoCkpt]
  BY DEF Types, Entry
<1>2. PlaneJournal = [i \in 1 .. n |-> E(journal[i])]
  BY DEF PlaneJournal
<1>3. PlaneJournal' = [i \in 1 .. Len(journal') |-> E(journal'[i])]
  BY DEF PlaneJournal
<1>4. journal' = Append(journal, e)
  OBVIOUS
<1> HIDE DEF e, E
<1>5. /\ Len(journal') = n + 1 /\ journal'[n + 1] = e
      /\ \A i \in 1 .. n : journal'[i] = journal[i]
  BY <1>1, <1>4
<1> HIDE DEF n
<1>6. PlaneJournal \in Seq({E(journal[i]) : i \in 1 .. n}) /\ Len(PlaneJournal) = n
  <2> DEFINE S == {E(journal[i]) : i \in 1 .. n}
  <2>1. PlaneJournal \in [1 .. n -> S]
    BY <1>2
  <2> HIDE DEF S
  <2>2. PlaneJournal \in Seq(S) /\ Len(PlaneJournal) = n
    BY <1>1, <2>1
  <2> QED BY <2>2 DEF S
<1>7. Append(PlaneJournal, E(e)) =
        [i \in 1 .. n + 1 |-> IF i = n + 1 THEN E(e) ELSE PlaneJournal[i]]
  BY <1>1, <1>6
<1>8. PlaneJournal' = Append(PlaneJournal, E(e))
  BY <1>1, <1>2, <1>3, <1>5, <1>7
<1> QED BY <1>1, <1>8

\* What RemitSaverMixin asks of its core is a step of a plane.
LEMMA SequenceIsPlane ==
  ASSUME Types, NEW op \in Op, NEW c \in Nat, Sequence(op, c), kind = "remit"
  PROVE  Core!Next
<1>1. /\ next_seq < MaxSeq /\ next_seq' = next_seq + 1
      /\ journal' = Append(journal, [seq |-> next_seq, kind |-> op, ckpt |-> c])
  BY DEF Sequence
<1>2. Core!Journalled(op, NoCkpt)
  BY <1>1, PlaneJournalAppend DEF Core!Journalled
<1>3. CASE op = "Put"
  <2>1. Core!SequenceOp("Put", NoCkpt)
    BY <1>2, <1>3 DEF Core!SequenceOp, Core!effectVars, Core!ckptVars, Core!resumeVars
  <2> QED BY <2>1 DEF Core!Next
<1>4. CASE op = "PutWrites"
  <2>1. Core!SequenceOp("PutWrites", NoCkpt)
    BY <1>2, <1>4 DEF Core!SequenceOp, Core!effectVars, Core!ckptVars, Core!resumeVars
  <2> QED BY <2>1 DEF Core!Next
<1>5. CASE op = "ValidityRejected"
  <2>1. Core!ValidityGate(FALSE)
    BY <1>2, <1>5 DEF Core!ValidityGate, Core!RejectState, Core!effectVars, Core!ckptVars,
                      Core!resumeVars
  <2> QED BY <2>1 DEF Core!Next
<1> QED BY <1>3, <1>4, <1>5 DEF Op

LEMMA AcceptIsPlane == ASSUME Accept, kind = "remit" PROVE Core!Next
<1>1. Core!ValidityGate(TRUE)
  BY DEF Accept, Core!ValidityGate, Core!effectVars, Core!ckptVars, Core!resumeVars, PlaneJournal
<1> QED BY <1>1 DEF Core!Next

LEMMA CoreInit == journal = << >> /\ next_seq = 0 => Core!Init
<1> SUFFICES ASSUME journal = << >>, next_seq = 0 PROVE Core!Init
  OBVIOUS
<1>1. Core!BranchKey = {[checkpoint_id |-> NoCkpt, resume_index |-> 0]}
  BY DEF Core!BranchKey, Core!Root
<1>2. PlaneJournal = << >>
  BY DEF PlaneJournal
<1>3. << >> = [c \in {} |-> [recorded |-> << >>, consumed |-> FALSE]]
  OBVIOUS
<1> QED BY <1>1, <1>2, <1>3 DEF Core!Init

\* Between two restarts the core behind RemitSaverMixin takes only steps of a plane,
\* from a plane's initial state.  For any number of callers, resumes, rejections,
\* failures of the store and restarts.
THEOREM SaverUsesPlaneHolds == SaverSpec => SaverUsesPlane
<1> USE DEF core
<1> DEFINE A == Core!Next \/ (deaths' # deaths /\ (Core!Init)')
<1>1. SaverInit => Core!Init
  BY CoreInit DEF SaverInit
<1>2. ASSUME UNCHANGED core PROVE UNCHANGED Core!vars
  BY <1>2 DEF Core!vars, PlaneJournal
<1>3. ASSUME SaverBasics, NEW op \in Op, NEW c \in Nat, Sequence(op, c)
      PROVE  Core!Next \/ UNCHANGED core
  <2>1. CASE kind = "remit"
    BY <1>3, <2>1, SequenceIsPlane DEF SaverBasics
  <2>2. CASE kind # "remit"
    BY <1>3, <2>2 DEF Sequence
  <2> QED BY <2>1, <2>2
<1>4. ASSUME Accept PROVE Core!Next \/ UNCHANGED core
  <2>1. CASE kind = "remit"
    BY <1>4, <2>1, AcceptIsPlane
  <2>2. CASE kind # "remit"
    BY <1>4, <2>2 DEF Accept
  <2> QED BY <2>1, <2>2
<1>5. ASSUME SaverBasics, SaverNext PROVE A \/ UNCHANGED core
  <2>1. ASSUME NEW w \in Worker,
               \/ \E flag \in BOOLEAN, c \in CkptId \cup {NoCkpt}, v \in Value : Resume(w, flag, c, v)
               \/ Load(w) \/ StoreWrites(w) \/ StorePut(w) \/ StoreFails(w)
        PROVE  UNCHANGED core
    BY <2>1 DEF Resume, Load, StoreWrites, StorePut, StoreFails
  <2>2. ASSUME NEW w \in Worker, SequenceWrites(w) PROVE Core!Next \/ UNCHANGED core
    <3>1. view[w].ckpt \in Nat
      BY <1>5, CkptNat DEF SaverBasics, Types
    <3> QED BY <1>3, <1>5, <2>2, <3>1 DEF SequenceWrites, Op
  <2>3. ASSUME NEW w \in Worker, Put(w) PROVE Core!Next \/ UNCHANGED core
    <3>1. minted + 1 \in Nat
      BY <1>5 DEF SaverBasics, Types
    <3> QED BY <1>3, <1>4, <1>5, <2>3, <3>1 DEF Put, Op
  <2>4. ASSUME NEW w \in Worker, SequencePut(w) PROVE Core!Next \/ UNCHANGED core
    <3>1. holds[w] \in Nat
      BY <1>5 DEF SaverBasics, Types
    <3> QED BY <1>3, <1>5, <2>4, <3>1 DEF SequencePut, Op
  <2>5. CASE Die
    <3>1. deaths' # deaths
      BY <1>5, <2>5 DEF Die, SaverBasics, Types
    <3>2. (journal = << >> /\ next_seq = 0)'
      BY <2>5 DEF Die
    <3>3. (journal = << >> /\ next_seq = 0)' => (Core!Init)'
      BY CoreInit, PTL
    <3> QED BY <3>1, <3>2, <3>3
  <2> HIDE DEF A
  <2>6. CASE \E w \in Worker : SequenceWrites(w) \/ Put(w) \/ SequencePut(w)
    BY <2>2, <2>3, <2>4, <2>6 DEF A
  <2> QED BY <1>5, <2>1, <2>5, <2>6 DEF SaverNext
<1>6. SaverBasics /\ [SaverNext]_saverVars => [A]_(Core!vars)
  <2>1. UNCHANGED saverVars => UNCHANGED core
    BY DEF saverVars
  <2> HIDE DEF A
  <2> QED BY <1>2, <1>5, <2>1
<1> QED BY <1>1, <1>6, BasicsInit, BasicsStep, PTL DEF SaverSpec, SaverUsesPlane
=============================================================================
