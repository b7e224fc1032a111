--------------------------- MODULE ProbeRigProofs ---------------------------
(***************************************************************************)
(* What holds of the rig for any experiments that are put together as      *)
(* ExperimentAssumption says, any number of children, and any bounds.      *)
(***************************************************************************)
EXTENDS ProbeRig, FiniteSetTheorems, WellFoundedInduction, TLAPS

\* A process that is running is one the parent still has to close, and not one
\* it would leave behind at an await.
Pending(s, p) ==
  /\ \E j \in DOMAIN s : Closes(s[j], p)
  /\ \A j \in DOMAIN s : s[j][1] = "await" /\ p \notin s[j][2] =>
       \E m \in DOMAIN s : m < j /\ Closes(s[m], p)

Orderly ==
  outcome = "running" =>
    /\ Sequence(script) /\ Tidy(script)
    /\ \A p \in Child : Running(p) => Pending(script, p)
    /\ \A p \in Child, i \in DOMAIN script :
         script[i][1] = "spawn" /\ p \in script[i][2] => st[p] = "none"

\* There is one of everything for every child.
Shaped ==
  /\ st = [p \in Child |-> st[p]] /\ todo = [p \in Child |-> todo[p]]
  /\ queue = [p \in Child |-> queue[p]] /\ mine = [p \in Child |-> mine[p]]
  /\ result = [p \in Child |-> result[p]] /\ flag = [p \in Child |-> flag[p]]
  /\ stuck = [p \in Child |-> stuck[p]]

-----------------------------------------------------------------------------
(* Sequences.                                                              *)

LEMMA SequenceOf == ASSUME NEW S, NEW s \in Seq(S) PROVE Sequence(s)
<1>1. s \in [1 .. Len(s) -> Range(s)] /\ Len(s) \in Nat
  BY DEF Range
<1> QED BY <1>1 DEF Sequence

LEMMA SequenceDomain == ASSUME NEW s, Sequence(s) PROVE Len(s) \in Nat /\ DOMAIN s = 1 .. Len(s)
  BY DEF Sequence

LEMMA TailOf ==
  ASSUME NEW s, Sequence(s), s # << >>
  PROVE  /\ Sequence(Tail(s)) /\ 1 \in DOMAIN s /\ Head(s) = s[1]
         /\ Len(s) \in Nat \ {0} /\ Len(Tail(s)) = Len(s) - 1
         /\ DOMAIN s = 1 .. Len(s) /\ DOMAIN Tail(s) = 1 .. Len(s) - 1
         /\ \A i \in DOMAIN Tail(s) : Tail(s)[i] = s[i + 1]
<1>1. s \in Seq(Range(s)) /\ Tail(s) \in Seq(Range(s))
  BY DEF Sequence
<1>2. Sequence(Tail(s))
  BY <1>1, SequenceOf
<1> QED BY <1>1, <1>2

LEMMA Least ==
  ASSUME NEW T, T \subseteq Nat, T # {}
  PROVE  \E k \in T : \A j \in T : k <= j
<1>1. PICK k \in T : \A j \in T : << j, k >> \notin OpToRel(<, Nat)
  BY NatLessThanWellFounded, WFMin, Zenon
<1>2. ASSUME NEW j \in T PROVE k <= j
  <2>1. j \in Nat /\ k \in Nat
    OBVIOUS
  <2>2. ~ (j < k)
    BY <1>1, <2>1 DEF OpToRel
  <2> QED BY <2>1, <2>2
<1> QED BY <1>2

LEMMA FlattenExists ==
  ASSUME NEW ss, NEW N \in Nat
  PROVE  \E f : f = [i \in 1 .. N |-> IF i = 1 THEN ss[i] ELSE f[i - 1] \o ss[i]]
<1> DEFINE Good(n) == \E f : f = [i \in 1 .. n |-> IF i = 1 THEN ss[i] ELSE f[i - 1] \o ss[i]]
           Bad == {n \in Nat : ~Good(n)}
<1>1. Good(0)
  <2> DEFINE f == [i \in 1 .. 0 |-> 0]
  <2>1. f = [i \in 1 .. 0 |-> IF i = 1 THEN ss[i] ELSE f[i - 1] \o ss[i]]
    OBVIOUS
  <2> QED BY <2>1
<1>2. ASSUME NEW n \in Nat, Good(n) PROVE Good(n + 1)
  <2>1. PICK f : f = [i \in 1 .. n |-> IF i = 1 THEN ss[i] ELSE f[i - 1] \o ss[i]]
    BY <1>2
  <2> DEFINE g == [i \in 1 .. n + 1 |-> IF i = n + 1
                                         THEN (IF i = 1 THEN ss[i] ELSE f[i - 1] \o ss[i])
                                         ELSE f[i]]
  <2>2. ASSUME NEW i \in 1 .. n + 1
        PROVE  g[i] = IF i = 1 THEN ss[i] ELSE g[i - 1] \o ss[i]
    <3>1. CASE i = n + 1
      <4>1. i # 1 => i - 1 \in 1 .. n + 1 /\ i - 1 # n + 1
        BY <3>1
      <4>2. i # 1 => g[i - 1] = f[i - 1]
        BY <4>1
      <4> QED BY <3>1, <4>2
    <3>2. CASE i # n + 1
      <4>1. i \in 1 .. n /\ (i # 1 => i - 1 \in 1 .. n + 1 /\ i - 1 # n + 1)
        BY <3>2
      <4>2. g[i] = f[i] /\ (i # 1 => g[i - 1] = f[i - 1])
        BY <4>1
      <4>3. f[i] = IF i = 1 THEN ss[i] ELSE f[i - 1] \o ss[i]
        BY <2>1, <4>1
      <4> QED BY <4>2, <4>3
    <3> QED BY <3>1, <3>2
  <2>3. g = [i \in 1 .. n + 1 |-> g[i]]
    OBVIOUS
  <2> HIDE DEF g
  <2>4. g = [i \in 1 .. n + 1 |-> IF i = 1 THEN ss[i] ELSE g[i - 1] \o ss[i]]
    BY <2>2, <2>3
  <2> QED BY <2>4
<1> HIDE DEF Good
<1>3. Bad = {}
  <2> SUFFICES ASSUME Bad # {} PROVE FALSE
    OBVIOUS
  <2>1. PICK k \in Bad : \A j \in Bad : k <= j
    BY Least
  <2>2. k \in Nat /\ k # 0 /\ ~Good(k)
    BY <1>1
  <2>3. k - 1 \in Nat /\ Good(k - 1)
    BY <2>1, <2>2
  <2>4. Good(k - 1 + 1)
    BY <1>2, <2>3
  <2> QED BY <2>2, <2>4
<1> QED BY <1>3 DEF Good

LEMMA FlattenStep ==
  ASSUME NEW ss, Len(ss) \in Nat \ {0}
  PROVE  \E f : /\ FlattenSeq(ss) = f[Len(ss)]
                /\ \A i \in 1 .. Len(ss) : f[i] = IF i = 1 THEN ss[i] ELSE f[i - 1] \o ss[i]
<1> DEFINE f == CHOOSE g : g = [i \in 1 .. Len(ss) |-> IF i = 1 THEN ss[i] ELSE g[i - 1] \o ss[i]]
<1>1. f = [i \in 1 .. Len(ss) |-> IF i = 1 THEN ss[i] ELSE f[i - 1] \o ss[i]]
  BY FlattenExists
<1>2. FlattenSeq(ss) = f[Len(ss)]
  BY DEF FlattenSeq
<1> HIDE DEF f
<1>3. \A i \in 1 .. Len(ss) : f[i] = IF i = 1 THEN ss[i] ELSE f[i - 1] \o ss[i]
  BY <1>1
<1> QED BY <1>2, <1>3

LEMMA FlattenIn ==
  ASSUME NEW T, NEW ss, ss \in Seq(T), << >> \in T, \A a, b \in T : a \o b \in T
  PROVE  FlattenSeq(ss) \in T
<1>1. CASE Len(ss) = 0
  BY <1>1 DEF FlattenSeq
<1>2. CASE Len(ss) # 0
  <2>1. Len(ss) \in Nat \ {0} /\ \A i \in 1 .. Len(ss) : ss[i] \in T
    BY <1>2
  <2>2. PICK f : /\ FlattenSeq(ss) = f[Len(ss)]
                 /\ \A i \in 1 .. Len(ss) : f[i] = IF i = 1 THEN ss[i] ELSE f[i - 1] \o ss[i]
    BY <2>1, FlattenStep
  <2> DEFINE Bad == {i \in 1 .. Len(ss) : f[i] \notin T}
  <2>3. Bad = {}
    <3> SUFFICES ASSUME Bad # {} PROVE FALSE
      OBVIOUS
    <3>0. Bad \subseteq Nat
      OBVIOUS
    <3>1. PICK k \in Bad : \A j \in Bad : k <= j
      BY <3>0, Least, Zenon
    <3>2. k \in 1 .. Len(ss) /\ f[k] \notin T
      OBVIOUS
    <3>3. k # 1
      BY <2>1, <2>2, <3>2
    <3>4. k - 1 \in 1 .. Len(ss) /\ f[k - 1] \in T
      BY <2>1, <3>1, <3>2, <3>3
    <3> QED BY <2>1, <2>2, <3>2, <3>3, <3>4
  <2> QED BY <2>1, <2>2, <2>3
<1> QED BY <1>1, <1>2

LEMMA JoinOf ==
  ASSUME NEW a, NEW b, Sequence(a), Sequence(b)
  PROVE  /\ Sequence(a \o b) /\ Len(a) \in Nat /\ Len(b) \in Nat
         /\ DOMAIN a = 1 .. Len(a) /\ DOMAIN b = 1 .. Len(b)
         /\ DOMAIN (a \o b) = 1 .. Len(a) + Len(b)
         /\ \A i \in DOMAIN a : (a \o b)[i] = a[i]
         /\ \A i \in DOMAIN b : (a \o b)[Len(a) + i] = b[i]
<1> DEFINE S == Range(a) \cup Range(b)
<1>1. a \in Seq(S) /\ b \in Seq(S)
  <2>1. a \in Seq(Range(a)) /\ b \in Seq(Range(b)) /\ Range(a) \subseteq S /\ Range(b) \subseteq S
    BY DEF Sequence
  <2> QED BY <2>1
<1> HIDE DEF S
<1>2. a \o b \in Seq(S)
  BY <1>1
<1>3. Sequence(a \o b)
  BY <1>2, SequenceOf
<1> QED BY <1>1, <1>3

LEMMA JoinRange ==
  ASSUME NEW a, NEW b, Sequence(a), Sequence(b)
  PROVE  Range(a \o b) \subseteq Range(a) \cup Range(b)
<1> DEFINE t == a \o b
<1>1. /\ DOMAIN a = 1 .. Len(a) /\ DOMAIN b = 1 .. Len(b) /\ DOMAIN t = 1 .. Len(a) + Len(b)
      /\ Len(a) \in Nat /\ Len(b) \in Nat
      /\ \A j \in DOMAIN a : t[j] = a[j]
      /\ \A j \in DOMAIN b : t[Len(a) + j] = b[j]
  BY JoinOf
<1> HIDE DEF t
<1>2. ASSUME NEW i \in DOMAIN t PROVE t[i] \in Range(a) \cup Range(b)
  <2>1. CASE i \in DOMAIN a
    BY <1>1, <2>1 DEF Range
  <2>2. CASE i \notin DOMAIN a
    <3>1. i - Len(a) \in DOMAIN b /\ Len(a) + (i - Len(a)) = i
      BY <1>1, <2>2
    <3>2. t[i] = b[i - Len(a)]
      BY <1>1, <3>1
    <3> QED BY <3>1, <3>2 DEF Range
  <2> QED BY <2>1, <2>2
<1> QED BY <1>2 DEF Range, t

LEMMA DropOf ==
  ASSUME NEW s, Sequence(s), NEW r \in 0 .. Len(s)
  PROVE  /\ Sequence(SubSeq(s, r + 1, Len(s)))
         /\ DOMAIN SubSeq(s, r + 1, Len(s)) = 1 .. Len(s) - r
         /\ \A i \in 1 .. Len(s) - r : SubSeq(s, r + 1, Len(s))[i] = s[r + i]
<1> DEFINE t == SubSeq(s, r + 1, Len(s))
<1>1. s \in Seq(Range(s)) /\ Len(s) \in Nat /\ DOMAIN s = 1 .. Len(s)
  BY DEF Sequence
<1>2. t = [i \in 1 .. Len(s) - r |-> s[r + i]]
  BY <1>1
<1>3. \A i \in 1 .. Len(s) - r : s[r + i] \in Range(s)
  BY <1>1 DEF Range
<1> HIDE DEF t
<1>4. t \in [1 .. Len(s) - r -> Range(s)] /\ Len(s) - r \in Nat
  BY <1>1, <1>2, <1>3
<1>5. t \in Seq(Range(s))
  BY <1>4
<1> QED BY <1>2, <1>5, SequenceOf DEF t

\* Where the invoke that is going on ends.
LEMMA EndAt ==
  ASSUME NEW s, Sequence(s)
  PROVE  \E r \in 0 .. Len(s) :
           /\ r = InvokeEnd(s)
           /\ r # 0 => s[r] = Returned
           /\ \A m \in DOMAIN s : m < r \/ r = 0 => s[m] # Returned
<1> DEFINE I == {i \in 1 .. Len(s) : s[i] = Returned}
           r == InvokeEnd(s)
<1>1. Len(s) \in Nat /\ DOMAIN s = 1 .. Len(s) /\ I \subseteq Nat
  BY SequenceDomain
<1>2. r = IF I # {} THEN Min(I) ELSE 0
  BY DEF InvokeEnd, SelectInSeq
<1>3. CASE I = {}
  BY <1>1, <1>2, <1>3
<1>4. CASE I # {}
  <2>1. \E k \in I : \A j \in I : k <= j
    BY <1>1, <1>4, Least
  <2>2. Min(I) \in I /\ \A j \in I : Min(I) <= j
    BY <2>1 DEF Min
  <2> HIDE DEF r
  <2>3. r \in I /\ \A j \in I : r <= j
    BY <1>2, <1>4, <2>2
  <2>4. r # 0 /\ \A m \in DOMAIN s : m < r => s[m] # Returned
    BY <1>1, <2>3
  <2>5. r \in 0 .. Len(s) /\ s[r] = Returned
    BY <1>1, <2>3
  <2> QED BY <2>4, <2>5 DEF r
<1> QED BY <1>3, <1>4

-----------------------------------------------------------------------------
(* The script.                                                             *)

LEMMA TidyTail == ASSUME NEW s, Sequence(s), s # << >>, Tidy(s) PROVE Tidy(Tail(s))
<1> DEFINE t == Tail(s)
<1>1. /\ DOMAIN s = 1 .. Len(s) /\ DOMAIN t = 1 .. Len(s) - 1 /\ Len(s) \in Nat
      /\ \A i \in DOMAIN t : t[i] = s[i + 1]
  BY TailOf
<1> HIDE DEF t
<1> SUFFICES ASSUME NEW i \in DOMAIN t, t[i][1] = "spawn", NEW p \in t[i][2]
             PROVE  /\ \A j \in DOMAIN t : t[j][1] = "spawn" /\ p \in t[j][2] => i = j
                    /\ \E j \in DOMAIN t : i < j /\ Closes(t[j], p)
                    /\ \A j \in DOMAIN t :
                         i < j /\ t[j][1] = "await" /\ p \notin t[j][2] =>
                           \E m \in DOMAIN t : i < m /\ m < j /\ Closes(t[m], p)
  BY DEF Tidy, t
<1>2. /\ i + 1 \in DOMAIN s /\ s[i + 1] = t[i]
      /\ \A j \in DOMAIN t : j + 1 \in DOMAIN s /\ t[j] = s[j + 1]
  BY <1>1
<1>3. \A j \in DOMAIN s : j > 1 => j - 1 \in DOMAIN t /\ s[j] = t[j - 1]
  BY <1>1
<1>4. ASSUME NEW j \in DOMAIN t, t[j][1] = "spawn", p \in t[j][2] PROVE i = j
  BY <1>1, <1>2, <1>4 DEF Tidy
<1>5. \E j \in DOMAIN t : i < j /\ Closes(t[j], p)
  <2>1. PICK j \in DOMAIN s : i + 1 < j /\ Closes(s[j], p)
    BY <1>2 DEF Tidy
  <2>2. j - 1 \in DOMAIN t /\ i < j - 1 /\ t[j - 1] = s[j]
    BY <1>1, <1>3, <2>1
  <2> QED BY <2>1, <2>2
<1>6. ASSUME NEW j \in DOMAIN t, i < j, t[j][1] = "await", p \notin t[j][2]
      PROVE  \E m \in DOMAIN t : i < m /\ m < j /\ Closes(t[m], p)
  <2>1. j + 1 \in DOMAIN s /\ s[j + 1] = t[j] /\ i + 1 < j + 1
    BY <1>1, <1>2, <1>6
  <2>2. PICK m \in DOMAIN s : i + 1 < m /\ m < j + 1 /\ Closes(s[m], p)
    BY <1>2, <1>6, <2>1 DEF Tidy
  <2>3. m - 1 \in DOMAIN t /\ i < m - 1 /\ m - 1 < j /\ t[m - 1] = s[m]
    BY <1>1, <1>3, <2>2
  <2> QED BY <2>2, <2>3
<1> QED BY <1>4, <1>5, <1>6

LEMMA PendingTail ==
  ASSUME NEW s, Sequence(s), s # << >>, NEW p, Pending(s, p), ~Closes(s[1], p)
  PROVE  Pending(Tail(s), p)
<1> DEFINE t == Tail(s)
<1>1. /\ DOMAIN s = 1 .. Len(s) /\ DOMAIN t = 1 .. Len(s) - 1 /\ Len(s) \in Nat
      /\ \A i \in DOMAIN t : t[i] = s[i + 1]
  BY TailOf
<1> HIDE DEF t
<1>2. \A j \in DOMAIN s : Closes(s[j], p) => j - 1 \in DOMAIN t /\ Closes(t[j - 1], p)
  BY <1>1
<1>3. \E j \in DOMAIN t : Closes(t[j], p)
  BY <1>2 DEF Pending
<1>4. ASSUME NEW j \in DOMAIN t, t[j][1] = "await", p \notin t[j][2]
      PROVE  \E m \in DOMAIN t : m < j /\ Closes(t[m], p)
  <2>1. j + 1 \in DOMAIN s /\ s[j + 1] = t[j]
    BY <1>1
  <2>2. PICK m \in DOMAIN s : m < j + 1 /\ Closes(s[m], p)
    BY <1>4, <2>1 DEF Pending
  <2>3. m - 1 \in DOMAIN t /\ Closes(t[m - 1], p) /\ m - 1 < j
    BY <1>1, <1>2, <2>2
  <2> QED BY <2>3
<1> QED BY <1>3, <1>4 DEF Pending, t

\* A child that has just been started.
LEMMA PendingSpawned ==
  ASSUME NEW s, Sequence(s), s # << >>, Tidy(s), s[1][1] = "spawn", NEW p \in s[1][2]
  PROVE  Pending(Tail(s), p)
<1> DEFINE t == Tail(s)
<1>1. /\ DOMAIN s = 1 .. Len(s) /\ DOMAIN t = 1 .. Len(s) - 1 /\ Len(s) \in Nat
      /\ 1 \in DOMAIN s
      /\ \A i \in DOMAIN t : t[i] = s[i + 1]
  BY TailOf
<1> HIDE DEF t
<1>2. \A j \in DOMAIN s : 1 < j => j - 1 \in DOMAIN t /\ t[j - 1] = s[j]
  BY <1>1
<1>3. \E j \in DOMAIN t : Closes(t[j], p)
  BY <1>1, <1>2 DEF Tidy
<1>4. ASSUME NEW j \in DOMAIN t, t[j][1] = "await", p \notin t[j][2]
      PROVE  \E m \in DOMAIN t : m < j /\ Closes(t[m], p)
  <2>1. j + 1 \in DOMAIN s /\ s[j + 1] = t[j] /\ 1 < j + 1
    BY <1>1
  <2>2. PICK m \in DOMAIN s : 1 < m /\ m < j + 1 /\ Closes(s[m], p)
    BY <1>1, <1>4, <2>1 DEF Tidy
  <2>3. m - 1 \in DOMAIN t /\ Closes(t[m - 1], p) /\ m - 1 < j
    BY <1>1, <1>2, <2>2
  <2> QED BY <2>3
<1> QED BY <1>3, <1>4 DEF Pending, t

-----------------------------------------------------------------------------
(* What a step of a child or of the parent may change.                     *)

Same(p) == UNCHANGED << st[p], todo[p], queue[p], mine[p], result[p], flag[p], stuck[p] >>

Stops(p) == st'[p] # "running" /\ todo'[p] = << >> /\ queue'[p] = << >>

Started(p) ==
  /\ Does("spawn") /\ p \in Whom /\ st'[p] = "running" /\ todo'[p] = cell.lives[p]
  /\ UNCHANGED << queue[p] >>

\* The steps of a child, by what they do to its own variables.
Steps(p) ==
  \/ _invoke(p) \/ TakeEffect(p) \/ OpenFlag(p) \/ ParkHere(p) \/ SeeStart(p)
  \/ CrashHere(p) \/ Receive(p) \/ Continue(p) \/ Join(p)

Ends(p) == Ask(p) \/ Busy(p) \/ Fail(p) \/ InvokeReturns(p)

Goes(p) == _die(p) \/ Exit(p) \/ Broken(p)

LEMMA ChildCases ==
  ASSUME NEW p, ChildStep(p) \/ Busy(p) \/ Broken(p)
  PROVE  \/ Steps(p) \/ Ends(p) \/ Goes(p) \/ FillFlag(p) \/ Write(p)
         \/ Enqueue(p) \/ Flush(p) \/ ParkInSaver(p) \/ claim(p)
  BY DEF ChildStep, Steps, Ends, Goes

LEMMA ChildFrame ==
  ASSUME Shaped, NEW p \in Child, ChildStep(p) \/ Busy(p) \/ Broken(p)
  PROVE  /\ Followed(p) /\ UNCHANGED << cell, parent >>
         /\ Shaped'
         /\ st'[p] = "running" \/ (Stops(p) /\ st'[p] \in {"exited", "failed", "killed"})
         /\ \A q \in Child \ {p} : Same(q)
<1> USE DEF Shaped, Same, child, engine, files
<1>1. CASE Steps(p)
  <2>1. Followed(p) /\ UNCHANGED << cell, parent, st, queue, mine, stuck, result >>
    BY <1>1 DEF Steps, _invoke, TakeEffect, OpenFlag, ParkHere, SeeStart, CrashHere, Receive,
                Continue, Join, At
  <2>2. PICK x : todo' = [todo EXCEPT ![p] = x]
    BY <1>1 DEF Steps, _invoke, TakeEffect, OpenFlag, ParkHere, SeeStart, CrashHere, Receive,
                Continue, Join, Then
  <2>3. flag' = flag \/ flag' = [flag EXCEPT ![p] = "empty"]
    BY <1>1 DEF Steps, _invoke, TakeEffect, OpenFlag, ParkHere, SeeStart, CrashHere, Receive,
                Continue, Join
  <2> QED BY <2>1, <2>2, <2>3 DEF Followed, Running, Child
<1>2. CASE Ends(p)
  <2>1. Followed(p) /\ UNCHANGED << cell, parent, st, queue, mine, stuck, flag >>
    BY <1>2 DEF Ends, Ask, Busy, Fail, InvokeReturns, At
  <2>2. PICK x, y : todo' = [todo EXCEPT ![p] = x] /\ result' = [result EXCEPT ![p] = y]
    BY <1>2 DEF Ends, Ask, Busy, Fail, InvokeReturns, EndInvoke
  <2> QED BY <2>1, <2>2 DEF Followed, Running, Child
<1>3. CASE Goes(p)
  <2>1. Followed(p) /\ UNCHANGED << cell, parent, mine, stuck, flag, result >>
    BY <1>3 DEF Goes, _die, Exit, Broken, At
  <2>2. PICK x \in {"exited", "failed", "killed"} : Gone(p, x)
    BY <1>3 DEF Goes, _die, Exit, Broken
  <2> QED BY <2>1, <2>2 DEF Followed, Child, Gone, Stops
<1>4. CASE FillFlag(p)
  BY <1>4 DEF FillFlag, Followed, Running, Child
<1>5. CASE Write(p)
  <2>1. Followed(p) /\ UNCHANGED << cell, parent, mine, stuck, flag, result >>
    BY <1>5 DEF Write, At
  <2>2. CASE Gone(p, "killed")
    BY <2>1, <2>2 DEF Followed, Child, Gone, Stops
  <2>3. CASE Then(p, << >>) /\ UNCHANGED << st, queue >>
    BY <2>1, <2>3 DEF Followed, Running, Child, Then
  <2> QED BY <1>5, <2>2, <2>3 DEF Write
<1>6. CASE Enqueue(p)
  BY <1>6 DEF Enqueue, At, Then, Followed, Running, Child
<1>7. CASE Flush(p)
  <2>1. Followed(p) /\ UNCHANGED << cell, parent, child >>
    BY <1>7 DEF Flush
  <2>2. PICK x, y : mine' = [mine EXCEPT ![p] = x] /\ queue' = [queue EXCEPT ![p] = y]
    BY <1>7 DEF Flush
  <2>3. /\ flag' = flag \/ flag' = [flag EXCEPT ![p] = "empty"]
        /\ stuck' = stuck \/ stuck' = [stuck EXCEPT ![p] = TRUE]
    BY <1>7 DEF Flush
  <2> QED BY <2>1, <2>2, <2>3 DEF Followed, Running, Child
<1>8. CASE ParkInSaver(p)
  BY <1>8 DEF ParkInSaver, Followed, Running, Child
<1>9. CASE claim(p)
  <2>1. Followed(p) /\ UNCHANGED << cell, parent, st, queue, mine, stuck, flag >>
    BY <1>9 DEF claim, At
  <2>2. PICK x : todo' = [todo EXCEPT ![p] = x]
    BY <1>9 DEF claim, Then, EndInvoke
  <2>3. result' = result \/ \E y : result' = [result EXCEPT ![p] = y]
    BY <1>9 DEF claim, Then, EndInvoke
  <2> QED BY <2>1, <2>2, <2>3 DEF Followed, Running, Child
<1> QED BY <1>1, <1>2, <1>3, <1>4, <1>5, <1>6, <1>7, <1>8, <1>9, ChildCases

LEMMA GiveUpFrame ==
  ASSUME Shaped, NEW how, NEW ps, GiveUp(how, ps), UNCHANGED << cell, result, mine, stuck, flag >>,
         \A p \in Child : ~Running(p) => todo[p] = << >> /\ queue[p] = << >>
  PROVE  /\ outcome' = how /\ Shaped'
         /\ \A p \in Child \ ps : Same(p)
         /\ \A p \in ps \cap Child :
              Stops(p) /\ ((Running(p) /\ st'[p] = "killed") \/ UNCHANGED st[p])
<1> USE DEF Shaped, Same, Running, Child
<1>1. /\ outcome' = how
      /\ st' = [p \in Child |-> IF p \in ps /\ Running(p) THEN "killed" ELSE st[p]]
      /\ todo' = [p \in Child |-> IF p \in ps THEN << >> ELSE todo[p]]
      /\ queue' = [p \in Child |-> IF p \in ps THEN << >> ELSE queue[p]]
  BY DEF GiveUp
<1>2. Shaped'
  BY <1>1
<1> QED BY <1>1, <1>2 DEF Stops

\* A child that is not running has nothing left to do.
Idle == \A p \in Child : ~Running(p) => todo[p] = << >> /\ queue[p] = << >>

\* The steps of the parent that only go on in the script.
Pops ==
  \/ SeeFlags \/ ReadLedger \/ SendMessage \/ SeeDone \/ CopyStore \/ MarkCrashed
  \/ StartRacers

Quits == Deadline \/ EarlyExit

LEMMA ParentCases ==
  ASSUME ParentStep
  PROVE  \/ _spawn \/ Pops \/ Quits \/ ReadFlag \/ SeeRowStep \/ KillVictim \/ Collected
         \/ Timeout \/ WriteReceipt
  BY DEF ParentStep, Pops, Quits

LEMMA ParentFrame ==
  ASSUME Shaped, Idle, ParentStep
  PROVE  /\ outcome = "running"
         /\ UNCHANGED << cell, result, mine, stuck, claims, ledger, flag, busy >>
         /\ Shaped'
         /\ \A p \in Child :
              \/ Same(p)
              \/ Stops(p) /\ ((Running(p) /\ st'[p] = "killed") \/ UNCHANGED st[p])
              \/ Started(p)
<1> USE DEF Shaped, Same, child, engine, files, Does
<1>0. \A p \in Child : ~Running(p) => todo[p] = << >> /\ queue[p] = << >>
  BY DEF Idle
<1>1. CASE _spawn
  BY <1>1 DEF _spawn, Child, Started
<1>2. CASE Pops
  BY <1>2 DEF Pops, SeeFlags, ReadLedger, SendMessage, SeeDone, CopyStore, MarkCrashed,
              StartRacers, Child
<1>3. CASE Quits
  <2>1. /\ outcome = "running"
        /\ UNCHANGED << cell, result, mine, stuck, claims, ledger, flag, busy >>
    BY <1>3 DEF Quits, Deadline, EarlyExit
  <2>2. PICK how, ps : GiveUp(how, ps)
    BY <1>3 DEF Quits, Deadline, EarlyExit
  <2> QED BY <1>0, <2>1, <2>2, GiveUpFrame
<1>4. CASE ReadFlag \/ SeeRowStep
  <2>1. /\ outcome = "running"
        /\ UNCHANGED << cell, result, mine, stuck, claims, ledger, flag, busy >>
    BY <1>4 DEF ReadFlag, SeeRowStep
  <2>2. CASE GiveUp("crashed", {})
    BY <1>0, <2>1, <2>2, GiveUpFrame
  <2>3. CASE UNCHANGED << st, todo, queue >>
    BY <2>1, <2>3 DEF Child
  <2> QED BY <1>4, <2>2, <2>3 DEF ReadFlag, SeeRowStep
<1>5. CASE KillVictim
  <2>1. /\ outcome = "running"
        /\ UNCHANGED << cell, result, mine, stuck, claims, ledger, flag, busy >>
    BY <1>5 DEF KillVictim
  <2>2. CASE Running(Whom) /\ Gone(Whom, "killed")
    BY <2>1, <2>2 DEF Gone, Running, Stops, Child
  <2>3. CASE UNCHANGED << st, todo, queue >>
    BY <2>1, <2>3 DEF Child
  <2> QED BY <1>5, <2>2, <2>3 DEF KillVictim
<1>6. CASE Collected
  BY <1>6 DEF Collected, Child
<1>7. CASE Timeout
  <2>1. /\ outcome = "running"
        /\ UNCHANGED << cell, result, mine, stuck, claims, ledger, flag, busy >>
    BY <1>7 DEF Timeout
  <2>2. ASSUME NEW p, Running(p), Gone(p, "killed")
        PROVE  /\ Shaped'
               /\ \A q \in Child : Same(q) \/ (Stops(q) /\ Running(q) /\ st'[q] = "killed")
    BY <2>1, <2>2 DEF Gone, Running, Stops, Child
  <2>3. ASSUME NEW ps, GiveUp("crashed", ps)
        PROVE  /\ Shaped'
               /\ \A p \in Child :
                    Same(p) \/ (Stops(p) /\ ((Running(p) /\ st'[p] = "killed") \/ UNCHANGED st[p]))
    BY <1>0, <2>1, <2>3, GiveUpFrame
  <2> QED BY <1>7, <2>1, <2>2, <2>3 DEF Timeout
<1>8. CASE WriteReceipt
  BY <1>8 DEF WriteReceipt, Child
<1> QED BY <1>1, <1>2, <1>3, <1>4, <1>5, <1>6, <1>7, <1>8, ParentCases

-----------------------------------------------------------------------------
(* Types.                                                                  *)

TypeInv == Shaped /\ RigTypeOK /\ cell \in Experiments

LEMMA TypeIdle == TypeInv => Idle
  BY DEF TypeInv, RigTypeOK, Idle, Running

LEMMA TypeInit == RigInit => TypeInv
<1> SUFFICES ASSUME RigInit PROVE TypeInv
  OBVIOUS
<1>1. Shaped
  BY DEF RigInit, Shaped, Child
<1>2. /\ st \in [Child -> {"none", "running", "exited", "failed", "killed"}]
      /\ result \in [Child -> {"none", "done", "rejected", "error"}]
      /\ flag \in [Child -> {"absent", "empty", "full"}]
      /\ claims \in [Child -> {0} \cup Child]
  BY DEF RigInit, Child
<1>3. \A p \in Child : st[p] # "running" => todo[p] = << >> /\ queue[p] = << >>
  BY DEF RigInit, Child
<1>4. busy \in 0 .. MaxBusy
  BY RigAssumption DEF RigInit
<1>5. /\ go \in BOOLEAN /\ crashed \in BOOLEAN /\ late \in BOOLEAN /\ torn \in BOOLEAN
      /\ outcome = "running" /\ cell \in Experiments
  BY DEF RigInit
<1> QED BY <1>1, <1>2, <1>3, <1>4, <1>5 DEF TypeInv, RigTypeOK

LEMMA TypeStep == ASSUME TypeInv, [RigNext]_rigVars PROVE TypeInv'
<1>0. Shaped /\ RigTypeOK /\ Idle /\ cell \in Experiments
  BY TypeIdle DEF TypeInv
<1> USE DEF child, engine, files
<1>1. ASSUME NEW p \in Child, ChildStep(p) \/ Busy(p) \/ Broken(p) PROVE TypeInv'
  <2>1. /\ UNCHANGED << cell, outcome, late, torn, Child >> /\ Shaped'
        /\ Followed(p)
        /\ st'[p] = "running" \/ (Stops(p) /\ st'[p] \in {"exited", "failed", "killed"})
        /\ \A q \in Child \ {p} : Same(q)
    BY <1>0, <1>1, ChildFrame DEF Child, parent
  <2>2. /\ st' \in [Child -> {"none", "running", "exited", "failed", "killed"}]
        /\ \A q \in Child : st'[q] # "running" => todo'[q] = << >> /\ queue'[q] = << >>
    BY <1>0, <2>1 DEF RigTypeOK, Shaped, Same, Stops
  <2>3. result' \in [Child -> {"none", "done", "rejected", "error"}]
    BY <1>0, <1>1, ChildCases
       DEF RigTypeOK, Steps, Ends, Goes, _invoke, TakeEffect, OpenFlag, ParkHere, SeeStart,
           CrashHere, Receive, Continue, Join, Ask, Busy, Fail, InvokeReturns, _die, Exit,
           Broken, FillFlag, Write, Enqueue, Flush, ParkInSaver, claim, EndInvoke
  <2>4. flag' \in [Child -> {"absent", "empty", "full"}]
    BY <1>0, <1>1, ChildCases
       DEF RigTypeOK, Steps, Ends, Goes, _invoke, TakeEffect, OpenFlag, ParkHere, SeeStart,
           CrashHere, Receive, Continue, Join, Ask, Busy, Fail, InvokeReturns, _die, Exit,
           Broken, FillFlag, Write, Enqueue, Flush, ParkInSaver, claim
  <2>5. claims' \in [Child -> {0} \cup Child]
    <3>1. claims' = claims \/ claims' = [claims EXCEPT ![Thread(p)] = p]
      BY <1>1, ChildCases
         DEF Steps, Ends, Goes, _invoke, TakeEffect, OpenFlag, ParkHere, SeeStart,
             CrashHere, Receive, Continue, Join, Ask, Busy, Fail, InvokeReturns, _die, Exit,
             Broken, FillFlag, Write, Enqueue, Flush, ParkInSaver, claim
    <3>2. claims \in [Child -> {0} \cup Child]
      BY <1>0 DEF RigTypeOK
    <3> QED BY <3>1, <3>2
  <2>6. go' \in BOOLEAN /\ crashed' \in BOOLEAN
    BY <1>0, <1>1, ChildCases
       DEF RigTypeOK, Steps, Ends, Goes, _invoke, TakeEffect, OpenFlag, ParkHere, SeeStart,
           CrashHere, Receive, Continue, Join, Ask, Busy, Fail, InvokeReturns, _die, Exit,
           Broken, FillFlag, Write, Enqueue, Flush, ParkInSaver, claim
  <2>7. busy' \in 0 .. MaxBusy
    <3>1. busy' = busy \/ (busy < MaxBusy /\ busy' = busy + 1)
      BY <1>1, ChildCases
         DEF Steps, Ends, Goes, _invoke, TakeEffect, OpenFlag, ParkHere, SeeStart,
             CrashHere, Receive, Continue, Join, Ask, Busy, Fail, InvokeReturns, _die, Exit,
             Broken, FillFlag, Write, Enqueue, Flush, ParkInSaver, claim
    <3> QED BY <1>0, <3>1, RigAssumption DEF RigTypeOK
  <2> QED BY <1>0, <2>1, <2>2, <2>3, <2>4, <2>5, <2>6, <2>7 DEF TypeInv, RigTypeOK
<1>2. CASE ParentStep
  <2>1. /\ UNCHANGED << cell, result, claims, flag, busy, Child >> /\ Shaped'
        /\ \A p \in Child : Same(p) \/ Started(p) \/
             (Stops(p) /\ ((Running(p) /\ st'[p] = "killed") \/ UNCHANGED st[p]))
    BY <1>0, <1>2, ParentFrame DEF Child
  <2>2. /\ st' \in [Child -> {"none", "running", "exited", "failed", "killed"}]
        /\ \A p \in Child : st'[p] # "running" => todo'[p] = << >> /\ queue'[p] = << >>
    BY <1>0, <2>1 DEF RigTypeOK, Shaped, Same, Stops, Started
  <2>3. /\ outcome' \in {"running", "receipt", "refused", "crashed"}
        /\ {go', crashed', late', torn'} \subseteq BOOLEAN
    BY <1>0, <1>2, ParentCases
       DEF RigTypeOK, _spawn, Pops, Quits, SeeFlags, ReadLedger, SendMessage, SeeDone, CopyStore,
           MarkCrashed, StartRacers, Deadline, EarlyExit, ReadFlag, SeeRowStep, KillVictim,
           Collected, Timeout, WriteReceipt, GiveUp
  <2> QED BY <1>0, <2>1, <2>2, <2>3 DEF TypeInv, RigTypeOK
<1>3. CASE UNCHANGED rigVars
  BY <1>0, <1>3 DEF rigVars, parent, TypeInv, Shaped, RigTypeOK, Child
<1> QED BY <1>1, <1>2, <1>3 DEF RigNext

\* The types of the rig: in particular a child that is not running has nothing
\* left to do and nothing left to write.
THEOREM RigTypeCorrect == RigSpec => []RigTypeOK
<1>1. TypeInv => RigTypeOK
  BY DEF TypeInv
<1> QED BY <1>1, TypeInit, TypeStep, PTL DEF RigSpec

-----------------------------------------------------------------------------
(* Nobody is left behind.                                                  *)

\* The parent goes on, and whoever is still running it has yet to close.
LEMMA OrderlyPop ==
  ASSUME Orderly, outcome = "running", script # << >>, script' = Tail(script), cell' = cell,
         \A p \in Child : Running(p)' => Running(p) /\ ~Closes(script[1], p),
         \A p \in Child : st[p] = "none" => st'[p] = "none"
  PROVE  Orderly'
<1>1. Sequence(script) /\ Tidy(script)
  BY DEF Orderly
<1>2. Sequence(script') /\ Tidy(script')
  BY <1>1, TailOf, TidyTail
<1>3. ASSUME NEW p \in Child, Running(p)' PROVE Pending(script', p)
  BY <1>1, <1>3, PendingTail DEF Orderly
<1>4. ASSUME NEW p \in Child, NEW i \in DOMAIN script', script'[i][1] = "spawn",
             p \in script'[i][2]
      PROVE  st'[p] = "none"
  <2>1. i + 1 \in DOMAIN script /\ script[i + 1] = script'[i]
    BY <1>1, TailOf
  <2> QED BY <1>4, <2>1 DEF Orderly
<1> QED BY <1>2, <1>3, <1>4 DEF Orderly, Child

LEMMA OrderlySpawn ==
  ASSUME Orderly, _spawn PROVE Orderly'
<1>1. /\ outcome = "running" /\ script # << >> /\ script' = Tail(script) /\ cell' = cell
      /\ Sequence(script) /\ Tidy(script) /\ Head(script) = script[1] /\ 1 \in DOMAIN script
      /\ script[1][1] = "spawn" /\ Whom = script[1][2]
      /\ st' = [p \in Child |-> IF p \in Whom THEN "running" ELSE st[p]]
  BY TailOf DEF _spawn, Does, Orderly, Whom
<1>2. Sequence(script') /\ Tidy(script')
  BY <1>1, TailOf, TidyTail
<1>3. ASSUME NEW p \in Child, Running(p)' PROVE Pending(script', p)
  <2>1. CASE p \in Whom
    BY <1>1, <2>1, PendingSpawned
  <2>2. CASE p \notin Whom
    <3>1. Running(p) /\ ~Closes(script[1], p)
      BY <1>1, <1>3, <2>2 DEF Running, Closes
    <3> QED BY <1>1, <3>1, PendingTail DEF Orderly
  <2> QED BY <2>1, <2>2
<1>4. ASSUME NEW p \in Child, NEW i \in DOMAIN script', script'[i][1] = "spawn",
             p \in script'[i][2]
      PROVE  st'[p] = "none"
  <2>1. i + 1 \in DOMAIN script /\ script[i + 1] = script'[i] /\ i + 1 # 1
    BY <1>1, TailOf
  <2>2. p \notin script[1][2]
    BY <1>1, <1>4, <2>1 DEF Tidy
  <2> QED BY <1>1, <1>4, <2>1, <2>2 DEF Orderly
<1> QED BY <1>1, <1>2, <1>3, <1>4 DEF Orderly, Child

LEMMA OrderlyStep ==
  ASSUME TypeInv, Orderly, NobodyLeft, [RigNext]_rigVars PROVE Orderly' /\ NobodyLeft'
<1>0. Shaped /\ Idle
  BY TypeIdle DEF TypeInv
<1> USE DEF child, engine, files
<1>1. ASSUME NEW p \in Child, ChildStep(p) \/ Busy(p) \/ Broken(p)
      PROVE  Orderly' /\ NobodyLeft'
  <2>1. /\ UNCHANGED << cell, outcome, script, Child >>
        /\ st[p] = "running" /\ outcome = "running"
        /\ \A q \in Child \ {p} : st'[q] = st[q]
    BY <1>0, <1>1, ChildFrame DEF Child, parent, Followed, Running, Same
  <2> QED BY <2>1 DEF Orderly, NobodyLeft, Running
<1>2. ASSUME outcome' = "crashed" PROVE Orderly' /\ NobodyLeft'
  BY <1>2 DEF Orderly, NobodyLeft
<1>3. ASSUME Orderly', outcome' = "running" PROVE Orderly' /\ NobodyLeft'
  BY <1>3 DEF NobodyLeft
<1>4. ASSUME Orderly, outcome = "running", script # << >> PROVE Head(script) = script[1]
  BY <1>4, TailOf DEF Orderly
<1>5. CASE _spawn
  BY <1>3, <1>5, OrderlySpawn DEF _spawn, Does
<1>6. CASE Pops
  <2>1. /\ outcome = "running" /\ outcome' = "running" /\ script # << >>
        /\ script' = Tail(script) /\ cell' = cell /\ st' = st
        /\ Head(script)[1] \in {"await", "count", "send", "done", "copy", "mark", "start"}
    BY <1>6 DEF Pops, SeeFlags, ReadLedger, SendMessage, SeeDone, CopyStore, MarkCrashed,
                StartRacers, Does
  <2> QED BY <1>3, <1>4, <2>1, OrderlyPop DEF Running, Closes
<1>7. CASE Quits
  <2>1. /\ outcome = "running" /\ script # << >> /\ script[1][1] = "await" /\ Whom = script[1][2]
        /\ cell' = cell /\ 1 \in DOMAIN script
    BY <1>7, <1>4, TailOf DEF Quits, Deadline, EarlyExit, Does, Whom, Orderly
  <2>2. ASSUME NEW p \in Child, Running(p) PROVE p \in Whom
    <3>1. Pending(script, p) /\ Sequence(script)
      BY <2>1, <2>2 DEF Orderly
    <3>2. DOMAIN script \subseteq Nat \ {0}
      BY <3>1 DEF Sequence
    <3>3. \A m \in DOMAIN script : ~(m < 1)
      BY <3>2
    <3> QED BY <2>1, <3>1, <3>3 DEF Pending
  <2>3. CASE Deadline
    <3>1. outcome' = "crashed" \/ (outcome' \in {"receipt", "refused"} /\ GiveUp(outcome', Whom))
      BY <2>3 DEF Deadline, GiveUp
    <3>2. ASSUME GiveUp(outcome', Whom) PROVE \A p \in Child : st'[p] # "running"
      BY <2>2, <3>2 DEF GiveUp, Running
    <3> QED BY <1>2, <2>1, <3>1, <3>2 DEF Orderly, NobodyLeft, Running, Child
  <2>4. CASE EarlyExit
    <3>1. \A p \in Child : ~Running(p)
      BY <2>2, <2>4 DEF EarlyExit
    <3>2. outcome' # "running" /\ \A p \in Child : st'[p] # "running"
      BY <2>4, <3>1 DEF EarlyExit, GiveUp, Running
    <3> QED BY <2>1, <3>2 DEF Orderly, NobodyLeft, Running, Child
  <2> QED BY <1>7, <2>3, <2>4 DEF Quits
<1>8. CASE ReadFlag \/ SeeRowStep
  <2>1. CASE outcome' = "crashed"
    BY <1>2, <2>1
  <2>2. CASE outcome' # "crashed"
    <3>1. /\ outcome = "running" /\ outcome' = "running" /\ script # << >>
          /\ script' = Tail(script) /\ cell' = cell /\ st' = st
          /\ Head(script)[1] \in {"peek", "see_row"}
      BY <1>8, <2>2 DEF ReadFlag, SeeRowStep, GiveUp, Does
    <3> QED BY <1>3, <1>4, <3>1, OrderlyPop DEF Running, Closes
  <2> QED BY <2>1, <2>2
<1>9. CASE KillVictim
  <2>1. /\ outcome = "running" /\ outcome' = "running" /\ script # << >>
        /\ script' = Tail(script) /\ cell' = cell
        /\ Head(script)[1] = "kill" /\ Whom = Head(script)[2]
        /\ IF Running(Whom) THEN Gone(Whom, "killed") ELSE st' = st
    BY <1>9 DEF KillVictim, Does, Whom
  <2>2. \A p \in Child : Running(p)' => Running(p) /\ p # Whom
    BY <1>0, <2>1 DEF Running, Gone, Shaped
  <2>3. \A p \in Child : st[p] = "none" => st'[p] = "none"
    BY <1>0, <2>1 DEF Running, Gone, Shaped
  <2> QED BY <1>3, <1>4, <2>1, <2>2, <2>3, OrderlyPop DEF Closes
<1>10. CASE Collected
  <2>1. CASE outcome' = "crashed"
    BY <1>2, <2>1
  <2>2. CASE outcome' # "crashed"
    <3>1. /\ outcome = "running" /\ outcome' = "running" /\ script # << >>
          /\ script' = Tail(script) /\ cell' = cell /\ st' = st
          /\ Head(script)[1] = "reap" /\ Whom = Head(script)[2]
          /\ \A p \in Whom : ~Running(p)
      BY <1>10, <2>2 DEF Collected, Does, Whom
    <3> QED BY <1>3, <1>4, <3>1, OrderlyPop DEF Running, Closes
  <2> QED BY <2>1, <2>2
<1>11. CASE Timeout
  <2>1. CASE outcome' = "crashed"
    BY <1>2, <2>1
  <2>2. CASE outcome' # "crashed"
    <3>1. /\ outcome = "running" /\ outcome' = "running" /\ script' = script /\ cell' = cell
          /\ \E p : Running(p) /\ Gone(p, "killed")
      BY <1>11, <2>2 DEF Timeout, GiveUp, Does
    <3>2. \A p \in Child : (Running(p)' => Running(p)) /\ (st[p] = "none" => st'[p] = "none")
      BY <1>0, <3>1 DEF Running, Gone, Shaped
    <3>3. Orderly'
      BY <3>1, <3>2 DEF Orderly, Child, Running
    <3> QED BY <1>3, <3>1, <3>3
  <2> QED BY <2>1, <2>2
<1>12. CASE WriteReceipt
  <2>1. outcome = "running" /\ outcome' = "receipt" /\ script = << >> /\ UNCHANGED << cell, st >>
    BY <1>12 DEF WriteReceipt
  <2>2. \A p \in Child : ~Running(p)
    BY <2>1 DEF Orderly, Pending
  <2> QED BY <2>1, <2>2 DEF Orderly, NobodyLeft, Running, Child
<1>13. CASE UNCHANGED rigVars
  BY <1>13 DEF rigVars, parent, Orderly, NobodyLeft, Running, Child
<1> QED BY <1>1, <1>5, <1>6, <1>7, <1>8, <1>9, <1>10, <1>11, <1>12, <1>13, ParentCases
        DEF RigNext

LEMMA OrderlyInit == RigInit => Orderly /\ NobodyLeft
  BY ExperimentAssumption DEF RigInit, Programs, Orderly, NobodyLeft, Running, Child

\* A parent that writes a receipt or refuses leaves no child behind that could
\* still write, in any experiment whose script closes what it starts.
THEOREM NobodyLeftHolds == RigSpec => []NobodyLeft
<1>1. RigInit => TypeInv /\ Orderly /\ NobodyLeft
  BY TypeInit, OrderlyInit
<1>2. TypeInv /\ Orderly /\ NobodyLeft /\ [RigNext]_rigVars => (TypeInv /\ Orderly /\ NobodyLeft)'
  BY TypeStep, OrderlyStep
<1> QED BY <1>1, <1>2, PTL DEF RigSpec

-----------------------------------------------------------------------------
(* The gate.                                                               *)

\* A step that fires the parked interrupt or stores an answer, and one that
\* decides whether what follows it in an invoke happens.
Acts(step) ==
  \/ step[1] = "effect" /\ step[2] \in AnswerTask
  \/ step[1] = "submit" /\ step[2] = << "resume" >>

Asks(step) == step[1] \in {"claim", "interrupt"}

Sealed(s) ==
  \A j \in DOMAIN s : Acts(s[j]) =>
    \E i \in DOMAIN s :
      i < j /\ Asks(s[i]) /\ \A m \in DOMAIN s : i < m /\ m < j => s[m] # Returned

\* A child has one turn: the invoke it makes, or the claim in it.
Turn(step) == step[1] \in {"invoke", "claim"}

OneTurn(s) == \A i, j \in DOMAIN s : Turn(s[i]) /\ Turn(s[j]) => i = j

\* A claim is within an invoke.
Within(s) ==
  \A i \in DOMAIN s : s[i][1] = "claim" => \E m \in DOMAIN s : i < m /\ s[m] = Returned

NoFork(s) == \A i \in DOMAIN s : s[i][1] = "invoke" => s[i][2] \notin {"fork:True", "fork:False"}

TurnsLeft(s) == \E i \in DOMAIN s : Turn(s[i])

ChildGated(p) ==
  /\ Sequence(todo[p]) /\ OneTurn(todo[p]) /\ Within(todo[p]) /\ NoFork(todo[p])
  /\ Sequence(queue[p]) /\ Sequence(mine[p])
  /\ claims[Thread(p)] = p \/ Sealed(todo[p])
  /\ TurnsLeft(todo[p]) => claims[Thread(p)] # p /\ result[p] # "rejected"
  /\ result[p] = "rejected" => claims[Thread(p)] # p
  /\ st[p] = "none" => claims[Thread(p)] # p /\ result[p] = "none"
  /\ << "resume" >> \in Range(mine[p]) \cup Range(queue[p]) => claims[Thread(p)] = p

RowsClaimed ==
  \A r \in ledger : r[2] \in AnswerTask =>
    r[3] \in Child /\ r[1] = Thread(r[3]) /\ claims[r[1]] = r[3]

GateInv == cell.gated => RowsClaimed /\ \A p \in Child : ChildGated(p)

\* The shape of what a child of a gated cell still has to do.
Well(s) == Sequence(s) /\ OneTurn(s) /\ Within(s) /\ NoFork(s)

LEMMA TailWell ==
  ASSUME NEW s, Well(s), s # << >>
  PROVE  /\ Well(Tail(s))
         /\ Sealed(s) /\ ~Asks(s[1]) => Sealed(Tail(s))
         /\ TurnsLeft(Tail(s)) => TurnsLeft(s) /\ ~Turn(s[1])
<1> DEFINE t == Tail(s)
<1>1. /\ Sequence(t) /\ 1 \in DOMAIN s /\ Len(s) \in Nat
      /\ DOMAIN s = 1 .. Len(s) /\ DOMAIN t = 1 .. Len(s) - 1
      /\ \A i \in DOMAIN t : t[i] = s[i + 1]
  BY TailOf DEF Well
<1> HIDE DEF t
<1>2. \A i \in DOMAIN t : i + 1 \in DOMAIN s /\ t[i] = s[i + 1] /\ i + 1 # 1
  BY <1>1
<1>3. \A i \in DOMAIN s : i > 1 => i - 1 \in DOMAIN t /\ s[i] = t[i - 1] /\ i - 1 + 1 = i
  BY <1>1
<1>4. OneTurn(t) /\ NoFork(t)
  BY <1>1, <1>2 DEF Well, OneTurn, NoFork
<1>5. Within(t)
  <2> SUFFICES ASSUME NEW i \in DOMAIN t, t[i][1] = "claim"
               PROVE  \E m \in DOMAIN t : i < m /\ t[m] = Returned
    BY DEF Within
  <2>1. PICK m \in DOMAIN s : i + 1 < m /\ s[m] = Returned
    BY <1>2 DEF Well, Within
  <2>2. m - 1 \in DOMAIN t /\ i < m - 1 /\ t[m - 1] = Returned
    BY <1>1, <1>3, <2>1
  <2> QED BY <2>2
<1>6. ASSUME Sealed(s), ~Asks(s[1]) PROVE Sealed(t)
  <2> SUFFICES ASSUME NEW j \in DOMAIN t, Acts(t[j])
               PROVE  \E i \in DOMAIN t :
                        i < j /\ Asks(t[i]) /\ \A m \in DOMAIN t : i < m /\ m < j => t[m] # Returned
    BY DEF Sealed
  <2>1. PICK i \in DOMAIN s :
          i < j + 1 /\ Asks(s[i]) /\ \A m \in DOMAIN s : i < m /\ m < j + 1 => s[m] # Returned
    BY <1>2, <1>6 DEF Sealed
  <2>2. i # 1 /\ i - 1 \in DOMAIN t /\ t[i - 1] = s[i] /\ i - 1 < j
    BY <1>1, <1>3, <1>6, <2>1
  <2>3. ASSUME NEW m \in DOMAIN t, i - 1 < m, m < j PROVE t[m] # Returned
    BY <1>1, <1>2, <2>1, <2>3
  <2> QED BY <2>1, <2>2, <2>3
<1>7. ASSUME TurnsLeft(t) PROVE TurnsLeft(s) /\ ~Turn(s[1])
  BY <1>1, <1>2, <1>7 DEF TurnsLeft, Well, OneTurn
<1> QED BY <1>1, <1>4, <1>5, <1>6, <1>7 DEF Well, t

LEMMA JoinSealed ==
  ASSUME NEW a, NEW b, Sequence(a), Sequence(b), Sealed(a), Sealed(b)
  PROVE  Sealed(a \o b)
<1> DEFINE t == a \o b
<1>1. /\ Len(a) \in Nat /\ Len(b) \in Nat
      /\ DOMAIN a = 1 .. Len(a) /\ DOMAIN b = 1 .. Len(b) /\ DOMAIN t = 1 .. Len(a) + Len(b)
      /\ \A i \in DOMAIN a : t[i] = a[i]
      /\ \A i \in DOMAIN b : t[Len(a) + i] = b[i]
  BY JoinOf
<1> HIDE DEF t
<1> SUFFICES ASSUME NEW j \in DOMAIN t, Acts(t[j])
             PROVE  \E i \in DOMAIN t :
                      i < j /\ Asks(t[i]) /\ \A m \in DOMAIN t : i < m /\ m < j => t[m] # Returned
  BY DEF Sealed, t
<1>2. CASE j \in DOMAIN a
  <2>1. PICK i \in DOMAIN a :
          i < j /\ Asks(a[i]) /\ \A m \in DOMAIN a : i < m /\ m < j => a[m] # Returned
    BY <1>1, <1>2 DEF Sealed
  <2>2. \A m \in DOMAIN t : m < j => m \in DOMAIN a
    BY <1>1, <1>2
  <2> QED BY <1>1, <2>1, <2>2
<1>3. CASE j \notin DOMAIN a
  <2> DEFINE k == j - Len(a)
  <2>1. k \in DOMAIN b /\ t[j] = b[k] /\ k + Len(a) = j
    <3>1. k \in DOMAIN b /\ Len(a) + k = j
      BY <1>1, <1>3
    <3> QED BY <1>1, <3>1
  <2>2. PICK i \in DOMAIN b :
          i < k /\ Asks(b[i]) /\ \A m \in DOMAIN b : i < m /\ m < k => b[m] # Returned
    BY <2>1 DEF Sealed
  <2>3. Len(a) + i \in DOMAIN t /\ Len(a) + i < j /\ t[Len(a) + i] = b[i]
    BY <1>1, <2>1, <2>2
  <2>4. ASSUME NEW m \in DOMAIN t, Len(a) + i < m, m < j PROVE t[m] # Returned
    <3>1. m - Len(a) \in DOMAIN b /\ i < m - Len(a) /\ m - Len(a) < k /\ Len(a) + (m - Len(a)) = m
      BY <1>1, <2>1, <2>2, <2>4
    <3>2. t[m] = b[m - Len(a)]
      BY <1>1, <3>1
    <3> QED BY <2>2, <3>1, <3>2
  <2> QED BY <2>2, <2>3, <2>4
<1> QED BY <1>2, <1>3

LEMMA JoinWell ==
  ASSUME NEW a, NEW b, Well(a), Well(b), ~TurnsLeft(a) \/ ~TurnsLeft(b)
  PROVE  Well(a \o b) /\ (TurnsLeft(a \o b) => TurnsLeft(a) \/ TurnsLeft(b))
<1> DEFINE t == a \o b
<1>0. Sequence(a) /\ Sequence(b)
  BY DEF Well
<1>1. /\ Sequence(t) /\ Len(a) \in Nat /\ Len(b) \in Nat
      /\ DOMAIN a = 1 .. Len(a) /\ DOMAIN b = 1 .. Len(b) /\ DOMAIN t = 1 .. Len(a) + Len(b)
      /\ \A i \in DOMAIN a : t[i] = a[i]
      /\ \A i \in DOMAIN b : t[Len(a) + i] = b[i]
  BY <1>0, JoinOf
<1> HIDE DEF t
<1>2. \A j \in DOMAIN t : j \in DOMAIN a \/ (j - Len(a) \in DOMAIN b /\ j = Len(a) + (j - Len(a)))
  BY <1>1
<1>3. \A j \in DOMAIN t : (j \in DOMAIN a /\ t[j] = a[j])
                          \/ (j - Len(a) \in DOMAIN b /\ t[j] = b[j - Len(a)])
  BY <1>1, <1>2
<1>4. OneTurn(t)
  <2> SUFFICES ASSUME NEW i \in DOMAIN t, NEW j \in DOMAIN t, Turn(t[i]), Turn(t[j]) PROVE i = j
    BY DEF OneTurn
  <2>1. CASE ~TurnsLeft(a)
    <3>1. /\ i - Len(a) \in DOMAIN b /\ Turn(b[i - Len(a)])
          /\ j - Len(a) \in DOMAIN b /\ Turn(b[j - Len(a)])
      BY <1>3, <2>1 DEF TurnsLeft
    <3>2. i - Len(a) = j - Len(a)
      BY <3>1 DEF Well, OneTurn
    <3> QED BY <1>1, <3>2
  <2>2. CASE ~TurnsLeft(b)
    BY <1>3, <2>2 DEF TurnsLeft, Well, OneTurn
  <2> QED BY <2>1, <2>2
<1>5. NoFork(t)
  BY <1>3 DEF Well, NoFork
<1>6. Within(t)
  <2> SUFFICES ASSUME NEW i \in DOMAIN t, t[i][1] = "claim"
               PROVE  \E m \in DOMAIN t : i < m /\ t[m] = Returned
    BY DEF Within
  <2>1. CASE i \in DOMAIN a
    <3>1. PICK m \in DOMAIN a : i < m /\ a[m] = Returned
      BY <1>1, <2>1 DEF Well, Within
    <3>2. m \in DOMAIN t /\ t[m] = a[m]
      BY <1>1
    <3> QED BY <3>1, <3>2
  <2>2. CASE i \notin DOMAIN a
    <3>1. i - Len(a) \in DOMAIN b /\ t[i] = b[i - Len(a)]
      BY <1>3, <2>2
    <3>2. PICK m \in DOMAIN b : i - Len(a) < m /\ b[m] = Returned
      BY <3>1 DEF Well, Within
    <3>3. Len(a) + m \in DOMAIN t /\ i < Len(a) + m /\ t[Len(a) + m] = Returned
      BY <1>1, <3>2
    <3> QED BY <3>3
  <2> QED BY <2>1, <2>2
<1>7. TurnsLeft(t) => TurnsLeft(a) \/ TurnsLeft(b)
  BY <1>3 DEF TurnsLeft
<1> QED BY <1>1, <1>4, <1>5, <1>6, <1>7 DEF Well, t

LEMMA DropWell ==
  ASSUME NEW s, Well(s), s # << >>
  PROVE  LET t == SubSeq(s, InvokeEnd(s) + 1, Len(s))
         IN  /\ Well(t)
             /\ Sealed(s) => Sealed(t)
             /\ TurnsLeft(t) => TurnsLeft(s)
             /\ s[1][1] = "claim" => ~TurnsLeft(t)
<1>1. PICK r \in 0 .. Len(s) :
        /\ r = InvokeEnd(s)
        /\ r # 0 => s[r] = Returned
        /\ \A m \in DOMAIN s : m < r \/ r = 0 => s[m] # Returned
  BY EndAt DEF Well
<1> DEFINE t == SubSeq(s, r + 1, Len(s))
<1>2. /\ Sequence(t) /\ DOMAIN t = 1 .. Len(s) - r /\ Len(s) \in Nat /\ DOMAIN s = 1 .. Len(s)
      /\ \A i \in DOMAIN t : t[i] = s[r + i]
  BY DropOf, SequenceDomain DEF Well
<1>3. 1 \in DOMAIN s
  BY TailOf DEF Well
<1> HIDE DEF t
<1>4. \A i \in DOMAIN t : r + i \in DOMAIN s /\ t[i] = s[r + i]
  BY <1>2
<1>5. \A i \in DOMAIN s : r < i => i - r \in DOMAIN t /\ s[i] = t[i - r]
  <2> SUFFICES ASSUME NEW i \in DOMAIN s, r < i PROVE i - r \in DOMAIN t /\ s[i] = t[i - r]
    OBVIOUS
  <2>1. i - r \in DOMAIN t /\ r + (i - r) = i
    BY <1>2
  <2> QED BY <1>2, <2>1
<1>6. OneTurn(t) /\ NoFork(t)
  BY <1>2, <1>4 DEF Well, OneTurn, NoFork
<1>7. Within(t)
  <2> SUFFICES ASSUME NEW i \in DOMAIN t, t[i][1] = "claim"
               PROVE  \E m \in DOMAIN t : i < m /\ t[m] = Returned
    BY DEF Within
  <2>1. PICK m \in DOMAIN s : r + i < m /\ s[m] = Returned
    BY <1>4 DEF Well, Within
  <2>2. m - r \in DOMAIN t /\ i < m - r /\ t[m - r] = Returned
    BY <1>2, <1>5, <2>1
  <2> QED BY <2>2
<1>8. ASSUME Sealed(s) PROVE Sealed(t)
  <2> SUFFICES ASSUME NEW j \in DOMAIN t, Acts(t[j])
               PROVE  \E i \in DOMAIN t :
                        i < j /\ Asks(t[i]) /\ \A m \in DOMAIN t : i < m /\ m < j => t[m] # Returned
    BY DEF Sealed
  <2>1. PICK i \in DOMAIN s :
          i < r + j /\ Asks(s[i]) /\ \A m \in DOMAIN s : i < m /\ m < r + j => s[m] # Returned
    BY <1>4, <1>8 DEF Sealed
  <2>2. r < i
    <3>1. CASE r = 0
      BY <1>2, <3>1
    <3>2. CASE r # 0
      <4>1. r \in DOMAIN s /\ s[r] = Returned /\ r < r + j
        BY <1>1, <1>2, <3>2
      <4>2. ~(i < r)
        BY <2>1, <4>1
      <4>3. i # r
        BY <2>1, <4>1 DEF Asks, Returned
      <4> QED BY <1>2, <4>2, <4>3
    <3> QED BY <3>1, <3>2
  <2>3. i - r \in DOMAIN t /\ t[i - r] = s[i] /\ i - r < j
    BY <1>2, <1>5, <2>1, <2>2
  <2>4. ASSUME NEW m \in DOMAIN t, i - r < m, m < j PROVE t[m] # Returned
    BY <1>2, <1>4, <2>1, <2>4
  <2> QED BY <2>1, <2>3, <2>4
<1>9. TurnsLeft(t) => TurnsLeft(s)
  BY <1>4 DEF TurnsLeft
<1>10. ASSUME s[1][1] = "claim", TurnsLeft(t) PROVE FALSE
  <2>1. PICK m \in DOMAIN s : s[m] = Returned
    BY <1>3, <1>10 DEF Well, Within
  <2>2. r # 0
    BY <1>1, <2>1
  <2>3. PICK i \in DOMAIN t : Turn(t[i])
    BY <1>10 DEF TurnsLeft
  <2>4. r + i \in DOMAIN s /\ Turn(s[r + i]) /\ r + i # 1 /\ Turn(s[1])
    BY <1>2, <1>4, <1>10, <2>2, <2>3 DEF Turn
  <2> QED BY <1>3, <2>4 DEF Well, OneTurn
<1> QED BY <1>1, <1>2, <1>6, <1>7, <1>8, <1>9, <1>10 DEF Well, t

\* The steps of the nodes of a gated child, as its engine runs them.
NodeStep(nodes) ==
  {Resumed} \cup (UNION {Range(nodes[n]) : n \in DOMAIN nodes})
    \cup {Op(<< "write", n >>) : n \in Nat} \cup {Op(<< "put", n >>) : n \in Nat}

NextNodeType == \A nodes, d : Len(nodes) \in Nat => NextNode(nodes, d) \in Nat \ {0}

LEMMA NextNodeIs == NextNodeType
<1> SUFFICES ASSUME NEW nodes, NEW d, Len(nodes) \in Nat
             PROVE  NextNode(nodes, d) \in Nat \ {0}
  BY DEF NextNodeType
<1> DEFINE S == {n \in 1 .. Len(nodes) : Has(d, << "write", n >>)}
<1>1. IsFiniteSet(1 .. Len(nodes)) /\ S \subseteq 1 .. Len(nodes)
  BY FS_Interval
<1>2. Cardinality(S) \in Nat
  BY <1>1, FS_Subset, FS_CardinalityType
<1> HIDE DEF S
<1>3. NextNode(nodes, d) = Cardinality(S) + 1
  BY DEF NextNode, S
<1> QED BY <1>2, <1>3

\* With the gate every plan has its answer behind a claim or an interrupt.
LEMMA GatedPlan ==
  ASSUME cell \in Experiments, cell.gated, NEW p \in Child,
         NEW how, how \notin {"fork:True", "fork:False"}
  PROVE  Well(Plan(p, how)) /\ Sealed(Plan(p, how))
<1> DEFINE nodes == cell.nodes[p]
           S == NodeStep(nodes)
           T == {s \in Seq(S) : Sealed(s)}
           d == durable[Thread(p)]
<1>1. /\ OneAnswer(cell) /\ Programs(cell)
      /\ Sequence(nodes) /\ \A n \in DOMAIN nodes : Sequence(nodes[n])
      /\ Len(nodes) \in Nat /\ DOMAIN nodes = 1 .. Len(nodes)
  BY ExperimentAssumption, SequenceDomain DEF Programs, Child
<1>2. ASSUME NEW x \in S
      PROVE  /\ ~Turn(x) /\ x # Returned /\ x[1] # "claim" /\ x[1] # "invoke"
             /\ x[1] \in {"resumed", "effect", "interrupt", "op"}
  <2>1. CASE x = Resumed
    BY <2>1 DEF Resumed, Returned, Turn
  <2>2. CASE x \in {Op(<< "write", n >>) : n \in Nat} \cup {Op(<< "put", n >>) : n \in Nat}
    BY <2>2 DEF Op, Returned, Turn
  <2>3. CASE \E n \in DOMAIN nodes : x \in Range(nodes[n])
    <3>1. PICK n \in DOMAIN nodes : \E j \in DOMAIN nodes[n] : x = nodes[n][j]
      BY <2>3 DEF Range
    <3>2. x[1] \in {"effect", "interrupt"}
      BY <1>1, <3>1 DEF OneAnswer, Child
    <3> QED BY <3>2 DEF Returned, Turn
  <2> QED BY <2>1, <2>2, <2>3 DEF NodeStep
<1> HIDE DEF S
<1>3. << >> \in T /\ \A a, b \in T : a \o b \in T
  <2>1. << >> \in T
    BY DEF Sealed
  <2>2. ASSUME NEW a \in T, NEW b \in T PROVE a \o b \in T
    BY SequenceOf, JoinSealed
  <2> QED BY <2>1, <2>2
<1>4. ASSUME NEW n \in DOMAIN nodes PROVE nodes[n] \o << Op(<< "write", n >>), Op(<< "put", n >>) >> \in T
  <2>1. nodes[n] \in Seq(S)
    <3>1. nodes[n] \in Seq(Range(nodes[n])) /\ Range(nodes[n]) \subseteq S
      BY <1>1 DEF Sequence, S, NodeStep
    <3> QED BY <3>1
  <2>2. Sealed(nodes[n])
    <3> SUFFICES ASSUME NEW j \in DOMAIN nodes[n], Acts(nodes[n][j])
                 PROVE  \E i \in DOMAIN nodes[n] :
                          /\ i < j /\ Asks(nodes[n][i])
                          /\ \A m \in DOMAIN nodes[n] : i < m /\ m < j => nodes[n][m] # Returned
      BY DEF Sealed
    <3>1. nodes[n][j][1] = "effect" /\ nodes[n][j][2] \in AnswerTask
      BY <1>1 DEF OneAnswer, Child, Acts
    <3>2. PICK i \in DOMAIN nodes[n] : i < j /\ nodes[n][i] = Interrupt
      BY <1>1, <3>1 DEF OneAnswer, Child
    <3>3. \A m \in DOMAIN nodes[n] : nodes[n][m] # Returned
      BY <1>1 DEF OneAnswer, Child, Returned
    <3> QED BY <3>2, <3>3 DEF Asks, Interrupt
  <2> DEFINE b == << Op(<< "write", n >>), Op(<< "put", n >>) >>
  <2>3. Op(<< "write", n >>) \in S /\ Op(<< "put", n >>) \in S
    BY <1>1 DEF S, NodeStep
  <2>4. b \in Seq(S)
    BY <2>3
  <2>5. Sealed(b)
    <3>1. b[1][1] = "op" /\ b[2][1] = "op" /\ DOMAIN b = {1, 2}
      BY DEF Op
    <3> HIDE DEF b
    <3> QED BY <3>1 DEF Sealed, Acts
  <2> HIDE DEF b
  <2>6. nodes[n] \o b \in T
    BY <1>3, <2>1, <2>2, <2>4, <2>5
  <2> QED BY <2>6 DEF b
<1>5. ASSUME NEW i \in Nat \ {0} PROVE GraphNodes(nodes, i) \in T
  <2> DEFINE ss == [n \in 1 .. Len(nodes) - i + 1 |->
                      nodes[n + i - 1] \o << Op(<< "write", n + i - 1 >>), Op(<< "put", n + i - 1 >>) >>]
             K == Len(nodes) - i + 1
  <2>1. \A n \in 1 .. K : n + i - 1 \in DOMAIN nodes
    BY <1>1
  <2>2. \A n \in 1 .. K :
          nodes[n + i - 1] \o << Op(<< "write", n + i - 1 >>), Op(<< "put", n + i - 1 >>) >> \in T
    BY <1>4, <2>1
  <2> HIDE DEF T
  <2>3. ss \in [1 .. K -> T]
    BY <2>2
  <2> HIDE DEF ss
  <2>4. ss \in Seq(T)
    <3>1. CASE K \in Nat
      BY <2>3, <3>1
    <3>2. CASE K \notin Nat
      <4>1. 1 .. K = 1 .. 0
        BY <1>1, <3>2
      <4> QED BY <2>3, <4>1
    <3> QED BY <3>1, <3>2
  <2>5. FlattenSeq(ss) \in T
    BY <1>3, <2>4, FlattenIn
  <2> QED BY <2>5 DEF GraphNodes, Walk, ss
<1>6. ASSUME NEW s, Sequence(s), \A i \in DOMAIN s : ~Turn(s[i]) PROVE Well(s)
  BY <1>6 DEF Well, OneTurn, Within, NoFork, Turn
<1>7. << Returned >> \in Seq({Returned}) /\ Well(<< Returned >>) /\ Sealed(<< Returned >>)
  <2> DEFINE r == << Returned >>
  <2>1. r \in Seq({Returned}) /\ r[1] = << "returned" >> /\ DOMAIN r = {1}
    BY DEF Returned
  <2> HIDE DEF r
  <2>2. Well(r) /\ Sealed(r)
    BY <1>6, <2>1, SequenceOf DEF Turn, Sealed, Acts
  <2> QED BY <2>1, <2>2 DEF r
<1>8. ASSUME NEW A \in T PROVE Well(A \o << Returned >>) /\ Sealed(A \o << Returned >>)
  <2>1. Sequence(A) /\ Sequence(<< Returned >>)
    BY <1>7, SequenceOf
  <2>2. \A i \in DOMAIN A : ~Turn(A[i])
    BY <1>2
  <2>3. Well(A) /\ ~TurnsLeft(A)
    BY <1>6, <2>1, <2>2 DEF TurnsLeft
  <2>4. Well(A \o << Returned >>)
    BY <1>7, <2>3, JoinWell
  <2>5. Sealed(A \o << Returned >>)
    BY <1>7, <2>1, JoinSealed
  <2> QED BY <2>4, <2>5
<1>9. ASSUME NEW A \in Seq(S)
      PROVE  LET s == << Claim, Submit(<< "resume" >>) >> \o A \o << Sync, Returned >>
             IN  Well(s) /\ Sealed(s)
  <2> DEFINE s == << Claim, Submit(<< "resume" >>) >> \o A \o << Sync, Returned >>
             n == Len(A)
  <2>1. n \in Nat /\ DOMAIN A = 1 .. n /\ \A i \in 1 .. n : A[i] \in S
    OBVIOUS
  <2>2. /\ s[1] = Claim /\ s[2] = Submit(<< "resume" >>)
        /\ \A i \in 1 .. n : s[i + 2] = A[i]
        /\ s[n + 3] = Sync /\ s[n + 4] = Returned /\ DOMAIN s = 1 .. n + 4
    BY <2>1
  <2>3. s \in Seq(S \cup {Claim, Submit(<< "resume" >>), Sync, Returned})
    <3> DEFINE U == S \cup {Claim, Submit(<< "resume" >>), Sync, Returned}
    <3>1. A \in Seq(U)
      OBVIOUS
    <3>2. << Claim, Submit(<< "resume" >>) >> \in Seq(U) /\ << Sync, Returned >> \in Seq(U)
      OBVIOUS
    <3> HIDE DEF U
    <3>3. s \in Seq(U)
      BY <3>1, <3>2
    <3> QED BY <3>3 DEF U
  <2>4. Sequence(s)
    BY <2>3, SequenceOf
  <2> HIDE DEF s
  <2>5. \A i \in DOMAIN s : 1 < i => ~Turn(s[i]) /\ (i < n + 4 => s[i] # Returned)
    <3> SUFFICES ASSUME NEW i \in DOMAIN s, 1 < i
                 PROVE  ~Turn(s[i]) /\ (i < n + 4 => s[i] # Returned)
      OBVIOUS
    <3>1. CASE i - 2 \in 1 .. n
      <4>1. s[i] = A[i - 2]
        <5>1. i - 2 + 2 = i
          BY <2>1, <2>2
        <5> QED BY <2>2, <3>1, <5>1
      <4> QED BY <1>2, <2>1, <3>1, <4>1
    <3>2. CASE i \in {2, n + 3, n + 4}
      BY <2>1, <2>2, <3>2 DEF Turn, Submit, Sync, Returned
    <3> QED BY <2>1, <2>2, <3>1, <3>2
  <2>6. Sealed(s)
    <3> SUFFICES ASSUME NEW j \in DOMAIN s, Acts(s[j])
                 PROVE  \E i \in DOMAIN s :
                          i < j /\ Asks(s[i]) /\ \A m \in DOMAIN s : i < m /\ m < j => s[m] # Returned
      BY DEF Sealed
    <3>1. j # 1 /\ j # n + 4
      BY <2>2 DEF Acts, Claim, Returned
    <3>2. 1 \in DOMAIN s /\ 1 < j /\ j < n + 4 /\ Asks(s[1])
      BY <2>1, <2>2, <3>1 DEF Asks, Claim
    <3>3. \A m \in DOMAIN s : 1 < m /\ m < j => s[m] # Returned
      BY <2>1, <2>2, <2>5, <3>2
    <3> QED BY <3>2, <3>3
  <2>7. OneTurn(s) /\ NoFork(s)
    <3>1. \A i \in DOMAIN s : i = 1 \/ 1 < i
      BY <2>2
    <3>2. \A i \in DOMAIN s : s[i][1] # "invoke"
      BY <2>2, <2>5, <3>1 DEF Turn, Claim
    <3> QED BY <2>5, <3>1, <3>2 DEF OneTurn, NoFork
  <2>8. Within(s)
    <3>1. \A i \in DOMAIN s : s[i][1] = "claim" => i = 1
      BY <2>2, <2>5 DEF Turn
    <3>2. 1 < n + 4 /\ n + 4 \in DOMAIN s /\ s[n + 4] = Returned
      BY <2>1, <2>2
    <3> QED BY <3>1, <3>2 DEF Within
  <2> QED BY <2>4, <2>6, <2>7, <2>8 DEF Well, s
<1>10. NextNode(nodes, d) \in Nat \ {0}
  BY <1>1, NextNodeIs DEF NextNodeType
<1>11. Plan(p, how) = graph(nodes, how, d, TRUE)
  BY <1>1 DEF Plan, OneAnswer
<1>12. CASE how = "input"
  <2>1. << Op(<< "put", 0 >>) >> \in T
    <3> DEFINE b == << Op(<< "put", 0 >>) >>
    <3>1. Op(<< "put", 0 >>) \in S
      BY DEF S, NodeStep
    <3>2. b \in Seq(S) /\ b[1][1] = "op" /\ DOMAIN b = {1}
      BY <3>1 DEF Op
    <3> HIDE DEF b
    <3>3. b \in T
      BY <3>2 DEF Sealed, Acts
    <3> QED BY <3>3 DEF b
  <2>2. GraphNodes(nodes, 1) \in T
    BY <1>5
  <2> HIDE DEF T
  <2>3. << Op(<< "put", 0 >>) >> \o GraphNodes(nodes, 1) \in T
    BY <1>3, <2>1, <2>2
  <2> QED BY <1>8, <1>11, <1>12, <2>3 DEF graph
<1>13. CASE how = "none"
  <2>1. GraphNodes(nodes, NextNode(nodes, d)) \in T
    BY <1>5, <1>10
  <2> QED BY <1>8, <1>11, <1>13, <2>1 DEF graph
<1>14. CASE how \notin {"input", "none"}
  <2> DEFINE G == GraphNodes(nodes, NextNode(nodes, d))
             R == Resuming(G)
  <2>1. R \in Seq(S)
    <3>1. G \in Seq(S)
      BY <1>5, <1>10
    <3>2. Resumed \in S
      BY DEF S, NodeStep
    <3> HIDE DEF G
    <3>3. R \in [1 .. Len(G) -> S] /\ Len(G) \in Nat
      BY <3>1, <3>2 DEF Resuming
    <3> QED BY <3>3
  <2>2. Plan(p, how) \in {<< Returned >>,
                          << Claim, Submit(<< "resume" >>) >> \o R \o << Sync, Returned >>}
    BY <1>11, <1>14 DEF graph
  <2> HIDE DEF R
  <2> QED BY <1>7, <1>9, <2>1, <2>2
<1> QED BY <1>12, <1>13, <1>14

LEMMA RangeStep ==
  ASSUME NEW s, Sequence(s)
  PROVE  /\ \A x : Sequence(Append(s, x)) /\ Range(Append(s, x)) = Range(s) \cup {x}
         /\ s # << >> => Range(s) = Range(Tail(s)) \cup {Head(s)}
<1>1. s \in Seq(Range(s)) /\ Len(s) \in Nat /\ DOMAIN s = 1 .. Len(s)
  BY DEF Sequence
<1>2. ASSUME NEW x PROVE Sequence(Append(s, x)) /\ Range(Append(s, x)) = Range(s) \cup {x}
  <2> DEFINE t == Append(s, x)
  <2>1. /\ t \in Seq(Range(s) \cup {x}) /\ DOMAIN t = 1 .. Len(s) + 1 /\ t[Len(s) + 1] = x
        /\ \A i \in DOMAIN s : t[i] = s[i]
    BY <1>1
  <2> HIDE DEF t
  <2>2. \A i \in DOMAIN t : i = Len(s) + 1 \/ i \in DOMAIN s
    BY <1>1, <2>1
  <2>3. DOMAIN s \subseteq DOMAIN t /\ Len(s) + 1 \in DOMAIN t
    BY <1>1, <2>1
  <2>4. Range(t) = Range(s) \cup {x}
    BY <2>1, <2>2, <2>3 DEF Range
  <2> QED BY <2>1, <2>4, SequenceOf DEF t
<1>3. ASSUME s # << >> PROVE Range(s) = Range(Tail(s)) \cup {Head(s)}
  <2> DEFINE t == Tail(s)
  <2>1. /\ 1 \in DOMAIN s /\ Head(s) = s[1] /\ DOMAIN t = 1 .. Len(s) - 1
        /\ \A i \in DOMAIN t : t[i] = s[i + 1]
    BY <1>3, TailOf
  <2> HIDE DEF t
  <2>2. \A i \in DOMAIN t : i + 1 \in DOMAIN s /\ t[i] = s[i + 1]
    BY <1>1, <2>1
  <2>3. \A i \in DOMAIN s : i = 1 \/ (i - 1 \in DOMAIN t /\ t[i - 1] = s[i])
    BY <1>1, <2>1
  <2>4. Range(t) \cup {s[1]} \subseteq Range(s)
    BY <2>1, <2>2 DEF Range
  <2>5. Range(s) \subseteq Range(t) \cup {s[1]}
    BY <2>3 DEF Range
  <2> QED BY <2>1, <2>4, <2>5 DEF t
<1> QED BY <1>2, <1>3

\* What is left when a step that decides nothing is taken.
LEMMA ThenGated ==
  ASSUME NEW p \in Child, Shaped, Well(todo[p]), todo[p] # << >>, ~Asks(todo[p][1]),
         NEW steps, Then(p, steps), Well(steps), Sealed(steps), ~TurnsLeft(steps)
  PROVE  /\ Well(todo'[p]) /\ (TurnsLeft(todo'[p]) => TurnsLeft(todo[p]))
         /\ Sealed(todo[p]) => Sealed(todo'[p])
<1>1. todo'[p] = steps \o Tail(todo[p])
  BY DEF Then, Shaped
<1>2. Well(Tail(todo[p])) /\ (Sealed(todo[p]) => Sealed(Tail(todo[p])))
  BY TailWell
<1>3. TurnsLeft(Tail(todo[p])) => TurnsLeft(todo[p])
  BY TailWell
<1>4. Sequence(steps) /\ Sequence(Tail(todo[p]))
  BY <1>2 DEF Well
<1> QED BY <1>1, <1>2, <1>3, <1>4, JoinWell, JoinSealed

LEMMA NothingLeft == Well(<< >>) /\ Sealed(<< >>) /\ ~TurnsLeft(<< >>)
<1>1. << >> \in Seq({}) /\ DOMAIN << >> = {}
  OBVIOUS
<1>2. Sequence(<< >>)
  BY <1>1, SequenceOf
<1> QED BY <1>1, <1>2 DEF Well, Sealed, TurnsLeft, OneTurn, Within, NoFork

\* The steps that are put in front: what is between a flag and its sleep, and the
\* two errors of a task that raises.
LEMMA PutInFront ==
  ASSUME NEW s \in {<< >>, << Ready, Sleep >>,
                    << Submit(<< "error", 1 >>), Submit(<< "error", 2 >>), Raise >>}
  PROVE  Well(s) /\ Sealed(s) /\ ~TurnsLeft(s)
<1>1. ASSUME NEW t, NEW S, t \in Seq(S), \A x \in S : ~Turn(x) /\ ~Acts(x)
      PROVE  Well(t) /\ Sealed(t) /\ ~TurnsLeft(t)
  <2>1. Sequence(t) /\ \A i \in DOMAIN t : ~Turn(t[i]) /\ ~Acts(t[i])
    BY <1>1, SequenceOf
  <2> QED BY <2>1 DEF Well, Sealed, TurnsLeft, OneTurn, Within, NoFork, Turn
<1>2. CASE s = << Ready, Sleep >>
  <2>1. s \in Seq({Ready, Sleep})
    BY <1>2
  <2>2. \A x \in {Ready, Sleep} : ~Turn(x) /\ ~Acts(x)
    BY DEF Ready, Sleep, Turn, Acts
  <2> QED BY <1>1, <2>1, <2>2
<1>3. CASE s = << Submit(<< "error", 1 >>), Submit(<< "error", 2 >>), Raise >>
  <2> DEFINE S == {Submit(<< "error", 1 >>), Submit(<< "error", 2 >>), Raise}
  <2>1. s \in Seq(S)
    BY <1>3
  <2>2. << "error", 1 >> # << "resume" >> /\ << "error", 2 >> # << "resume" >>
    OBVIOUS
  <2>3. \A x \in S : ~Turn(x) /\ ~Acts(x)
    BY <2>2 DEF Submit, Raise, Turn, Acts
  <2> HIDE DEF S
  <2> QED BY <1>1, <2>1, <2>3
<1> QED BY <1>2, <1>3, NothingLeft

LEMMA GateInit == RigInit => GateInv
<1> SUFFICES ASSUME RigInit, cell.gated, NEW p \in Child PROVE RowsClaimed /\ ChildGated(p)
  BY DEF GateInv, RigInit, RowsClaimed
<1>1. /\ cell \in Experiments /\ todo[p] = << >> /\ queue[p] = << >> /\ mine[p] = << >>
      /\ result[p] = "none" /\ ledger = {}
  BY DEF RigInit, Child
<1>2. Thread(p) \in Child /\ p # 0
  BY <1>1, ExperimentAssumption DEF Programs, Child, Thread
<1>3. claims[Thread(p)] # p
  BY <1>2 DEF RigInit, Child
<1>4. Range(<< >>) = {}
  BY DEF Range
<1> QED BY <1>1, <1>3, <1>4, NothingLeft DEF RowsClaimed, ChildGated, Well, Range

\* A claim is given once: no other child's standing changes with it.
ClaimGiven(p) ==
  claims' = claims \/ (claims[Thread(p)] = 0 /\ claims' = [claims EXCEPT ![Thread(p)] = p])

LEMMA ClaimOnce ==
  ASSUME TypeInv, NEW p \in Child, ClaimGiven(p)
  PROVE  /\ Thread(p) \in Child /\ p # 0
         /\ \A q \in Child \ {p} : claims'[Thread(q)] = q <=> claims[Thread(q)] = q
         /\ claims[Thread(p)] = p => claims'[Thread(p)] = p
         /\ \A t \in Child : claims[t] \in Child => claims'[t] = claims[t]
<1>1. 0 \notin Child /\ \A q \in Child : Thread(q) \in Child
  BY ExperimentAssumption DEF TypeInv, Programs, Child, Thread
<1>2. claims \in [Child -> {0} \cup Child]
  BY DEF TypeInv, RigTypeOK
<1> QED BY <1>1, <1>2 DEF ClaimGiven

LEMMA ClaimCases ==
  ASSUME NEW p, ChildStep(p) \/ Busy(p) \/ Broken(p)
  PROVE  ClaimGiven(p) /\ (claims' # claims => claim(p))
  BY ChildCases
     DEF Steps, Ends, Goes, _invoke, TakeEffect, OpenFlag, ParkHere, SeeStart, CrashHere, Receive,
         Continue, Join, Ask, Busy, Fail, InvokeReturns, _die, Exit, Broken, FillFlag, Write,
         Enqueue, Flush, ParkInSaver, claim, ClaimGiven, engine

\* The rows of the ledger keep their claim, and a new one has it.
LEMMA RowsStep ==
  ASSUME TypeInv, RowsClaimed, NEW p \in Child, ChildGated(p),
         ChildStep(p) \/ Busy(p) \/ Broken(p)
  PROVE  RowsClaimed'
<1>1. /\ ClaimGiven(p) /\ UNCHANGED << Child, cell >> /\ Shaped /\ Thread(p) \in Child
  BY ClaimCases, ClaimOnce, ChildFrame DEF TypeInv, Child
<1>2. ASSUME ledger' = ledger PROVE RowsClaimed'
  <2> SUFFICES ASSUME NEW r \in ledger, r[2] \in AnswerTask
               PROVE  r[3] \in Child /\ r[1] = Thread(r[3]) /\ claims'[r[1]] = r[3]
    BY <1>1, <1>2 DEF RowsClaimed, Thread
  <2>1. r[3] \in Child /\ r[1] = Thread(r[3]) /\ claims[r[1]] = r[3]
    BY DEF RowsClaimed
  <2>2. r[1] \in Child
    BY <2>1, ExperimentAssumption DEF TypeInv, Programs, Child, Thread
  <2> QED BY <1>1, <2>1, <2>2, ClaimOnce
<1>3. CASE TakeEffect(p)
  <2>1. /\ ledger' = ledger \cup {<< Thread(p), Arg(p), p >>} /\ claims' = claims
        /\ todo[p] # << >> /\ Head(todo[p])[1] = "effect"
    BY <1>3 DEF TakeEffect, At, ledger_write, engine
  <2>2. ASSUME Arg(p) \in AnswerTask PROVE claims[Thread(p)] = p
    <3>1. Sequence(todo[p])
      BY DEF ChildGated
    <3>2. 1 \in DOMAIN todo[p] /\ Head(todo[p]) = todo[p][1] /\ DOMAIN todo[p] \subseteq Nat \ {0}
      BY <2>1, <3>1, TailOf
    <3>3. Acts(todo[p][1]) /\ \A i \in DOMAIN todo[p] : ~(i < 1)
      BY <2>1, <2>2, <3>2 DEF Acts, Arg
    <3> QED BY <3>2, <3>3 DEF ChildGated, Sealed
  <2> DEFINE new == << Thread(p), Arg(p), p >>
  <2>3. \A r \in ledger' : r \in ledger \/ (r[1] = Thread(p) /\ r[2] = Arg(p) /\ r[3] = p)
    BY <2>1
  <2> QED BY <1>1, <2>1, <2>2, <2>3 DEF RowsClaimed, Thread
<1>4. ledger' = ledger \/ TakeEffect(p)
  BY ChildCases
     DEF Steps, Ends, Goes, _invoke, OpenFlag, ParkHere, SeeStart, CrashHere, Receive,
         Continue, Join, Ask, Busy, Fail, InvokeReturns, _die, Exit, Broken, FillFlag, Write,
         Enqueue, Flush, ParkInSaver, claim
<1> QED BY <1>2, <1>3, <1>4

\* What a step of p does to its own standing.
LEMMA OwnGate ==
  ASSUME TypeInv, cell.gated, NEW p \in Child, ChildGated(p),
         ChildStep(p) \/ Busy(p) \/ Broken(p)
  PROVE  ChildGated(p)'
<1> DEFINE have == claims[Thread(p)]
<1>0. /\ Shaped /\ cell \in Experiments /\ UNCHANGED << cell, Child >> /\ st[p] = "running"
      /\ st'[p] # "none" /\ ClaimGiven(p) /\ Thread(p) \in Child /\ p # 0
      /\ claims' # claims => claim(p)
      /\ claims \in [Child -> {0} \cup Child]
  BY ChildFrame, ClaimCases, ClaimOnce
     DEF TypeInv, Child, Followed, Running, Stops, RigTypeOK
<1>1. Well(todo[p])
  BY DEF ChildGated, Well
<1> USE DEF child, engine, files
\* A step that keeps the claim and the operations.
<1>2. ASSUME Well(todo'[p]), Sealed(todo[p]) => Sealed(todo'[p]),
             TurnsLeft(todo'[p]) => TurnsLeft(todo[p]),
             result'[p] \in {result[p], "done", "error"},
             claims' = claims, mine'[p] = mine[p],
             queue'[p] = queue[p] \/ queue'[p] = << >>
      PROVE  ChildGated(p)'
  <2>1. Range(<< >>) = {} /\ Sequence(<< >>)
    BY NothingLeft DEF Range, Well
  <2>2. /\ Sequence(queue'[p]) /\ Range(queue'[p]) \subseteq Range(queue[p])
    BY <1>2, <2>1 DEF ChildGated
  <2>3. Thread(p)' = Thread(p)
    BY <1>0 DEF Thread
  <2>4. Sequence(todo'[p]) /\ OneTurn(todo'[p]) /\ Within(todo'[p]) /\ NoFork(todo'[p])
    BY <1>2 DEF Well
  <2>5. claims[Thread(p)] = p \/ Sealed(todo'[p])
    BY <1>2 DEF ChildGated
  <2>6. TurnsLeft(todo'[p]) => claims[Thread(p)] # p /\ result'[p] # "rejected"
    BY <1>2 DEF ChildGated
  <2>7. result'[p] = "rejected" => claims[Thread(p)] # p
    BY <1>2 DEF ChildGated
  <2>8. << "resume" >> \in Range(mine'[p]) \cup Range(queue'[p]) => claims[Thread(p)] = p
    BY <1>2, <2>2 DEF ChildGated
  <2>9. Sequence(mine'[p])
    BY <1>2 DEF ChildGated
  <2> QED BY <1>0, <1>2, <2>2, <2>3, <2>4, <2>5, <2>6, <2>7, <2>8, <2>9 DEF ChildGated
<1>3. CASE Steps(p) /\ ~_invoke(p)
  <2>1. /\ UNCHANGED << result, queue, mine, claims >> /\ todo[p] # << >>
        /\ Head(todo[p])[1] \notin {"claim", "interrupt"}
    BY <1>3 DEF Steps, TakeEffect, OpenFlag, ParkHere, SeeStart, CrashHere, Receive,
                Continue, Join, At
  <2>2. PICK s \in {<< >>, << Ready, Sleep >>,
                    << Submit(<< "error", 1 >>), Submit(<< "error", 2 >>), Raise >>} : Then(p, s)
    BY <1>3 DEF Steps, TakeEffect, OpenFlag, ParkHere, SeeStart, CrashHere, Receive,
                Continue, Join
  <2>3. ~Asks(todo[p][1])
    BY <2>1, <1>1, TailOf DEF Asks, Well
  <2>4. /\ Well(todo'[p]) /\ (TurnsLeft(todo'[p]) => TurnsLeft(todo[p]))
        /\ Sealed(todo[p]) => Sealed(todo'[p])
    BY <1>0, <1>1, <2>1, <2>2, <2>3, PutInFront, ThenGated
  <2> QED BY <1>2, <2>1, <2>4
<1>4. CASE Ends(p)
  <2>1. /\ UNCHANGED << queue, mine, claims >> /\ todo[p] # << >>
        /\ todo'[p] = SubSeq(todo[p], InvokeEnd(todo[p]) + 1, Len(todo[p]))
        /\ result'[p] \in {"done", "error"}
    BY <1>0, <1>4 DEF Ends, Ask, Busy, Fail, InvokeReturns, At, EndInvoke, Shaped, RigTypeOK, TypeInv
  <2>2. /\ Well(todo'[p]) /\ (TurnsLeft(todo'[p]) => TurnsLeft(todo[p]))
        /\ Sealed(todo[p]) => Sealed(todo'[p])
    BY <1>1, <2>1, DropWell
  <2> QED BY <1>2, <2>1, <2>2
<1>5. CASE _invoke(p)
  <2>1. /\ UNCHANGED << result, queue, mine, claims >> /\ todo[p] # << >>
        /\ Head(todo[p])[1] = "invoke" /\ todo'[p] = Plan(p, Arg(p)) \o Tail(todo[p])
    BY <1>0, <1>5 DEF _invoke, At, Then, Shaped
  <2>2. /\ 1 \in DOMAIN todo[p] /\ Head(todo[p]) = todo[p][1]
        /\ Turn(todo[p][1]) /\ ~Asks(todo[p][1])
    BY <1>1, <2>1, TailOf DEF Turn, Asks, Well
  <2>3. Arg(p) \notin {"fork:True", "fork:False"}
    BY <1>1, <2>1, <2>2 DEF Well, NoFork, Arg
  <2>4. Well(Plan(p, Arg(p))) /\ Sealed(Plan(p, Arg(p)))
    BY <1>0, <2>3, GatedPlan
  <2>5. /\ Well(Tail(todo[p])) /\ ~TurnsLeft(Tail(todo[p]))
        /\ Sealed(todo[p]) => Sealed(Tail(todo[p]))
    BY <1>1, <2>1, <2>2, TailWell
  <2>6. Sequence(Plan(p, Arg(p))) /\ Sequence(Tail(todo[p]))
    BY <2>4, <2>5 DEF Well
  <2>7. Well(todo'[p]) /\ (Sealed(todo[p]) => Sealed(todo'[p]))
    BY <2>1, <2>4, <2>5, <2>6, JoinWell, JoinSealed
  <2>8. TurnsLeft(todo[p])
    BY <2>2 DEF TurnsLeft
  <2> QED BY <1>2, <2>1, <2>7, <2>8
<1>6. ASSUME todo'[p] = << >>, claims' = claims, mine'[p] = mine[p], result'[p] = result[p],
             queue'[p] = << >>
      PROVE  ChildGated(p)'
  BY <1>2, <1>6, NothingLeft
<1>7. CASE Goes(p)
  <2>1. /\ UNCHANGED << claims, mine, result >> /\ todo'[p] = << >> /\ queue'[p] = << >>
    BY <1>0, <1>7 DEF Goes, _die, Exit, Broken, Gone, Shaped
  <2> QED BY <1>6, <2>1
<1>8. CASE FillFlag(p) \/ ParkInSaver(p)
  <2>1. UNCHANGED << claims, mine, result, todo, queue >>
    BY <1>8 DEF FillFlag, ParkInSaver
  <2> QED BY <1>1, <1>2, <2>1
<1>9. CASE Write(p)
  <2>1. /\ UNCHANGED << claims, mine, result >> /\ todo[p] # << >> /\ Head(todo[p])[1] = "op"
    BY <1>9 DEF Write, At
  <2>2. CASE Gone(p, "killed")
    BY <1>0, <1>6, <2>1, <2>2 DEF Gone, Shaped
  <2>3. CASE Then(p, << >>) /\ UNCHANGED << st, queue >>
    <3>1. ~Asks(todo[p][1])
      BY <2>1, <1>1, TailOf DEF Asks, Well
    <3>2. /\ Well(todo'[p]) /\ (TurnsLeft(todo'[p]) => TurnsLeft(todo[p]))
          /\ Sealed(todo[p]) => Sealed(todo'[p])
      BY <1>0, <1>1, <2>1, <2>3, <3>1, NothingLeft, ThenGated
    <3> QED BY <1>2, <2>1, <2>3, <3>2
  <2> QED BY <1>9, <2>2, <2>3 DEF Write
<1>10. CASE Enqueue(p)
  <2>1. /\ UNCHANGED << result, mine, claims >> /\ todo[p] # << >> /\ Head(todo[p])[1] = "submit"
        /\ queue'[p] = Append(queue[p], Arg(p)) /\ Then(p, << >>)
    BY <1>0, <1>10 DEF Enqueue, At, Shaped
  <2>2. 1 \in DOMAIN todo[p] /\ Head(todo[p]) = todo[p][1] /\ ~Asks(todo[p][1])
    BY <2>1, <1>1, TailOf DEF Asks, Well
  <2>3. /\ Well(todo'[p]) /\ (TurnsLeft(todo'[p]) => TurnsLeft(todo[p]))
        /\ Sealed(todo[p]) => Sealed(todo'[p])
    BY <1>0, <1>1, <2>1, <2>2, NothingLeft, ThenGated
  <2>4. Arg(p) = << "resume" >> => claims[Thread(p)] = p
    <3>1. SUFFICES ASSUME Arg(p) = << "resume" >> PROVE ~Sealed(todo[p])
      BY DEF ChildGated
    <3>2. Acts(todo[p][1]) /\ \A i \in DOMAIN todo[p] : ~(i < 1)
      BY <1>1, <2>1, <2>2, <3>1, SequenceDomain DEF Acts, Arg, Well
    <3> QED BY <2>2, <3>2 DEF Sealed
  <2>5. Sequence(queue'[p]) /\ Range(queue'[p]) = Range(queue[p]) \cup {Arg(p)}
    BY <2>1, RangeStep DEF ChildGated
  <2>6. Thread(p)' = Thread(p)
    BY <1>0 DEF Thread
  <2>7. << "resume" >> \in Range(mine'[p]) \cup Range(queue'[p]) => claims[Thread(p)] = p
    BY <2>1, <2>4, <2>5 DEF ChildGated
  <2> QED BY <1>0, <2>1, <2>3, <2>5, <2>6, <2>7 DEF ChildGated, Well
<1>11. CASE Flush(p)
  <2>1. /\ UNCHANGED << result, todo, claims >> /\ queue[p] # << >>
        /\ queue'[p] = Tail(queue[p]) /\ mine'[p] = Append(mine[p], Head(queue[p]))
    BY <1>0, <1>11 DEF Flush, Shaped
  <2>2. Sequence(queue[p]) /\ Sequence(mine[p])
    BY DEF ChildGated
  <2>3. Sequence(queue'[p]) /\ Sequence(mine'[p])
    BY <2>1, <2>2, TailOf, RangeStep
  <2>4. Range(mine'[p]) \cup Range(queue'[p]) = Range(mine[p]) \cup Range(queue[p])
    BY <2>1, <2>2, RangeStep
  <2>5. Thread(p)' = Thread(p)
    BY <1>0 DEF Thread
  <2> QED BY <1>0, <2>1, <2>3, <2>4, <2>5 DEF ChildGated
<1>12. CASE claim(p)
  <2>1. /\ UNCHANGED << mine, queue >> /\ todo[p] # << >> /\ Head(todo[p])[1] = "claim"
    BY <1>12 DEF claim, At
  <2>2. 1 \in DOMAIN todo[p] /\ todo[p][1][1] = "claim" /\ Turn(todo[p][1]) /\ TurnsLeft(todo[p])
    BY <2>1, <1>1, TailOf DEF Turn, TurnsLeft, Well
  <2>3. claims[Thread(p)] # p /\ result[p] # "rejected" /\ Sealed(todo[p])
    BY <2>2 DEF ChildGated
  <2>4. << "resume" >> \notin Range(mine[p]) \cup Range(queue[p])
    BY <2>3 DEF ChildGated
  <2>5. Thread(p)' = Thread(p)
    BY <1>0 DEF Thread
  <2>6. CASE claims[Thread(p)] = 0
    <3>1. claims' = [claims EXCEPT ![Thread(p)] = p] /\ todo'[p] = << >> \o Tail(todo[p])
          /\ result' = result
      BY <1>0, <1>12, <2>6 DEF claim, Then, Shaped
    <3>2. claims'[Thread(p)] = p
      BY <1>0, <3>1
    <3>3. Well(Tail(todo[p])) /\ ~TurnsLeft(Tail(todo[p]))
      BY <1>1, <2>1, <2>2, TailWell
    <3>4. Well(todo'[p]) /\ ~TurnsLeft(todo'[p])
      BY <3>1, <3>3, NothingLeft, JoinWell
    <3> QED BY <1>0, <2>1, <2>3, <2>4, <2>5, <3>1, <3>2, <3>4 DEF ChildGated, Well
  <2>7. CASE claims[Thread(p)] # 0
    <3>1. /\ claims' = claims /\ result'[p] = "rejected"
          /\ todo'[p] = SubSeq(todo[p], InvokeEnd(todo[p]) + 1, Len(todo[p]))
      BY <1>0, <1>12, <2>7 DEF claim, EndInvoke, Shaped
    <3>2. Well(todo'[p]) /\ Sealed(todo'[p]) /\ ~TurnsLeft(todo'[p])
      BY <1>1, <2>1, <2>2, <2>3, <3>1, DropWell
    <3> QED BY <1>0, <2>1, <2>3, <2>4, <2>5, <3>1, <3>2 DEF ChildGated, Well
  <2> QED BY <2>6, <2>7
<1> QED BY <1>3, <1>4, <1>5, <1>7, <1>8, <1>9, <1>10, <1>11, <1>12, ChildCases

LEMMA GateStep ==
  ASSUME TypeInv, Orderly, GateInv, [RigNext]_rigVars PROVE GateInv'
<1>0. Shaped /\ Idle /\ cell \in Experiments
  BY TypeIdle DEF TypeInv
<1> USE DEF child, engine, files
<1> SUFFICES ASSUME cell'.gated PROVE RowsClaimed' /\ \A q \in Child' : ChildGated(q)'
  BY DEF GateInv
<1>1. ASSUME NEW p \in Child, ChildStep(p) \/ Busy(p) \/ Broken(p)
      PROVE  RowsClaimed' /\ \A q \in Child' : ChildGated(q)'
  <2>1. /\ UNCHANGED << cell, Child >> /\ \A q \in Child \ {p} : Same(q)
    BY <1>0, <1>1, ChildFrame DEF Child
  <2>2. cell.gated /\ RowsClaimed /\ \A q \in Child : ChildGated(q)
    BY <2>1 DEF GateInv
  <2>3. RowsClaimed'
    BY <1>1, <2>2, RowsStep
  <2>4. ChildGated(p)'
    BY <1>1, <2>2, OwnGate
  <2>5. ASSUME NEW q \in Child \ {p} PROVE ChildGated(q)'
    <3>1. claims'[Thread(q)] = q <=> claims[Thread(q)] = q
      BY <1>1, ClaimOnce, ClaimCases
    <3>2. Thread(q)' = Thread(q) /\ Same(q) /\ ChildGated(q)
      BY <2>1, <2>2 DEF Thread
    <3> QED BY <3>1, <3>2 DEF ChildGated, Same
  <2> QED BY <2>1, <2>3, <2>4, <2>5
<1>2. CASE ParentStep
  <2>1. /\ UNCHANGED << cell, Child, mine, claims, ledger, result >>
        /\ \A q \in Child :
             \/ Same(q)
             \/ Stops(q) /\ ((Running(q) /\ st'[q] = "killed") \/ UNCHANGED st[q])
             \/ Started(q)
    BY <1>0, <1>2, ParentFrame DEF Child
  <2>2. cell.gated /\ RowsClaimed /\ \A q \in Child : ChildGated(q)
    BY <2>1 DEF GateInv
  <2>3. RowsClaimed'
    BY <2>1, <2>2 DEF RowsClaimed, Thread
  <2> SUFFICES ASSUME NEW q \in Child PROVE ChildGated(q)'
    BY <2>1, <2>3
  <2>4. Thread(q)' = Thread(q) /\ ChildGated(q)
    BY <2>1, <2>2 DEF Thread
  <2>5. CASE Same(q)
    BY <2>1, <2>4, <2>5 DEF ChildGated, Same
  <2>6. CASE Stops(q) /\ ((Running(q) /\ st'[q] = "killed") \/ UNCHANGED st[q])
    <3>1. st'[q] = "none" => st[q] = "none"
      BY <2>6
    <3>2. /\ Sequence(todo'[q]) /\ OneTurn(todo'[q]) /\ Within(todo'[q]) /\ NoFork(todo'[q])
          /\ Sealed(todo'[q]) /\ ~TurnsLeft(todo'[q]) /\ Sequence(queue'[q]) /\ Range(queue'[q]) = {}
      BY <2>6, NothingLeft DEF Stops, Well, Range
    <3> QED BY <2>1, <2>4, <3>1, <3>2 DEF ChildGated
  <2>7. CASE Started(q)
    <3>1. st[q] = "none"
      <4>1. outcome = "running" /\ script # << >> /\ Head(script)[1] = "spawn" /\ q \in Head(script)[2]
        BY <2>7 DEF Started, Does, Whom
      <4>2. 1 \in DOMAIN script /\ Head(script) = script[1]
        BY <4>1, TailOf DEF Orderly
      <4> QED BY <4>1, <4>2 DEF Orderly
    <3>2. /\ todo'[q] = cell.lives[q] /\ queue'[q] = queue[q] /\ st'[q] = "running"
          /\ claims[Thread(q)] # q /\ result[q] = "none"
      BY <2>4, <2>7, <3>1 DEF Started, ChildGated
    <3>3. /\ Sequence(cell.lives[q]) /\ OneAnswer(cell)
      BY <1>0, <2>2, ExperimentAssumption DEF Programs, Child
    <3>4. \A i \in DOMAIN cell.lives[q] :
            /\ cell.lives[q][i][1] \in {"invoke", "ready", "sleep", "await_start"}
            /\ cell.lives[q][i][1] # "claim" /\ ~Acts(cell.lives[q][i])
      BY <3>3 DEF OneAnswer, Child, Acts
    <3>5. /\ OneTurn(cell.lives[q]) /\ NoFork(cell.lives[q])
      BY <3>3, <3>4 DEF OneAnswer, Child, OneTurn, NoFork, Turn
    <3>6. Within(cell.lives[q]) /\ Sealed(cell.lives[q])
      BY <3>4 DEF Within, Sealed
    <3> QED BY <2>1, <2>4, <3>2, <3>3, <3>5, <3>6 DEF ChildGated
  <2> QED BY <2>1, <2>5, <2>6, <2>7
<1>3. CASE UNCHANGED rigVars
  BY <1>3 DEF rigVars, parent, GateInv, RowsClaimed, ChildGated, Child, Thread
<1> QED BY <1>1, <1>2, <1>3 DEF RigNext

LEMMA GateDecides == TypeInv /\ GateInv => GateExclusive
<1> SUFFICES ASSUME TypeInv, cell.gated, RowsClaimed, \A p \in Child : ChildGated(p)
             PROVE  GateExclusive
  BY DEF GateInv, GateExclusive
<1>1. ASSUME NEW r \in ledger, r[2] \in {"gate:True", "gate:False"}
      PROVE  r[3] = claims[r[1]] /\ result[r[3]] # "rejected"
  BY <1>1 DEF RowsClaimed, AnswerTask, ChildGated
<1>2. ASSUME NEW p \in Child, Has(mine[p] \o queue[p], << "resume" >>)
      PROVE  claims[Thread(p)] = p
  <2>1. Sequence(mine[p]) /\ Sequence(queue[p])
    BY DEF ChildGated
  <2>2. << "resume" >> \in Range(mine[p] \o queue[p])
    BY <1>2 DEF Has
  <2>3. << "resume" >> \in Range(mine[p]) \cup Range(queue[p])
    BY <2>1, <2>2, JoinRange
  <2> QED BY <2>3 DEF ChildGated
<1> QED BY <1>1, <1>2 DEF GateExclusive

\* With the gate at most one process fires a parked interrupt, the one that holds
\* the claim, and a rejected one fires nothing and leaves no answer in the store.
THEOREM GateExclusiveHolds == RigSpec => []GateExclusive
<1>1. RigInit => TypeInv /\ Orderly /\ NobodyLeft /\ GateInv
  BY TypeInit, OrderlyInit, GateInit
<1>2. TypeInv /\ Orderly /\ NobodyLeft /\ GateInv /\ [RigNext]_rigVars
        => (TypeInv /\ Orderly /\ NobodyLeft /\ GateInv)'
  BY TypeStep, OrderlyStep, GateStep
<1> QED BY <1>1, <1>2, GateDecides, PTL DEF RigSpec

-----------------------------------------------------------------------------
(* The frozen store.                                                       *)

\* What the victim of 160 does: it runs its nodes from fresh input.
RunSteps ==
  {Invoke("input"), Sync, Returned} \cup (UNION {Range(cell.nodes[1][n]) : n \in DOMAIN cell.nodes[1]})
    \cup {Submit(o) : o \in {"write", "put"} \X (0 .. Len(cell.nodes[1]))}

\* Until the resume starts, the store has what the saver of the victim executed.
Frozen ==
  /\ todo[1] \in Seq(RunSteps) /\ Sequence(queue[1]) /\ Sequence(mine[1])
  /\ 1 \in DOMAIN durable /\ Sequence(durable[1]) /\ durable[1] = mine[1]
  /\ flag[1] # "absent" => stuck[1]
  /\ stuck[1] => Len(mine[1]) = cell.k

LeavesStore == outcome = "running" => \A i \in DOMAIN script : script[i][1] \notin {"copy", "send"}

FreezeInv == cell.name = "160" => LeavesStore /\ (st[2] = "none" => Frozen)

LEMMA PlainCell ==
  ASSUME cell \in Experiments, cell.name = "160"
  PROVE  /\ PlainRun(cell) /\ Child = {1, 2} /\ Thread(1) = 1
         /\ Sequence(cell.lives[1]) /\ Sequence(cell.nodes[1])
         /\ \A n \in DOMAIN cell.nodes[1] : Sequence(cell.nodes[1][n])
         /\ Sequence(cell.script)
  BY ExperimentAssumption DEF Programs, PlainRun, Child, Thread

LEMMA RunStepKinds ==
  ASSUME cell \in Experiments, cell.name = "160", NEW x \in RunSteps
  PROVE  /\ x[1] \in {"invoke", "sync", "returned", "effect", "submit"}
         /\ x[1] = "invoke" => x[2] = "input"
<1>1. CASE x \in {Invoke("input"), Sync, Returned}
  BY <1>1 DEF Invoke, Sync, Returned
<1>2. CASE \E n \in DOMAIN cell.nodes[1] : x \in Range(cell.nodes[1][n])
  <2>1. PICK n \in DOMAIN cell.nodes[1] : \E i \in DOMAIN cell.nodes[1][n] : x = cell.nodes[1][n][i]
    BY <1>2 DEF Range
  <2>2. x[1] = "effect"
    BY <2>1, PlainCell DEF PlainRun
  <2> QED BY <2>2
<1>3. CASE x \in {Submit(o) : o \in {"write", "put"} \X (0 .. Len(cell.nodes[1]))}
  BY <1>3 DEF Submit
<1> QED BY <1>1, <1>2, <1>3 DEF RunSteps

\* A run from fresh input does nothing else.
LEMMA PlainPlan ==
  ASSUME cell \in Experiments, cell.name = "160"
  PROVE  Plan(1, "input") \in Seq(RunSteps)
<1> DEFINE nodes == cell.nodes[1]
           S == RunSteps
           K == Len(nodes)
<1>1. /\ PlainRun(cell) /\ Sequence(nodes) /\ \A n \in DOMAIN nodes : Sequence(nodes[n])
      /\ K \in Nat /\ DOMAIN nodes = 1 .. K
  BY PlainCell, SequenceDomain
<1>2. \A n \in 0 .. K : Submit(<< "write", n >>) \in S /\ Submit(<< "put", n >>) \in S
  <2> SUFFICES ASSUME NEW n \in 0 .. K PROVE Submit(<< "write", n >>) \in S /\ Submit(<< "put", n >>) \in S
    OBVIOUS
  <2>1. << "write", n >> \in {"write", "put"} \X (0 .. K) /\ << "put", n >> \in {"write", "put"} \X (0 .. K)
    OBVIOUS
  <2> QED BY <2>1 DEF RunSteps
<1>3. \A n \in DOMAIN nodes : nodes[n] \in Seq(S)
  <2>1. \A n \in DOMAIN nodes : Range(nodes[n]) \subseteq S
    BY DEF RunSteps
  <2> SUFFICES ASSUME NEW n \in DOMAIN nodes PROVE nodes[n] \in Seq(S)
    OBVIOUS
  <2>2. nodes[n] \in Seq(Range(nodes[n])) /\ Range(nodes[n]) \subseteq S
    BY <1>1, <2>1 DEF Sequence
  <2> QED BY <2>2
<1>4. Sync \in S /\ Returned \in S
  BY DEF RunSteps
<1> HIDE DEF S
<1>5. Tasks(nodes, 1) \in Seq(S)
  <2> DEFINE ss == [n \in 1 .. K - 1 + 1 |-> nodes[n + 1 - 1] \o << Submit(<< "write", n + 1 - 1 >>) >>]
  <2>1. \A n \in 1 .. K : nodes[n] \o << Submit(<< "write", n >>) >> \in Seq(S)
    <3> SUFFICES ASSUME NEW n \in 1 .. K PROVE nodes[n] \o << Submit(<< "write", n >>) >> \in Seq(S)
      OBVIOUS
    <3> DEFINE o == Submit(<< "write", n >>)
    <3>1. nodes[n] \in Seq(S)
      BY <1>1, <1>3
    <3>2. n \in 0 .. K
      BY <1>1
    <3>3. o \in S
      BY <1>2, <3>2, Zenon
    <3> HIDE DEF o
    <3>4. nodes[n] \o << o >> \in Seq(S)
      BY <3>1, <3>3
    <3> QED BY <3>4 DEF o
  <2>2. ss = [n \in 1 .. K |-> nodes[n] \o << Submit(<< "write", n >>) >>]
    BY <1>1
  <2> DEFINE T == Seq(S)
  <2>3. << >> \in T /\ \A a, b \in T : a \o b \in T
    OBVIOUS
  <2>4. \A n \in 1 .. K : nodes[n] \o << Submit(<< "write", n >>) >> \in T
    BY <2>1
  <2> HIDE DEF T
  <2>5. ss \in [1 .. K -> T]
    BY <2>2, <2>4
  <2> HIDE DEF ss
  <2>6. ss \in Seq(T)
    BY <1>1, <2>5
  <2>7. FlattenSeq(ss) \in T
    BY <2>3, <2>6, FlattenIn
  <2> QED BY <2>7 DEF Tasks, Walk, ss, T
<1> DEFINE x == Submit(<< "put", 0 >>)
           y == Submit(<< "write", 0 >>)
           z == Submit(<< "put", K >>)
           C == Tasks(nodes, 1)
<1>6. Plan(1, "input") = (<< x >> \o C) \o << y, z, Sync, Returned >>
  BY <1>1 DEF Plan, functional, PlainRun
<1>7. x \in S /\ y \in S /\ z \in S
  <2>1. 0 \in 0 .. K /\ K \in 0 .. K
    BY <1>1
  <2> QED BY <1>2, <2>1, Zenon
<1> HIDE DEF x, y, z, C
<1>8. (<< x >> \o C) \o << y, z, Sync, Returned >> \in Seq(S)
  <2>1. << x >> \in Seq(S) /\ C \in Seq(S) /\ << y, z, Sync, Returned >> \in Seq(S)
    BY <1>4, <1>5, <1>7 DEF C
  <2> QED BY <2>1
<1> QED BY <1>6, <1>8 DEF S

LEMMA FreezeInit == RigInit => FreezeInv
<1> SUFFICES ASSUME RigInit, cell.name = "160" PROVE LeavesStore /\ Frozen
  BY DEF FreezeInv
<1>1. cell \in Experiments /\ PlainRun(cell) /\ Child = {1, 2}
  BY PlainCell DEF RigInit
<1>2. /\ todo[1] = << >> /\ queue[1] = << >> /\ mine[1] = << >> /\ durable[1] = << >>
      /\ 1 \in DOMAIN durable
      /\ flag[1] = "absent" /\ stuck[1] = FALSE
  BY <1>1 DEF RigInit
<1>3. LeavesStore
  BY <1>1 DEF RigInit, LeavesStore, PlainRun
<1>4. << >> \in Seq(RunSteps) /\ << >> \in Seq({})
  OBVIOUS
<1> QED BY <1>2, <1>3, <1>4, SequenceOf DEF Frozen

\* The victim executes what it submits in order, and its saver parks at k.
LEMMA VictimStep ==
  ASSUME TypeInv, cell.name = "160", Frozen, ChildStep(1) \/ Busy(1) \/ Broken(1)
  PROVE  Frozen'
<1>0. /\ Shaped /\ cell \in Experiments /\ cell' = cell /\ PlainRun(cell) /\ RunSteps' = RunSteps
      /\ Thread(1) = 1 /\ Child = {1, 2} /\ cell.hook[1] = "count"
  BY ChildFrame, PlainCell DEF TypeInv, Child, RunSteps, PlainRun
<1> USE DEF child, engine, files
<1>1. ASSUME todo'[1] \in Seq(RunSteps), UNCHANGED << mine, durable, flag, stuck >>,
             queue'[1] = queue[1] \/ queue'[1] = << >>
      PROVE  Frozen'
  BY <1>0, <1>1, NothingLeft DEF Frozen, Well
<1>2. ASSUME NEW k, At(1, k)
      PROVE  /\ k \in {"invoke", "sync", "returned", "effect", "submit"}
             /\ Tail(todo[1]) \in Seq(RunSteps)
             /\ k = "invoke" => Arg(1) = "input"
  <2>1. todo[1] # << >> /\ Head(todo[1]) \in RunSteps /\ Tail(todo[1]) \in Seq(RunSteps)
        /\ Head(todo[1])[1] = k
    BY <1>2 DEF At, Frozen
  <2> QED BY <1>0, <2>1, RunStepKinds DEF Arg
<1>3. ASSUME TakeEffect(1) \/ Join(1) PROVE Frozen'
  <2>1. /\ \E k : At(1, k)
        /\ todo'[1] = << >> \o Tail(todo[1]) /\ UNCHANGED << mine, durable, flag, stuck, queue >>
    BY <1>0, <1>3 DEF TakeEffect, Join, Then, Shaped
  <2>2. todo'[1] \in Seq(RunSteps)
    BY <1>2, <2>1
  <2> QED BY <1>1, <2>1, <2>2
<1>4. CASE Steps(1)
  <2>1. ~OpenFlag(1) /\ ~ParkHere(1) /\ ~SeeStart(1) /\ ~CrashHere(1) /\ ~Receive(1) /\ ~Continue(1)
    BY <1>2 DEF OpenFlag, ParkHere, SeeStart, CrashHere, Receive, Continue
  <2>2. CASE _invoke(1)
    <3>1. /\ At(1, "invoke")
          /\ todo'[1] = Plan(1, Arg(1)) \o Tail(todo[1])
          /\ UNCHANGED << mine, durable, flag, stuck, queue >>
      BY <1>0, <2>2 DEF _invoke, Then, Shaped
    <3>2. Plan(1, Arg(1)) \in Seq(RunSteps) /\ Tail(todo[1]) \in Seq(RunSteps)
      BY <1>0, <1>2, <3>1, PlainPlan
    <3>3. todo'[1] \in Seq(RunSteps)
      BY <3>1, <3>2
    <3> QED BY <1>1, <3>1, <3>3
  <2> QED BY <1>3, <1>4, <2>1, <2>2 DEF Steps
<1>5. CASE Ends(1)
  <2>1. ~Ask(1) /\ ~Fail(1) /\ ~Busy(1)
    BY <1>2 DEF Ask, Fail, Busy
  <2>2. /\ todo'[1] = SubSeq(todo[1], InvokeEnd(todo[1]) + 1, Len(todo[1]))
        /\ UNCHANGED << mine, durable, flag, stuck, queue >>
    BY <1>0, <1>5, <2>1 DEF Ends, InvokeReturns, EndInvoke, Shaped
  <2>3. Sequence(todo[1]) /\ todo[1] \in Seq(RunSteps)
    BY SequenceOf DEF Frozen
  <2>4. InvokeEnd(todo[1]) \in 0 .. Len(todo[1])
    BY <2>3, EndAt
  <2>5. todo'[1] \in Seq(RunSteps)
    BY <2>2, <2>3, <2>4
  <2> QED BY <1>1, <2>2, <2>5
<1>6. CASE Goes(1)
  <2>1. todo'[1] = << >> /\ queue'[1] = << >> /\ UNCHANGED << mine, durable, flag, stuck >>
    BY <1>0, <1>6 DEF Goes, _die, Exit, Broken, Gone, Shaped
  <2> QED BY <1>1, <2>1
<1>7. CASE FillFlag(1)
  <2>1. /\ flag[1] = "empty" /\ UNCHANGED << todo, mine, durable, stuck, queue >>
    BY <1>7 DEF FillFlag
  <2> QED BY <1>0, <2>1 DEF Frozen
<1>8. ~Write(1) /\ ~claim(1) /\ ~ParkInSaver(1)
  BY <1>0, <1>2 DEF Write, claim, ParkInSaver, ParksBefore
<1>9. CASE Enqueue(1)
  <2>1. /\ At(1, "submit") /\ todo'[1] = << >> \o Tail(todo[1])
        /\ queue'[1] = Append(queue[1], Arg(1))
        /\ UNCHANGED << mine, durable, flag, stuck >>
    BY <1>0, <1>9 DEF Enqueue, Then, Shaped
  <2>2. todo'[1] \in Seq(RunSteps)
    BY <1>2, <2>1
  <2>3. Sequence(queue'[1])
    BY <2>1, RangeStep DEF Frozen
  <2> QED BY <1>0, <2>1, <2>2, <2>3 DEF Frozen
<1>10. CASE Flush(1)
  <2> DEFINE o == Head(queue[1])
  <2>1. /\ UNCHANGED todo /\ queue[1] # << >> /\ ~stuck[1]
        /\ durable' = [durable EXCEPT ![1] = @ \o Lands(1, o)]
        /\ mine'[1] = Append(mine[1], o) /\ queue'[1] = Tail(queue[1])
        /\ IF Len(mine[1]) + 1 = cell.k THEN stuck'[1] = TRUE ELSE UNCHANGED << stuck, flag >>
    BY <1>0, <1>10 DEF Flush, Shaped, StopsAfter
  <2>2. Lands(1, o) = << o >>
    BY <1>0 DEF Lands, Drops
  <2>3. /\ Sequence(queue[1]) /\ Sequence(mine[1]) /\ Sequence(durable[1]) /\ flag[1] = "absent"
        /\ durable[1] = mine[1] /\ todo[1] \in Seq(RunSteps) /\ 1 \in DOMAIN durable
    BY <2>1 DEF Frozen
  <2> HIDE DEF o
  <2>4. durable'[1] = durable[1] \o << o >> /\ 1 \in DOMAIN durable'
    BY <2>1, <2>2, <2>3
  <2>5. Sequence(<< o >>) /\ Len(<< o >>) = 1
    <3>1. << o >> \in Seq({o})
      OBVIOUS
    <3> QED BY <3>1, SequenceOf
  <2>6. Sequence(durable'[1]) /\ Len(durable'[1]) = Len(durable[1]) + 1
    <3> DEFINE d == durable[1]
               e == << o >>
               t == d \o e
    <3>1. Sequence(t) /\ DOMAIN t = 1 .. Len(d) + 1 /\ Len(d) \in Nat
      BY <2>3, <2>5, JoinOf
    <3> HIDE DEF t
    <3>2. Len(t) = Len(d) + 1
      BY <3>1, SequenceDomain
    <3> QED BY <2>4, <3>1, <3>2 DEF t
  <2>7. Sequence(queue'[1]) /\ Sequence(mine'[1])
    BY <2>1, <2>3, TailOf, RangeStep
  <2>8. Len(mine'[1]) = Len(mine[1]) + 1
    <3>1. mine[1] \in Seq(Range(mine[1]) \cup {o}) /\ o \in Range(mine[1]) \cup {o}
      BY <2>3 DEF Sequence
    <3> QED BY <2>1, <3>1
  <2>11. durable'[1] = mine'[1]
    <3>1. mine[1] \in Seq(Range(mine[1]) \cup {o}) /\ o \in Range(mine[1]) \cup {o}
      BY <2>3 DEF Sequence
    <3> DEFINE m == mine[1]
    <3> HIDE DEF m
    <3>2. Append(m, o) = m \o << o >>
      BY <3>1 DEF m
    <3> QED BY <2>1, <2>3, <2>4, <3>2 DEF m
  <2>9. stuck'[1] => Len(mine'[1]) = cell.k
    BY <2>1, <2>8
  <2>10. flag'[1] # "absent" => stuck'[1]
    BY <2>1, <2>3
  <2> QED BY <1>0, <2>1, <2>3, <2>4, <2>6, <2>7, <2>9, <2>10, <2>11 DEF Frozen
<1> QED BY <1>4, <1>5, <1>6, <1>7, <1>8, <1>9, <1>10, ChildCases

LEMMA FreezeStep ==
  ASSUME TypeInv, Orderly, FreezeInv, [RigNext]_rigVars PROVE FreezeInv'
<1>0. Shaped /\ Idle /\ cell \in Experiments
  BY TypeIdle DEF TypeInv
<1> USE DEF child, engine, files
<1>1. ASSUME NEW p \in Child, ChildStep(p) \/ Busy(p) \/ Broken(p) PROVE FreezeInv'
  <2>1. /\ UNCHANGED << cell, outcome, script >> /\ st[p] = "running"
        /\ st'[p] # "none" /\ \A q \in Child \ {p} : st'[q] = st[q]
    BY <1>0, <1>1, ChildFrame DEF Followed, Running, Stops, parent, Same
  <2> SUFFICES ASSUME cell.name = "160" PROVE LeavesStore' /\ (st'[2] = "none" => Frozen')
    BY <2>1 DEF FreezeInv
  <2>2. LeavesStore /\ (st[2] = "none" => Frozen) /\ Child = {1, 2}
    BY <1>0, PlainCell DEF FreezeInv
  <2>3. LeavesStore'
    BY <2>1, <2>2 DEF LeavesStore
  <2>4. ASSUME st'[2] = "none" PROVE Frozen'
    <3>1. p = 1 /\ st[2] = "none"
      BY <2>1, <2>2, <2>4
    <3>2. Frozen /\ (ChildStep(1) \/ Busy(1) \/ Broken(1))
      BY <1>1, <2>2, <3>1
    <3> QED BY <3>2, VictimStep
  <2> QED BY <2>3, <2>4
<1>2. CASE ParentStep
  <2>1. /\ UNCHANGED << cell, mine, flag, stuck, Child >> /\ outcome = "running" /\ Shaped'
        /\ \A p \in Child :
              \/ Same(p)
              \/ Stops(p) /\ ((Running(p) /\ st'[p] = "killed") \/ UNCHANGED st[p])
              \/ Started(p)
    BY <1>0, <1>2, ParentFrame DEF Child
  <2> SUFFICES ASSUME cell.name = "160" PROVE LeavesStore' /\ (st'[2] = "none" => Frozen')
    BY <2>1 DEF FreezeInv
  <2>2. /\ LeavesStore /\ (st[2] = "none" => Frozen) /\ Child = {1, 2}
        /\ PlainRun(cell) /\ Sequence(cell.lives[1])
    BY <1>0, PlainCell DEF FreezeInv
  <2>3. \A i \in DOMAIN script : script[i][1] \notin {"copy", "send"}
    BY <2>1, <2>2 DEF LeavesStore
  <2>4. Sequence(script)
    BY <2>1 DEF Orderly
  <2>5. outcome' = "running" => script' = script \/ (script # << >> /\ script' = Tail(script))
    BY <1>2, ParentCases
       DEF _spawn, Pops, Quits, SeeFlags, ReadLedger, SendMessage, SeeDone, CopyStore,
           MarkCrashed, StartRacers, Deadline, EarlyExit, ReadFlag, SeeRowStep, KillVictim,
           Collected, Timeout, WriteReceipt, GiveUp, Does
  <2>6. LeavesStore'
    <3>1. CASE script' = script
      BY <2>3, <3>1 DEF LeavesStore
    <3>2. CASE script # << >> /\ script' = Tail(script)
      <4>1. \A i \in DOMAIN Tail(script) : i + 1 \in DOMAIN script /\ Tail(script)[i] = script[i + 1]
        BY <2>4, <3>2, TailOf
      <4> QED BY <2>3, <3>2, <4>1 DEF LeavesStore
    <3> QED BY <2>5, <3>1, <3>2 DEF LeavesStore
  <2>7. durable' = durable
    <3>1. script # << >> => Head(script)[1] \notin {"copy", "send"}
      BY <2>3, <2>4, TailOf
    <3> QED BY <1>2, <3>1, ParentCases
       DEF _spawn, Pops, Quits, SeeFlags, ReadLedger, SendMessage, SeeDone, CopyStore,
           MarkCrashed, StartRacers, Deadline, EarlyExit, ReadFlag, SeeRowStep, KillVictim,
           Collected, Timeout, WriteReceipt, Does
  <2>8. ASSUME st'[2] = "none" PROVE Frozen'
    <3>1. st[2] = "none"
      BY <2>1, <2>2, <2>8 DEF Same, Started, Running
    <3>2. Frozen /\ RunSteps' = RunSteps
      BY <2>1, <2>2, <3>1 DEF RunSteps
    <3>3. todo'[1] \in {todo[1], << >>, cell.lives[1]} /\ queue'[1] \in {queue[1], << >>}
      BY <2>1, <2>2 DEF Same, Stops, Started
    <3>4. cell.lives[1] \in Seq(RunSteps)
      <4>1. Range(cell.lives[1]) \subseteq RunSteps
        BY <2>2 DEF PlainRun, RunSteps, Range
      <4>2. cell.lives[1] \in Seq(Range(cell.lives[1]))
        BY <2>2 DEF Sequence
      <4> QED BY <4>1, <4>2
    <3>5. todo'[1] \in Seq(RunSteps)
      <4>1. << >> \in Seq(RunSteps) /\ todo[1] \in Seq(RunSteps)
        BY <3>2 DEF Frozen
      <4> QED BY <3>3, <3>4, <4>1
    <3>6. Sequence(queue'[1])
      BY <3>2, <3>3, NothingLeft DEF Frozen, Well
    <3> QED BY <2>1, <2>7, <3>2, <3>5, <3>6 DEF Frozen
  <2> QED BY <2>6, <2>8
<1>3. CASE UNCHANGED rigVars
  BY <1>3 DEF rigVars, parent, FreezeInv, LeavesStore, Frozen, RunSteps
<1> QED BY <1>1, <1>2, <1>3 DEF RigNext

\* 160: from the moment the flag exists until the resume starts, the store has
\* exactly the first k operations of the victim, whatever it goes on to submit.
THEOREM FreezeExactHolds == RigSpec => []FreezeExact
<1>1. RigInit => TypeInv /\ Orderly /\ NobodyLeft /\ FreezeInv
  BY TypeInit, OrderlyInit, FreezeInit
<1>2. TypeInv /\ Orderly /\ NobodyLeft /\ FreezeInv /\ [RigNext]_rigVars
        => (TypeInv /\ Orderly /\ NobodyLeft /\ FreezeInv)'
  BY TypeStep, OrderlyStep, FreezeStep
<1>3. FreezeInv => FreezeExact
  BY DEF FreezeInv, FreezeExact, Frozen
<1> QED BY <1>1, <1>2, <1>3, PTL DEF RigSpec

-----------------------------------------------------------------------------
(* The ledger at the kill.                                                 *)

VictimKinds ==
  {"invoke", "effect", "park", "interrupt", "ready", "sleep", "op", "submit", "sync", "returned"}

Puts(step) == step[1] = "submit" /\ step[2][1] = "put"

\* What a victim has still to do: it has one invoke at most, and that comes first;
\* it sleeps when its flag is up.
VictimLeft(s) ==
  /\ Sequence(s)
  /\ \A i \in DOMAIN s :
       /\ s[i][1] \in VictimKinds
       /\ s[i][1] = "ready" => i + 1 \in DOMAIN s /\ s[i + 1][1] = "sleep"
       /\ s[i][1] = "invoke" =>
            i = 1 /\ s[i][2] = "input" /\ \A j \in DOMAIN s : j # 1 => s[j][1] \in {"ready", "sleep"}

\* It takes no effect any more.
Quiet(s) ==
  \/ s # << >> /\ s[1][1] = "sleep"
  \/ \A i \in DOMAIN s : s[i][1] \notin {"effect", "invoke"}

\* Before an effect a run hands over one put, and first of all.
PutFirst(s, q, done) ==
  \A j \in DOMAIN s : s[j][1] = "effect" =>
    /\ \A i \in DOMAIN s : i < j /\ Puts(s[i]) => i = 1 /\ done = << >> /\ q = << >>
    /\ \A m \in DOMAIN q : q[m][1] = "put" => m = 1 /\ done = << >>

Parks ==
  /\ \A p \in Child \ {1} : st[p] = "none"
  /\ st[1] = "none" => flag[1] = "absent" /\ mine[1] = << >>
  /\ VictimLeft(todo[1]) /\ Sequence(queue[1])
  /\ \A i \in DOMAIN todo[1] : todo[1][i][1] = "invoke" =>
       flag[1] = "absent" /\ mine[1] = << >> /\ queue[1] = << >>
  /\ flag[1] # "absent" => Quiet(todo[1])
  /\ cell.hook[1] = "seam" => PutFirst(todo[1], queue[1], mine[1])

\* The parent counts when the flag is up, and starts child 2 before the others.
CountsLate ==
  outcome = "running" =>
    \A i \in DOMAIN script :
      /\ script[i][1] = "count" =>
           \/ flag[1] # "absent"
           \/ \E m \in DOMAIN script : m < i /\ script[m][1] = "await" /\ 1 \in script[m][2]
      /\ script[i][1] = "spawn" /\ ~(script[i][2] \subseteq {1}) =>
           \E m \in DOMAIN script : m <= i /\ script[m][1] = "spawn" /\ 2 \in script[m][2]

KillInv ==
  cell.name \in VictimParks /\ st[2] = "none" =>
    /\ Parks /\ CountsLate
    /\ Sequence(readings) /\ (readings # << >> => flag[1] # "absent")
    /\ Len(readings) = 1 => ledger = readings[1]

\* What is left of it after r steps.
LEMMA LaterLeft ==
  ASSUME NEW s, NEW t, NEW r \in Nat, VictimLeft(s), Sequence(t),
         \A i \in DOMAIN t : r + i \in DOMAIN s /\ t[i] = s[r + i],
         \A i \in DOMAIN s : r < i => i - r \in DOMAIN t
  PROVE  /\ VictimLeft(t)
         /\ Quiet(s) /\ s[1][1] # "sleep" => Quiet(t)
         /\ (\E i \in DOMAIN t : t[i][1] = "invoke") => \E i \in DOMAIN s : s[i][1] = "invoke"
         /\ \A q, done : PutFirst(s, q, done) => PutFirst(t, q, done)
<1>1. DOMAIN t \subseteq Nat \ {0} /\ DOMAIN s \subseteq Nat \ {0}
  BY SequenceDomain DEF VictimLeft
<1>2. ASSUME NEW i \in DOMAIN t
      PROVE  /\ t[i][1] \in VictimKinds
             /\ t[i][1] = "ready" => i + 1 \in DOMAIN t /\ t[i + 1][1] = "sleep"
  <2>1. r + i \in DOMAIN s /\ t[i] = s[r + i]
    OBVIOUS
  <2>2. ASSUME t[i][1] = "ready" PROVE i + 1 \in DOMAIN t /\ t[i + 1][1] = "sleep"
    <3> DEFINE k == r + i + 1
    <3>1. k \in DOMAIN s /\ s[k][1] = "sleep"
      BY <2>1, <2>2 DEF VictimLeft
    <3>2. k - r = i + 1 /\ r < k /\ r + (i + 1) = k
      BY <1>1
    <3> HIDE DEF k
    <3>3. k - r \in DOMAIN t
      BY <3>1, <3>2
    <3>4. i + 1 \in DOMAIN t
      BY <3>2, <3>3
    <3>5. t[i + 1] = s[r + (i + 1)]
      BY <3>4
    <3> QED BY <3>1, <3>2, <3>4, <3>5
  <2> QED BY <2>1, <2>2 DEF VictimLeft
<1>3. ASSUME NEW i \in DOMAIN t, t[i][1] = "invoke"
      PROVE  /\ i = 1 /\ t[i][2] = "input" /\ r = 0
             /\ \A j \in DOMAIN t : j # 1 => t[j][1] \in {"ready", "sleep"}
  <2>1. r + i \in DOMAIN s /\ t[i] = s[r + i]
    OBVIOUS
  <2>2. r + i = 1 /\ s[r + i][2] = "input" /\ \A j \in DOMAIN s : j # 1 => s[j][1] \in {"ready", "sleep"}
    BY <1>3, <2>1 DEF VictimLeft
  <2>3. i = 1 /\ r = 0
    BY <1>1, <2>2
  <2>4. \A j \in DOMAIN t : 0 + j = j
    BY <1>1
  <2>5. \A j \in DOMAIN t : j \in DOMAIN s /\ t[j] = s[j]
    BY <2>3, <2>4
  <2> QED BY <2>1, <2>2, <2>3, <2>5
<1>4. VictimLeft(t)
  BY <1>2, <1>3 DEF VictimLeft
<1>5. ASSUME Quiet(s), s[1][1] # "sleep" PROVE Quiet(t)
  BY <1>5 DEF Quiet
<1>6. ASSUME NEW q, NEW done, PutFirst(s, q, done) PROVE PutFirst(t, q, done)
  <2> SUFFICES ASSUME NEW j \in DOMAIN t, t[j][1] = "effect"
               PROVE  /\ \A i \in DOMAIN t : i < j /\ Puts(t[i]) => i = 1 /\ done = << >> /\ q = << >>
                      /\ \A m \in DOMAIN q : q[m][1] = "put" => m = 1 /\ done = << >>
    BY DEF PutFirst
  <2>1. r + j \in DOMAIN s /\ s[r + j][1] = "effect"
    OBVIOUS
  <2>2. ASSUME NEW i \in DOMAIN t, i < j, Puts(t[i]) PROVE i = 1 /\ done = << >> /\ q = << >>
    <3>1. r + i \in DOMAIN s /\ r + i < r + j /\ Puts(s[r + i])
      BY <1>1, <2>2
    <3>2. r + i = 1 /\ done = << >> /\ q = << >>
      BY <1>6, <2>1, <3>1 DEF PutFirst
    <3> QED BY <1>1, <3>2
  <2> QED BY <1>6, <2>1, <2>2 DEF PutFirst
<1> QED BY <1>4, <1>5, <1>6

LEMMA FlattenNodes ==
  ASSUME NEW S, NEW K \in Nat, NEW ss \in [1 .. K -> Seq(S)] PROVE FlattenSeq(ss) \in Seq(S)
<1> DEFINE T == Seq(S)
<1>1. << >> \in T /\ \A a, b \in T : a \o b \in T
  OBVIOUS
<1> HIDE DEF T
<1>2. ss \in Seq(T)
  BY DEF T
<1> QED BY <1>1, <1>2, FlattenIn DEF T

\* The steps of a victim's invoke, but for the puts it hands over.
InvokeSteps ==
  {Op(<< "snap" >>), Sync, Returned}
    \cup (UNION {Range(cell.nodes[1][n]) : n \in DOMAIN cell.nodes[1]})
    \cup {Op(o) : o \in {"write", "put", "running"} \X (0 .. Len(cell.nodes[1]))}
    \cup {Submit(<< "write", n >>) : n \in 0 .. Len(cell.nodes[1])}

LEMMA VictimCell ==
  ASSUME cell \in Experiments, cell.name \in VictimParks
  PROVE  /\ Victim(cell) /\ 1 \in Child /\ 2 \in Child /\ Sequence(cell.lives[1])
         /\ Sequence(cell.nodes[1]) /\ \A n \in DOMAIN cell.nodes[1] : Sequence(cell.nodes[1][n])
         /\ Sequence(cell.script)
<1>1. Programs(cell) /\ Victim(cell)
  BY ExperimentAssumption
<1> QED BY <1>1 DEF Programs, Victim, Child

LEMMA InvokeStepKinds ==
  ASSUME cell \in Experiments, cell.name \in VictimParks, NEW x \in InvokeSteps
  PROVE  x[1] \in VictimKinds \ {"ready", "invoke", "sleep"} /\ ~Puts(x)
<1>1. CASE x \in {Op(<< "snap" >>), Sync, Returned}
  BY <1>1 DEF Op, Sync, Returned, VictimKinds, Puts
<1>2. CASE \E n \in DOMAIN cell.nodes[1] : x \in Range(cell.nodes[1][n])
  <2>1. PICK n \in DOMAIN cell.nodes[1] : \E i \in DOMAIN cell.nodes[1][n] : x = cell.nodes[1][n][i]
    BY <1>2 DEF Range
  <2>2. x[1] \in {"effect", "park", "interrupt"}
    BY <2>1, VictimCell DEF Victim
  <2> QED BY <2>2 DEF VictimKinds, Puts
<1>3. CASE x \in {Op(o) : o \in {"write", "put", "running"} \X (0 .. Len(cell.nodes[1]))}
  BY <1>3 DEF Op, VictimKinds, Puts
<1>4. CASE x \in {Submit(<< "write", n >>) : n \in 0 .. Len(cell.nodes[1])}
  BY <1>4 DEF Submit, VictimKinds, Puts
<1> QED BY <1>1, <1>2, <1>3, <1>4 DEF InvokeSteps

\* The invoke of a victim raises no flag of its own, and on the functional engine
\* it hands over one put before its last effect, the first thing it does.
LEMMA VictimPlan ==
  ASSUME cell \in Experiments, cell.name \in VictimParks, NEW s, s = Plan(1, "input")
  PROVE  /\ Sequence(s)
         /\ \A i \in DOMAIN s : s[i][1] \in VictimKinds \ {"ready", "invoke", "sleep"}
         /\ cell.hook[1] = "seam" =>
              \A j \in DOMAIN s : s[j][1] = "effect" =>
                \A i \in DOMAIN s : i < j /\ Puts(s[i]) => i = 1
<1> DEFINE nodes == cell.nodes[1]
           S == InvokeSteps
           K == Len(nodes)
<1>1. /\ Victim(cell) /\ Sequence(nodes) /\ \A n \in DOMAIN nodes : Sequence(nodes[n])
      /\ K \in Nat /\ DOMAIN nodes = 1 .. K /\ 1 \in DOMAIN nodes
  BY VictimCell, SequenceDomain, TailOf DEF Victim
<1>2. ASSUME NEW n \in 0 .. K
      PROVE  /\ Op(<< "write", n >>) \in S /\ Op(<< "put", n >>) \in S /\ Op(<< "running", n >>) \in S
             /\ Submit(<< "write", n >>) \in S
  <2> DEFINE O == {"write", "put", "running"} \X (0 .. K)
  <2>1. << "write", n >> \in O /\ << "put", n >> \in O /\ << "running", n >> \in O
    OBVIOUS
  <2> QED BY <2>1 DEF InvokeSteps
<1>3. \A n \in DOMAIN nodes : nodes[n] \in Seq(S)
  <2>1. \A n \in DOMAIN nodes : Range(nodes[n]) \subseteq S
    BY DEF InvokeSteps
  <2> SUFFICES ASSUME NEW n \in DOMAIN nodes PROVE nodes[n] \in Seq(S)
    OBVIOUS
  <2>2. nodes[n] \in Seq(Range(nodes[n])) /\ Range(nodes[n]) \subseteq S
    BY <1>1, <2>1 DEF Sequence
  <2> QED BY <2>2
<1>4. Sync \in S /\ Returned \in S /\ Op(<< "snap" >>) \in S
  BY DEF InvokeSteps
<1>5. \A x \in S : x[1] \in VictimKinds \ {"ready", "invoke", "sleep"} /\ ~Puts(x)
  BY InvokeStepKinds
<1> HIDE DEF S
<1>6. ASSUME NEW a \in S, NEW b \in S, NEW u \in Seq(S)
      PROVE  u \o << a >> \in Seq(S) /\ u \o << a, b >> \in Seq(S) /\ << a >> \o u \o << b >> \in Seq(S)
  OBVIOUS
<1>7. \A n \in 1 .. K : n + 1 - 1 = n /\ n \in 0 .. K
  OBVIOUS
<1>8. Tasks(nodes, 1) \in Seq(S)
  <2> DEFINE ss == [n \in 1 .. K - 1 + 1 |-> nodes[n + 1 - 1] \o << Submit(<< "write", n + 1 - 1 >>) >>]
  <2>1. ASSUME NEW n \in 1 .. K PROVE nodes[n] \o << Submit(<< "write", n >>) >> \in Seq(S)
    <3>1. Submit(<< "write", n >>) \in S /\ nodes[n] \in Seq(S)
      BY <1>1, <1>2, <1>3, <1>7
    <3> QED BY <1>6, <3>1
  <2>2. ss = [n \in 1 .. K |-> nodes[n] \o << Submit(<< "write", n >>) >>]
    BY <1>1
  <2>3. ss \in [1 .. K -> Seq(S)]
    BY <2>1, <2>2
  <2> HIDE DEF ss
  <2>4. FlattenSeq(ss) \in Seq(S)
    BY <1>1, <2>3, FlattenNodes
  <2> QED BY <2>4 DEF Tasks, Walk, ss
<1>9. GraphNodes(nodes, 1) \in Seq(S)
  <2> DEFINE ss == [n \in 1 .. K - 1 + 1 |->
                      nodes[n + 1 - 1] \o << Op(<< "write", n + 1 - 1 >>), Op(<< "put", n + 1 - 1 >>) >>]
  <2>1. ASSUME NEW n \in 1 .. K
        PROVE  nodes[n] \o << Op(<< "write", n >>), Op(<< "put", n >>) >> \in Seq(S)
    <3>1. Op(<< "write", n >>) \in S /\ Op(<< "put", n >>) \in S /\ nodes[n] \in Seq(S)
      BY <1>1, <1>2, <1>3, <1>7
    <3> QED BY <1>6, <3>1
  <2>2. ss = [n \in 1 .. K |-> nodes[n] \o << Op(<< "write", n >>), Op(<< "put", n >>) >>]
    BY <1>1
  <2>3. ss \in [1 .. K -> Seq(S)]
    BY <2>1, <2>2
  <2> HIDE DEF ss
  <2>4. FlattenSeq(ss) \in Seq(S)
    BY <1>1, <2>3, FlattenNodes
  <2> QED BY <2>4 DEF GraphNodes, Walk, ss
<1>10. Snapshots(nodes, 1) \in Seq(S)
  <2> DEFINE ss == [n \in 1 .. K - 1 + 1 |->
                      << Op(<< "running", n + 1 - 1 >>) >> \o nodes[n + 1 - 1]
                        \o << Op(<< "write", n + 1 - 1 >>) >>]
  <2>1. ASSUME NEW n \in 1 .. K
        PROVE  << Op(<< "running", n >>) >> \o nodes[n] \o << Op(<< "write", n >>) >> \in Seq(S)
    <3>1. Op(<< "write", n >>) \in S /\ Op(<< "running", n >>) \in S /\ nodes[n] \in Seq(S)
      BY <1>1, <1>2, <1>3, <1>7
    <3> QED BY <1>6, <3>1
  <2>2. ss = [n \in 1 .. K |-> << Op(<< "running", n >>) >> \o nodes[n] \o << Op(<< "write", n >>) >>]
    BY <1>1
  <2>3. ss \in [1 .. K -> Seq(S)]
    BY <2>1, <2>2
  <2> HIDE DEF ss
  <2>4. FlattenSeq(ss) \in Seq(S)
    BY <1>1, <2>3, FlattenNodes
  <2> QED BY <2>4 DEF Snapshots, ss
<1>11. CASE cell.engine # "functional"
  <2>1. cell.hook[1] # "seam" /\ cell.engine \in {"graph", "context", "snapshots"}
    BY <1>1, <1>11 DEF Victim
  <2>2. 0 \in 0 .. K
    BY <1>1
  <2>3. s \in Seq(S)
    <3>1. CASE cell.engine = "graph"
      <4>1. s = << Op(<< "put", 0 >>) >> \o GraphNodes(nodes, 1) \o << Returned >>
        BY <3>1 DEF Plan, graph
      <4>2. Op(<< "put", 0 >>) \in S
        BY <1>2, <2>2
      <4> QED BY <1>4, <1>6, <1>9, <4>1, <4>2
    <3>2. CASE cell.engine = "context"
      <4>1. s = nodes[1] \o << Op(<< "snap" >>), Returned >>
        BY <3>2 DEF Plan, context
      <4> QED BY <1>1, <1>3, <1>4, <1>6, <4>1
    <3>3. CASE cell.engine = "snapshots"
      <4>1. s = Snapshots(nodes, 1) \o << Returned >>
        <5>1. Plan(1, "input") = snapshots(nodes, "input", durable[Thread(1)])
          BY <3>3 DEF Plan
        <5>2. snapshots(nodes, "input", durable[Thread(1)]) = Snapshots(nodes, 1) \o << Returned >>
          BY DEF snapshots
        <5> QED BY <5>1, <5>2
      <4> QED BY <1>4, <1>6, <1>10, <4>1
    <3> QED BY <2>1, <3>1, <3>2, <3>3
  <2>4. \A i \in DOMAIN s : s[i] \in S
    BY <2>3
  <2> QED BY <1>5, <2>1, <2>3, <2>4, SequenceOf
<1>12. CASE cell.engine = "functional"
  <2> DEFINE x == Submit(<< "put", 0 >>)
             y == Submit(<< "write", 0 >>)
             z == Submit(<< "put", K >>)
             C == Tasks(nodes, 1)
             L == Len(C)
             t == (<< x >> \o C) \o << y, z, Sync, Returned >>
  <2>1. s = t
    BY <1>12 DEF Plan, functional
  <2>2. x[1] = "submit" /\ y[1] = "submit" /\ z[1] = "submit" /\ Sync[1] = "sync" /\ Returned[1] = "returned"
    BY DEF Submit, Sync, Returned
  <2>3. C \in Seq(S) /\ L \in Nat /\ \A i \in 1 .. L : C[i] \in S
    BY <1>8
  <2> HIDE DEF x, y, z, C
  <2>4. s \in Seq(S \cup {x, y, z, Sync, Returned})
    <3> DEFINE U == S \cup {x, y, z, Sync, Returned}
    <3>1. << x >> \in Seq(U) /\ C \in Seq(U) /\ << y, z, Sync, Returned >> \in Seq(U)
      BY <2>3
    <3> HIDE DEF U
    <3>2. t \in Seq(U)
      BY <3>1
    <3> QED BY <2>1, <3>2 DEF U
  <2>5. /\ DOMAIN s = 1 .. L + 5 /\ s[1] = x
        /\ \A i \in 1 .. L : s[i + 1] = C[i]
        /\ s[L + 2] = y /\ s[L + 3] = z /\ s[L + 4] = Sync /\ s[L + 5] = Returned
    <3>1. /\ DOMAIN t = 1 .. L + 5 /\ t[1] = x
          /\ \A i \in 1 .. L : t[i + 1] = C[i]
          /\ t[L + 2] = y /\ t[L + 3] = z /\ t[L + 4] = Sync /\ t[L + 5] = Returned
      BY <2>3
    <3> QED BY <2>1, <3>1
  <2>6. ASSUME NEW i \in DOMAIN s
        PROVE  \/ i = 1 /\ s[i] = x
               \/ i - 1 \in 1 .. L /\ s[i] \in S
               \/ i > L + 1 /\ s[i] \in {y, z, Sync, Returned}
    <3>1. i = 1 \/ i - 1 \in 1 .. L \/ i \in {L + 2, L + 3, L + 4, L + 5}
      BY <2>3, <2>5
    <3>2. ASSUME i - 1 \in 1 .. L PROVE s[i] \in S
      <4>1. i - 1 + 1 = i
        BY <2>5
      <4>2. s[i] = C[i - 1]
        BY <2>5, <3>2, <4>1
      <4> QED BY <2>3, <3>2, <4>2
    <3> QED BY <2>3, <2>5, <3>1, <3>2
  <2>7. \A i \in DOMAIN s : s[i][1] \in VictimKinds \ {"ready", "invoke", "sleep"}
    BY <1>5, <2>2, <2>6 DEF VictimKinds
  <2>8. ASSUME NEW j \in DOMAIN s, s[j][1] = "effect", NEW i \in DOMAIN s, i < j, Puts(s[i])
        PROVE  i = 1
    <3>1. j - 1 \in 1 .. L
      BY <2>2, <2>6, <2>8
    <3>2. ~(i > L + 1)
      BY <2>3, <2>5, <2>8, <3>1
    <3> QED BY <1>5, <2>6, <2>8, <3>2
  <2> QED BY <2>4, <2>7, <2>8, SequenceOf
<1> QED BY <1>11, <1>12

LEMMA LedgerCases ==
  ASSUME NEW p, ChildStep(p) \/ Busy(p) \/ Broken(p)
  PROVE  ledger' = ledger \/ TakeEffect(p)
  BY ChildCases
     DEF Steps, Ends, Goes, _invoke, OpenFlag, ParkHere, SeeStart, CrashHere, Receive,
         Continue, Join, Ask, Busy, Fail, InvokeReturns, _die, Exit, Broken, FillFlag, Write,
         Enqueue, Flush, ParkInSaver, claim

\* A victim parks once, and takes no effect after that.
LEMMA ParksStep ==
  ASSUME TypeInv, cell.name \in VictimParks, Parks, ChildStep(1) \/ Busy(1) \/ Broken(1)
  PROVE  Parks'
<1>0. /\ Shaped /\ Shaped' /\ cell \in Experiments /\ UNCHANGED << cell, Child >> /\ Victim(cell)
      /\ 1 \in Child /\ 2 \in Child /\ st'[1] # "none"
      /\ \A q \in Child \ {1} : st'[q] = st[q]
      /\ cell.hook[1] \in {"none", "seam"} /\ (cell.hook[1] = "seam" => cell.engine = "functional")
  BY ChildFrame, VictimCell DEF TypeInv, Child, Stops, Same, Victim
<1>1. /\ VictimLeft(todo[1]) /\ Sequence(queue[1]) /\ Sequence(todo[1])
      /\ \A q \in Child \ {1} : st'[q] = "none"
      /\ \A i \in DOMAIN todo[1] : todo[1][i][1] = "invoke" =>
           flag[1] = "absent" /\ mine[1] = << >> /\ queue[1] = << >>
      /\ flag[1] # "absent" => Quiet(todo[1])
      /\ cell.hook[1] = "seam" => PutFirst(todo[1], queue[1], mine[1])
      /\ DOMAIN todo[1] = 1 .. Len(todo[1]) /\ Len(todo[1]) \in Nat
  BY <1>0, SequenceDomain DEF Parks, VictimLeft
<1> USE DEF child, engine, files
\* What has to be shown.
<1>2. ASSUME VictimLeft(todo'[1]), Sequence(queue'[1]),
             \A i \in DOMAIN todo'[1] : todo'[1][i][1] = "invoke" =>
               flag'[1] = "absent" /\ mine'[1] = << >> /\ queue'[1] = << >>,
             flag'[1] # "absent" => Quiet(todo'[1]),
             cell.hook[1] = "seam" => PutFirst(todo'[1], queue'[1], mine'[1])
      PROVE  Parks'
  BY <1>0, <1>1, <1>2 DEF Parks
<1>3. ASSUME NEW k, At(1, k)
      PROVE  /\ k \in VictimKinds /\ todo[1] # << >> /\ 1 \in DOMAIN todo[1]
             /\ Head(todo[1]) = todo[1][1] /\ todo[1][1][1] = k
  <2>1. todo[1] # << >> /\ Head(todo[1])[1] = k
    BY <1>3 DEF At
  <2>2. 1 \in DOMAIN todo[1] /\ Head(todo[1]) = todo[1][1]
    BY <1>1, <2>1, TailOf
  <2> QED BY <1>1, <2>1, <2>2 DEF VictimLeft
\* The first steps are dropped, and nothing else changes.
<1>4. ASSUME NEW r \in Nat, Sequence(todo'[1]),
             \A i \in DOMAIN todo'[1] : r + i \in DOMAIN todo[1] /\ todo'[1][i] = todo[1][r + i],
             \A i \in DOMAIN todo[1] : r < i => i - r \in DOMAIN todo'[1],
             todo[1][1][1] # "sleep"
      PROVE  /\ VictimLeft(todo'[1])
             /\ Quiet(todo[1]) => Quiet(todo'[1])
             /\ (\E i \in DOMAIN todo'[1] : todo'[1][i][1] = "invoke") =>
                  \E i \in DOMAIN todo[1] : todo[1][i][1] = "invoke"
             /\ \A q, done : PutFirst(todo[1], q, done) => PutFirst(todo'[1], q, done)
  BY <1>1, <1>4, LaterLeft
<1>5. ASSUME todo[1] # << >>, todo[1][1][1] # "sleep", todo'[1] = Tail(todo[1])
      PROVE  /\ VictimLeft(todo'[1])
             /\ Quiet(todo[1]) => Quiet(todo'[1])
             /\ (\E i \in DOMAIN todo'[1] : todo'[1][i][1] = "invoke") =>
                  \E i \in DOMAIN todo[1] : todo[1][i][1] = "invoke"
             /\ \A q, done : PutFirst(todo[1], q, done) => PutFirst(todo'[1], q, done)
             /\ \A i \in DOMAIN todo'[1] : i + 1 \in DOMAIN todo[1] /\ todo'[1][i] = todo[1][i + 1]
  <2>1. /\ Sequence(Tail(todo[1])) /\ DOMAIN Tail(todo[1]) = 1 .. Len(todo[1]) - 1
        /\ \A i \in DOMAIN Tail(todo[1]) : Tail(todo[1])[i] = todo[1][i + 1]
    BY <1>1, <1>5, TailOf
  <2>2. \A i \in DOMAIN todo'[1] : 1 + i \in DOMAIN todo[1] /\ 1 + i = i + 1
    BY <1>1, <1>5, <2>1
  <2>3. \A i \in DOMAIN todo[1] : 1 < i => i - 1 \in DOMAIN todo'[1]
    BY <1>1, <1>5, <2>1
  <2>4. \A i \in DOMAIN todo'[1] : 1 + i \in DOMAIN todo[1] /\ todo'[1][i] = todo[1][1 + i]
    BY <1>5, <2>1, <2>2
  <2>5. 1 \in Nat
    OBVIOUS
  <2> QED BY <1>4, <1>5, <2>1, <2>2, <2>3, <2>4, <2>5
<1>6. ASSUME todo[1] # << >>, todo[1][1][1] # "sleep", todo'[1] = Tail(todo[1]),
             UNCHANGED << flag, mine, queue >>
      PROVE  Parks'
  BY <1>1, <1>2, <1>5, <1>6
<1>7. ASSUME todo[1] # << >> PROVE << >> \o Tail(todo[1]) = Tail(todo[1])
  <2> DEFINE u == Tail(todo[1])
  <2>1. u \in Seq(Range(u))
    BY <1>1, <1>7, TailOf DEF Sequence
  <2> HIDE DEF u
  <2>2. << >> \o u = u
    BY <2>1
  <2> QED BY <2>2 DEF u
<1>8. CASE TakeEffect(1) \/ Join(1)
  <2>1. /\ \E k \in {"effect", "sync"} : At(1, k)
        /\ todo'[1] = << >> \o Tail(todo[1]) /\ UNCHANGED << flag, mine, queue >>
    BY <1>0, <1>8 DEF TakeEffect, Join, Then, Shaped
  <2>2. todo[1] # << >> /\ todo[1][1][1] # "sleep"
    BY <1>3, <2>1
  <2> QED BY <1>6, <1>7, <2>1, <2>2
<1>9. CASE OpenFlag(1)
  <2>1. /\ At(1, "ready") /\ todo'[1] = << >> \o Tail(todo[1])
        /\ UNCHANGED << mine, queue >>
    BY <1>0, <1>9 DEF OpenFlag, Then, Shaped
  <2>2. todo[1] # << >> /\ 1 \in DOMAIN todo[1] /\ todo[1][1][1] = "ready" /\ todo'[1] = Tail(todo[1])
    BY <1>3, <1>7, <2>1
  <2>3. 2 \in DOMAIN todo[1] /\ todo[1][2][1] = "sleep"
    BY <2>2, <1>1 DEF VictimLeft
  <2>4. 1 \in DOMAIN todo'[1] /\ todo'[1][1][1] = "sleep"
    <3>1. /\ DOMAIN Tail(todo[1]) = 1 .. Len(todo[1]) - 1
          /\ \A i \in DOMAIN Tail(todo[1]) : Tail(todo[1])[i] = todo[1][i + 1]
      BY <1>1, <2>2, TailOf
    <3>2. 1 \in DOMAIN Tail(todo[1])
      BY <1>1, <2>3, <3>1
    <3> QED BY <2>2, <2>3, <3>1, <3>2
  <2>5. Quiet(todo'[1])
    BY <2>4 DEF Quiet
  <2>6. \A i \in DOMAIN todo'[1] : todo'[1][i][1] # "invoke"
    <3>1. \A i \in DOMAIN todo'[1] : i + 1 \in DOMAIN todo[1] /\ todo'[1][i] = todo[1][i + 1]
                                     /\ i + 1 # 1
      <4>1. \A i \in DOMAIN todo'[1] : i + 1 \in DOMAIN todo[1] /\ todo'[1][i] = todo[1][i + 1]
        BY <1>5, <2>2
      <4>2. DOMAIN todo'[1] \subseteq Nat \ {0}
        BY <1>1, <2>2, TailOf
      <4> QED BY <4>1, <4>2
    <3> QED BY <3>1, <1>1 DEF VictimLeft
  <2> QED BY <1>1, <1>2, <1>5, <2>1, <2>2, <2>5, <2>6
<1>10. CASE ParkHere(1)
  <2>1. /\ At(1, "park") /\ UNCHANGED << flag, mine, queue >>
        /\ \/ todo'[1] = << >> \o Tail(todo[1])
           \/ todo'[1] = << Ready, Sleep >> \o Tail(todo[1])
    BY <1>0, <1>10 DEF ParkHere, Then, Shaped
  <2>2. todo[1] # << >> /\ 1 \in DOMAIN todo[1] /\ todo[1][1][1] = "park"
    BY <1>3, <2>1
  <2>3. CASE todo'[1] = << >> \o Tail(todo[1])
    BY <1>6, <1>7, <2>1, <2>2, <2>3
  <2>4. CASE todo'[1] = << Ready, Sleep >> \o Tail(todo[1])
    <3> DEFINE t == todo'[1]
               s == todo[1]
               n == Len(s)
    <3>1. /\ Sequence(Tail(s)) /\ DOMAIN Tail(s) = 1 .. n - 1
          /\ \A i \in DOMAIN Tail(s) : Tail(s)[i] = s[i + 1]
      BY <1>1, <2>2, TailOf
    <3>2. Sequence(<< Ready, Sleep >>)
      BY PutInFront DEF Well
    <3>3. /\ Sequence(t) /\ DOMAIN t = 1 .. n + 1 /\ t[1] = Ready /\ t[2] = Sleep
          /\ \A i \in DOMAIN Tail(s) : t[2 + i] = Tail(s)[i]
      <4> DEFINE a == << Ready, Sleep >>
      <4>1. Len(a) = 2 /\ a[1] = Ready /\ a[2] = Sleep /\ 1 \in DOMAIN a /\ 2 \in DOMAIN a
        OBVIOUS
      <4>2. Len(Tail(s)) = n - 1
        BY <1>1, <2>2, TailOf
      <4> HIDE DEF a
      <4>3. /\ Sequence(a \o Tail(s)) /\ DOMAIN (a \o Tail(s)) = 1 .. Len(a) + Len(Tail(s))
            /\ \A i \in DOMAIN a : (a \o Tail(s))[i] = a[i]
            /\ \A i \in DOMAIN Tail(s) : (a \o Tail(s))[Len(a) + i] = Tail(s)[i]
        BY <3>1, <3>2, JoinOf DEF a
      <4>4. 2 + (n - 1) = n + 1
        BY <1>1
      <4> QED BY <2>4, <4>1, <4>2, <4>3, <4>4 DEF a
    <3> HIDE DEF t
    <3>4. ASSUME NEW i \in DOMAIN t
          PROVE  \/ i = 1 /\ t[i] = Ready
                 \/ i = 2 /\ t[i] = Sleep
                 \/ i > 2 /\ i - 1 \in DOMAIN s /\ t[i] = s[i - 1]
      <4>1. ASSUME i > 2 PROVE i - 1 \in DOMAIN s /\ t[i] = s[i - 1]
        <5>1. i - 2 \in DOMAIN Tail(s) /\ 2 + (i - 2) = i /\ (i - 2) + 1 = i - 1 /\ i - 1 \in DOMAIN s
          BY <1>1, <3>1, <3>3, <4>1
        <5> QED BY <3>1, <3>3, <5>1
      <4> QED BY <1>1, <3>3, <4>1
    <3>12. ASSUME NEW k \in DOMAIN s, k > 1 PROVE k + 1 \in DOMAIN t /\ t[k + 1] = s[k]
      <4>1. k - 1 \in DOMAIN Tail(s) /\ 2 + (k - 1) = k + 1 /\ (k - 1) + 1 = k /\ k + 1 \in DOMAIN t
        BY <1>1, <3>1, <3>3, <3>12
      <4>2. t[2 + (k - 1)] = s[(k - 1) + 1]
        BY <3>1, <3>3, <4>1
      <4> QED BY <4>1, <4>2
    <3>5. Ready[1] = "ready" /\ Sleep[1] = "sleep"
      BY DEF Ready, Sleep
    <3>6. \A i \in DOMAIN s : i = 1 => s[i][1] = "park"
      BY <2>2
    <3>7. \A i \in DOMAIN t : t[i][1] # "invoke"
      <4> SUFFICES ASSUME NEW i \in DOMAIN t, t[i][1] = "invoke" PROVE FALSE
        OBVIOUS
      <4>1. i > 2 /\ i - 1 \in DOMAIN s /\ s[i - 1][1] = "invoke"
        BY <3>4, <3>5
      <4>2. i - 1 = 1
        BY <1>1, <4>1 DEF VictimLeft
      <4> QED BY <3>3, <4>1, <4>2
    <3>8. ASSUME NEW i \in DOMAIN t
          PROVE  /\ t[i][1] \in VictimKinds
                 /\ t[i][1] = "ready" => i + 1 \in DOMAIN t /\ t[i + 1][1] = "sleep"
      <4>1. CASE i = 1
        BY <1>1, <2>2, <3>3, <3>5, <4>1 DEF VictimKinds
      <4>2. CASE i = 2
        BY <3>3, <3>5, <4>2 DEF VictimKinds
      <4>3. CASE i > 2
        <5>1. i - 1 \in DOMAIN s /\ t[i] = s[i - 1]
          BY <3>4, <4>3
        <5>2. s[i - 1][1] \in VictimKinds /\
              (s[i - 1][1] = "ready" => i - 1 + 1 \in DOMAIN s /\ s[i - 1 + 1][1] = "sleep")
          BY <1>1, <5>1 DEF VictimLeft
        <5>3. i - 1 + 1 = i /\ i > 1
          BY <3>3, <4>3
        <5>4. i \in DOMAIN s => i + 1 \in DOMAIN t /\ t[i + 1] = s[i]
          BY <3>12, <5>3
        <5> QED BY <5>1, <5>2, <5>3, <5>4
      <4> QED BY <1>1, <3>3, <4>1, <4>2, <4>3
    <3>9. VictimLeft(t)
      BY <3>3, <3>7, <3>8 DEF VictimLeft
    <3>10. Quiet(s) => Quiet(t)
      BY <2>2, <3>4, <3>5 DEF Quiet
    <3>11. ASSUME PutFirst(s, queue[1], mine[1]) PROVE PutFirst(t, queue[1], mine[1])
      <4> SUFFICES ASSUME NEW j \in DOMAIN t, t[j][1] = "effect"
                   PROVE  /\ \A i \in DOMAIN t : i < j /\ Puts(t[i]) =>
                                i = 1 /\ mine[1] = << >> /\ queue[1] = << >>
                          /\ \A m \in DOMAIN queue[1] :
                               queue[1][m][1] = "put" => m = 1 /\ mine[1] = << >>
        BY DEF PutFirst
      <4>1. j > 2 /\ j - 1 \in DOMAIN s /\ s[j - 1][1] = "effect"
        BY <3>4, <3>5
      <4>2. ASSUME NEW i \in DOMAIN t, i < j, Puts(t[i]) PROVE FALSE
        <5>1. i > 2 /\ i - 1 \in DOMAIN s /\ Puts(s[i - 1]) /\ i - 1 < j - 1
          BY <3>3, <3>4, <3>5, <4>1, <4>2 DEF Puts
        <5>2. i - 1 = 1
          BY <3>11, <4>1, <5>1 DEF PutFirst
        <5> QED BY <3>3, <5>1, <5>2
      <4> QED BY <3>11, <4>1, <4>2 DEF PutFirst
    <3> QED BY <1>1, <1>2, <2>1, <3>7, <3>9, <3>10, <3>11 DEF t
  <2> QED BY <2>1, <2>3, <2>4
<1>11. CASE _invoke(1)
  <2>1. /\ At(1, "invoke") /\ UNCHANGED << flag, mine, queue >>
        /\ todo'[1] = Plan(1, Arg(1)) \o Tail(todo[1])
    BY <1>0, <1>11 DEF _invoke, Then, Shaped
  <2>2. /\ todo[1] # << >> /\ 1 \in DOMAIN todo[1] /\ Head(todo[1]) = todo[1][1]
        /\ todo[1][1][1] = "invoke"
    BY <1>3, <2>1
  <2>3. /\ flag[1] = "absent" /\ mine[1] = << >> /\ queue[1] = << >> /\ Arg(1) = "input"
        /\ \A j \in DOMAIN todo[1] : j # 1 => todo[1][j][1] \in {"ready", "sleep"}
    BY <1>1, <2>2 DEF VictimLeft, Arg
  <2> DEFINE a == Plan(1, "input")
             b == Tail(todo[1])
             t == a \o b
  <2>4. /\ Sequence(a)
        /\ \A i \in DOMAIN a : a[i][1] \in VictimKinds \ {"ready", "invoke", "sleep"}
        /\ cell.hook[1] = "seam" =>
             \A j \in DOMAIN a : a[j][1] = "effect" =>
               \A i \in DOMAIN a : i < j /\ Puts(a[i]) => i = 1
    BY <1>0, VictimPlan
  <2>5. /\ Sequence(b) /\ VictimLeft(b) /\ \A i \in DOMAIN b : b[i][1] \in {"ready", "sleep"}
    <3>1. /\ Sequence(b) /\ DOMAIN b = 1 .. Len(todo[1]) - 1
          /\ \A i \in DOMAIN b : b[i] = todo[1][i + 1]
      BY <1>1, <2>2, TailOf
    <3> HIDE DEF b
    <3>2. \A i \in DOMAIN b : 1 + i = i + 1 /\ 1 + i \in DOMAIN todo[1] /\ i + 1 # 1
      BY <1>1, <3>1
    <3>3. \A i \in DOMAIN todo[1] : 1 < i => i - 1 \in DOMAIN b
      BY <1>1, <3>1
    <3>4. \A i \in DOMAIN b : 1 + i \in DOMAIN todo[1] /\ b[i] = todo[1][1 + i]
      BY <3>1, <3>2
    <3>5. 1 \in Nat
      OBVIOUS
    <3>6. VictimLeft(b)
      BY <1>1, <3>1, <3>3, <3>4, <3>5, LaterLeft
    <3> QED BY <2>3, <3>1, <3>2, <3>6
  <2> HIDE DEF a, b
  <2>6. /\ Sequence(t) /\ Len(a) \in Nat /\ Len(b) \in Nat
        /\ DOMAIN a = 1 .. Len(a) /\ DOMAIN b = 1 .. Len(b) /\ DOMAIN t = 1 .. Len(a) + Len(b)
        /\ \A i \in DOMAIN a : t[i] = a[i]
        /\ \A i \in DOMAIN b : t[Len(a) + i] = b[i]
    BY <2>4, <2>5, JoinOf
  <2> HIDE DEF t
  <2>7. ASSUME NEW i \in DOMAIN t
        PROVE  \/ i \in DOMAIN a /\ t[i] = a[i]
               \/ /\ i - Len(a) \in DOMAIN b /\ Len(a) + (i - Len(a)) = i
                  /\ i > Len(a) /\ t[i] = b[i - Len(a)]
    <3>1. CASE i \in DOMAIN a
      BY <2>6, <3>1
    <3>2. CASE i \notin DOMAIN a
      <4>1. i - Len(a) \in DOMAIN b /\ Len(a) + (i - Len(a)) = i /\ i > Len(a)
        BY <2>6, <3>2
      <4> QED BY <2>6, <4>1
    <3> QED BY <3>1, <3>2
  <2>8. \A i \in DOMAIN t : t[i][1] # "invoke"
    BY <2>4, <2>5, <2>7
  <2>9. ASSUME NEW i \in DOMAIN t
        PROVE  /\ t[i][1] \in VictimKinds
               /\ t[i][1] = "ready" => i + 1 \in DOMAIN t /\ t[i + 1][1] = "sleep"
    <3>1. CASE i \in DOMAIN a /\ t[i] = a[i]
      BY <2>4, <3>1
    <3>2. CASE i - Len(a) \in DOMAIN b /\ Len(a) + (i - Len(a)) = i /\ t[i] = b[i - Len(a)]
      <4> DEFINE k == i - Len(a)
      <4>1. b[k][1] \in VictimKinds
            /\ (b[k][1] = "ready" => k + 1 \in DOMAIN b /\ b[k + 1][1] = "sleep")
        BY <2>5, <3>2 DEF VictimLeft
      <4>2. k + 1 \in DOMAIN b => Len(a) + (k + 1) = i + 1 /\ i + 1 \in DOMAIN t
        BY <2>6
      <4>3. k + 1 \in DOMAIN b => t[i + 1] = b[k + 1]
        BY <2>6, <4>2
      <4> QED BY <3>2, <4>1, <4>2, <4>3
    <3> QED BY <2>7, <3>1, <3>2
  <2>10. VictimLeft(t)
    BY <2>6, <2>8, <2>9 DEF VictimLeft
  <2>11. ASSUME cell.hook[1] = "seam" PROVE PutFirst(t, << >>, << >>)
    <3> SUFFICES ASSUME NEW j \in DOMAIN t, t[j][1] = "effect", NEW i \in DOMAIN t, i < j, Puts(t[i])
                 PROVE  i = 1
      BY DEF PutFirst
    <3>1. j \in DOMAIN a /\ t[j] = a[j]
      BY <2>5, <2>7
    <3>2. i \in DOMAIN a /\ t[i] = a[i]
      BY <2>6, <3>1
    <3> QED BY <2>4, <2>11, <3>1, <3>2
  <2>12. todo'[1] = t /\ queue'[1] = << >> /\ mine'[1] = << >> /\ flag'[1] = "absent"
    BY <2>1, <2>3 DEF t, a, b
  <2>13. Sequence(queue'[1])
    BY <2>12, NothingLeft DEF Well
  <2> QED BY <1>2, <2>8, <2>10, <2>11, <2>12, <2>13
<1>12. CASE Steps(1)
  <2>1. ~SeeStart(1) /\ ~CrashHere(1) /\ ~Receive(1) /\ ~Continue(1)
    BY <1>3 DEF SeeStart, CrashHere, Receive, Continue, VictimKinds
  <2> QED BY <1>8, <1>9, <1>10, <1>11, <1>12, <2>1 DEF Steps
<1>13. CASE Ends(1)
  <2>1. ~Fail(1)
    BY <1>3 DEF Fail, VictimKinds
  <2>2. /\ todo'[1] = SubSeq(todo[1], InvokeEnd(todo[1]) + 1, Len(todo[1]))
        /\ UNCHANGED << flag, mine, queue >>
        /\ \E k \in {"interrupt", "op", "returned"} : At(1, k)
    BY <1>0, <1>13, <2>1 DEF Ends, Ask, Busy, InvokeReturns, EndInvoke, Shaped
  <2>3. PICK r \in 0 .. Len(todo[1]) : r = InvokeEnd(todo[1])
    BY <1>1, EndAt
  <2>4. /\ Sequence(todo'[1]) /\ DOMAIN todo'[1] = 1 .. Len(todo[1]) - r
        /\ \A i \in 1 .. Len(todo[1]) - r : todo'[1][i] = todo[1][r + i]
    BY <1>1, <2>2, <2>3, DropOf
  <2>5. \A i \in DOMAIN todo'[1] : r + i \in DOMAIN todo[1] /\ todo'[1][i] = todo[1][r + i]
    BY <1>1, <2>3, <2>4
  <2>6. \A i \in DOMAIN todo[1] : r < i => i - r \in DOMAIN todo'[1]
    BY <1>1, <2>3, <2>4
  <2>7. todo[1][1][1] # "sleep" /\ r \in Nat
    BY <1>1, <1>3, <2>2, <2>3
  <2> QED BY <1>1, <1>2, <1>4, <2>2, <2>4, <2>5, <2>6, <2>7
<1>14. ASSUME todo'[1] = << >>, queue'[1] = << >> \/ queue'[1] = queue[1], UNCHANGED << flag, mine >>
       PROVE  Parks'
  <2>1. Sequence(<< >>) /\ DOMAIN << >> = {}
    BY NothingLeft DEF Well
  <2>2. VictimLeft(<< >>) /\ Quiet(<< >>) /\ \A q, done : PutFirst(<< >>, q, done)
    BY <2>1 DEF VictimLeft, Quiet, PutFirst
  <2> QED BY <1>1, <1>2, <1>14, <2>1, <2>2
<1>15. CASE Goes(1)
  <2>1. todo'[1] = << >> /\ queue'[1] = << >> /\ UNCHANGED << flag, mine >>
    BY <1>0, <1>15 DEF Goes, _die, Exit, Broken, Gone, Shaped
  <2> QED BY <1>14, <2>1
<1>16. CASE FillFlag(1)
  <2>1. flag[1] = "empty" /\ UNCHANGED << todo, mine, queue >>
    BY <1>16 DEF FillFlag
  <2> QED BY <1>1, <1>2, <2>1
<1>17. CASE ParkInSaver(1)
  <2>1. /\ UNCHANGED << todo, mine, queue >> /\ cell.hook[1] = "seam" /\ queue[1] # << >>
        /\ Head(queue[1])[1] = "put" /\ \E i \in DOMAIN mine[1] : mine[1][i][1] = "write"
    BY <1>17 DEF ParkInSaver, ParksBefore
  <2>2. mine[1] # << >> /\ 1 \in DOMAIN queue[1] /\ queue[1][1][1] = "put"
    <3>1. DOMAIN << >> = {}
      OBVIOUS
    <3> QED BY <1>1, <2>1, <3>1, TailOf
  <2>3. \A i \in DOMAIN todo[1] : todo[1][i][1] \notin {"effect", "invoke"}
    BY <1>1, <2>1, <2>2 DEF PutFirst
  <2>4. Quiet(todo[1])
    BY <2>3 DEF Quiet
  <2> QED BY <1>1, <1>2, <2>1, <2>3, <2>4
<1>18. CASE Write(1)
  <2>1. At(1, "op") /\ UNCHANGED << mine, flag >>
    BY <1>18 DEF Write
  <2>2. CASE Gone(1, "killed")
    BY <1>0, <1>14, <2>1, <2>2 DEF Gone, Shaped
  <2>3. CASE Then(1, << >>) /\ UNCHANGED << st, queue >>
    <3>1. todo'[1] = Tail(todo[1]) /\ todo[1] # << >> /\ todo[1][1][1] # "sleep"
      BY <1>0, <1>3, <1>7, <2>1, <2>3 DEF Then, Shaped
    <3> QED BY <1>6, <2>1, <2>3, <3>1
  <2> QED BY <1>18, <2>2, <2>3 DEF Write
<1>19. CASE Enqueue(1)
  <2>1. /\ At(1, "submit") /\ todo'[1] = << >> \o Tail(todo[1])
        /\ queue'[1] = Append(queue[1], Arg(1)) /\ UNCHANGED << mine, flag >>
    BY <1>0, <1>19 DEF Enqueue, Then, Shaped
  <2>2. /\ todo[1] # << >> /\ todo[1][1][1] = "submit" /\ todo'[1] = Tail(todo[1])
        /\ 1 \in DOMAIN todo[1] /\ Arg(1) = todo[1][1][2]
    BY <1>3, <1>7, <2>1 DEF Arg
  <2>3. /\ VictimLeft(todo'[1]) /\ (Quiet(todo[1]) => Quiet(todo'[1]))
        /\ \A i \in DOMAIN todo'[1] : i + 1 \in DOMAIN todo[1] /\ todo'[1][i] = todo[1][i + 1]
    BY <1>5, <2>2
  <2>4. DOMAIN todo'[1] \subseteq Nat \ {0}
    BY <1>1, <2>2, TailOf
  <2>5. \A i \in DOMAIN todo'[1] : todo'[1][i][1] # "invoke"
    <3> SUFFICES ASSUME NEW i \in DOMAIN todo'[1], todo'[1][i][1] = "invoke" PROVE FALSE
      OBVIOUS
    <3>1. i + 1 = 1
      BY <1>1, <2>3 DEF VictimLeft
    <3> QED BY <2>4, <3>1
  <2>6. Sequence(queue'[1])
    BY <1>1, <2>1, RangeStep
  <2>7. ASSUME cell.hook[1] = "seam" PROVE PutFirst(todo'[1], queue'[1], mine'[1])
    <3> SUFFICES ASSUME NEW j \in DOMAIN todo'[1], todo'[1][j][1] = "effect"
                 PROVE  /\ \A i \in DOMAIN todo'[1] : ~(i < j /\ Puts(todo'[1][i]))
                        /\ \A m \in DOMAIN queue'[1] :
                             queue'[1][m][1] = "put" => m = 1 /\ mine'[1] = << >>
      BY DEF PutFirst
    <3>1. /\ PutFirst(todo[1], queue[1], mine[1])
          /\ j + 1 \in DOMAIN todo[1] /\ todo[1][j + 1][1] = "effect" /\ 1 < j + 1
      BY <1>1, <2>3, <2>4, <2>7
    <3>2. ASSUME NEW i \in DOMAIN todo'[1], i < j, Puts(todo'[1][i]) PROVE FALSE
      <4>1. i + 1 \in DOMAIN todo[1] /\ Puts(todo[1][i + 1]) /\ i + 1 < j + 1
        BY <2>3, <2>4, <3>2
      <4>2. i + 1 = 1
        BY <3>1, <4>1 DEF PutFirst
      <4> QED BY <2>4, <4>2
    <3> DEFINE q == queue[1]
               o == Arg(1)
    <3>3. /\ DOMAIN q = 1 .. Len(q) /\ Len(q) \in Nat
          /\ DOMAIN queue'[1] = 1 .. Len(q) + 1 /\ queue'[1][Len(q) + 1] = o
          /\ \A m \in DOMAIN q : queue'[1][m] = q[m]
      <4>1. q \in Seq(Range(q) \cup {o}) /\ o \in Range(q) \cup {o}
        BY <1>1 DEF Sequence
      <4> QED BY <2>1, <4>1
    <3>4. ASSUME NEW m \in DOMAIN queue'[1], queue'[1][m][1] = "put"
          PROVE  m = 1 /\ mine[1] = << >>
      <4>1. CASE m \in DOMAIN q
        BY <3>1, <3>3, <3>4, <4>1 DEF PutFirst
      <4>2. CASE m \notin DOMAIN q
        <5>1. m = Len(q) + 1 /\ o[1] = "put"
          BY <3>3, <3>4, <4>2
        <5>2. Puts(todo[1][1])
          BY <2>2, <5>1 DEF Puts
        <5>3. mine[1] = << >> /\ q = << >>
          BY <2>2, <3>1, <5>2 DEF PutFirst
        <5> QED BY <5>1, <5>3
      <4> QED BY <4>1, <4>2
    <3> QED BY <2>1, <3>2, <3>4
  <2> QED BY <1>1, <1>2, <2>1, <2>3, <2>5, <2>6, <2>7
<1>20. CASE Flush(1)
  <2>1. /\ UNCHANGED todo /\ queue[1] # << >> /\ queue'[1] = Tail(queue[1])
        /\ ~StopsAfter(1, Len(mine[1]) + 1) => UNCHANGED flag
    BY <1>0, <1>20 DEF Flush, Shaped
  <2>2. UNCHANGED flag
    BY <1>0, <2>1 DEF StopsAfter
  <2>3. /\ Sequence(queue'[1]) /\ DOMAIN queue'[1] \subseteq Nat \ {0}
        /\ \A m \in DOMAIN queue'[1] : m + 1 \in DOMAIN queue[1] /\ queue'[1][m] = queue[1][m + 1]
    BY <1>1, <2>1, TailOf
  <2>4. \A i \in DOMAIN todo[1] : todo[1][i][1] # "invoke"
    BY <1>1, <2>1
  <2>5. ASSUME cell.hook[1] = "seam" PROVE PutFirst(todo[1], queue'[1], mine'[1])
    <3> SUFFICES ASSUME NEW j \in DOMAIN todo[1], todo[1][j][1] = "effect"
                 PROVE  /\ \A i \in DOMAIN todo[1] : ~(i < j /\ Puts(todo[1][i]))
                        /\ \A m \in DOMAIN queue'[1] : queue'[1][m][1] # "put"
      BY DEF PutFirst
    <3>1. PutFirst(todo[1], queue[1], mine[1])
      BY <1>1, <2>5
    <3>2. \A i \in DOMAIN todo[1] : ~(i < j /\ Puts(todo[1][i]))
      BY <2>1, <3>1 DEF PutFirst
    <3>3. ASSUME NEW m \in DOMAIN queue'[1], queue'[1][m][1] = "put" PROVE FALSE
      <4>1. m + 1 = 1
        BY <2>3, <3>1, <3>3 DEF PutFirst
      <4> QED BY <2>3, <4>1
    <3> QED BY <3>2, <3>3
  <2> QED BY <1>1, <1>2, <2>1, <2>2, <2>3, <2>4, <2>5
<1>21. ~claim(1)
  BY <1>3 DEF claim, VictimKinds
<1> QED BY <1>12, <1>13, <1>15, <1>16, <1>17, <1>18, <1>19, <1>20, <1>21, ChildCases

LEMMA KillInit == RigInit => KillInv
<1> SUFFICES ASSUME RigInit, cell.name \in VictimParks
             PROVE  /\ Parks /\ CountsLate /\ Sequence(readings)
                    /\ readings = << >> /\ Len(readings) # 1
  BY DEF KillInv
<1>1. cell \in Experiments /\ Victim(cell) /\ 1 \in Child /\ Sequence(<< >>) /\ DOMAIN << >> = {}
  BY VictimCell, NothingLeft DEF RigInit, Well
<1>2. /\ todo[1] = << >> /\ queue[1] = << >> /\ mine[1] = << >> /\ flag[1] = "absent"
      /\ \A p \in Child : st[p] = "none"
  BY <1>1 DEF RigInit
<1>3. Parks
  BY <1>1, <1>2 DEF Parks, VictimLeft, PutFirst
<1>4. CountsLate
  BY <1>1 DEF RigInit, CountsLate, Victim
<1> QED BY <1>1, <1>3, <1>4 DEF RigInit

LEMMA KillStep ==
  ASSUME TypeInv, Orderly, KillInv, [RigNext]_rigVars PROVE KillInv'
<1>0. Shaped /\ Idle /\ cell \in Experiments
  BY TypeIdle DEF TypeInv
<1> USE DEF child, engine, files
<1>1. ASSUME NEW p \in Child, ChildStep(p) \/ Busy(p) \/ Broken(p) PROVE KillInv'
  <2>1. /\ UNCHANGED << cell, outcome, script, readings >> /\ st[p] = "running" /\ Shaped'
        /\ st'[p] # "none" /\ \A q \in Child \ {p} : st'[q] = st[q]
    BY <1>0, <1>1, ChildFrame DEF Followed, Running, Stops, parent, Same
  <2> SUFFICES ASSUME cell.name \in VictimParks, st'[2] = "none"
               PROVE  /\ Parks' /\ CountsLate'
                      /\ readings # << >> => flag'[1] # "absent"
                      /\ Sequence(readings)
                      /\ Len(readings) = 1 => ledger' = readings[1]
    BY <2>1 DEF KillInv
  <2>2. 2 \in Child /\ 1 \in Child
    BY <1>0, VictimCell
  <2>3. st[2] = "none"
    BY <2>1, <2>2
  <2>4. /\ Parks /\ CountsLate /\ Sequence(readings) /\ (readings # << >> => flag[1] # "absent")
        /\ Len(readings) = 1 => ledger = readings[1]
    BY <2>3 DEF KillInv
  <2>5. p = 1
    BY <2>1, <2>4 DEF Parks
  <2>6. Parks'
    BY <1>1, <2>4, <2>5, ParksStep
  <2>7. flag'[1] = flag[1] \/ flag'[1] # "absent"
    BY <1>0, <1>1, <2>5, ChildCases
       DEF Shaped, Steps, Ends, Goes, _invoke, TakeEffect, OpenFlag, ParkHere, SeeStart, CrashHere,
           Receive, Continue, Join, Ask, Busy, Fail, InvokeReturns, _die, Exit, Broken, FillFlag,
           Write, Enqueue, Flush, ParkInSaver, claim
  <2>8. CountsLate'
    BY <2>1, <2>4, <2>7 DEF CountsLate
  <2>9. ASSUME Len(readings) = 1 PROVE ledger' = ledger
    <3>1. readings # << >>
      BY <2>9
    <3>2. Quiet(todo[1]) /\ Sequence(todo[1])
      BY <2>4, <3>1 DEF Parks, VictimLeft
    <3>3. ASSUME TakeEffect(1) PROVE FALSE
      <4>1. todo[1] # << >> /\ Head(todo[1])[1] = "effect"
        BY <3>3 DEF TakeEffect, At
      <4>2. 1 \in DOMAIN todo[1] /\ todo[1][1][1] = "effect"
        BY <3>2, <4>1, TailOf
      <4> QED BY <3>2, <4>2 DEF Quiet
    <3> QED BY <1>1, <2>5, <3>3, LedgerCases
  <2> QED BY <2>4, <2>6, <2>7, <2>8, <2>9
<1>2. CASE ParentStep
  <2>1. /\ UNCHANGED << cell, mine, flag, ledger, Child >> /\ outcome = "running" /\ Shaped'
        /\ \A p \in Child :
              \/ Same(p)
              \/ Stops(p) /\ ((Running(p) /\ st'[p] = "killed") \/ UNCHANGED st[p])
              \/ Started(p)
    BY <1>0, <1>2, ParentFrame DEF Child
  <2> SUFFICES ASSUME cell.name \in VictimParks, st'[2] = "none"
               PROVE  /\ Parks' /\ CountsLate'
                      /\ readings' # << >> => flag[1] # "absent"
                      /\ Sequence(readings')
                      /\ Len(readings') = 1 => ledger = readings'[1]
    BY <2>1 DEF KillInv
  <2>2. 2 \in Child /\ 1 \in Child /\ Victim(cell) /\ Sequence(cell.lives[1])
    BY <1>0, VictimCell
  <2>3. st[2] = "none"
    BY <2>1, <2>2 DEF Same, Started, Running
  <2>4. /\ Parks /\ CountsLate /\ Sequence(readings) /\ (readings # << >> => flag[1] # "absent")
        /\ Len(readings) = 1 => ledger = readings[1]
    BY <2>3 DEF KillInv
  <2>5. /\ Sequence(script)
        /\ script # << >> => 1 \in DOMAIN script /\ Head(script) = script[1]
        /\ DOMAIN script \subseteq Nat \ {0}
    BY <2>1, TailOf, SequenceDomain DEF Orderly
  <2>6. ASSUME Does("spawn") PROVE ~(2 \in Whom) /\ Whom \subseteq {1}
    <3>1. /\ script # << >> /\ 1 \in DOMAIN script /\ script[1][1] = "spawn" /\ script[1][2] = Whom
      BY <2>5, <2>6 DEF Does, Whom
    <3>2. _spawn
      BY <1>2, <2>6, ParentCases
         DEF Does, Pops, Quits, SeeFlags, ReadLedger, SendMessage, SeeDone, CopyStore,
             MarkCrashed, StartRacers, Deadline, EarlyExit, ReadFlag, SeeRowStep, KillVictim,
             Collected, Timeout, WriteReceipt
    <3>3. 2 \notin Whom
      BY <2>2, <3>2 DEF _spawn
    <3>4. ASSUME ~(Whom \subseteq {1}) PROVE FALSE
      <4>1. PICK m \in DOMAIN script : m <= 1 /\ script[m][1] = "spawn" /\ 2 \in script[m][2]
        BY <2>1, <2>4, <3>1, <3>4 DEF CountsLate
      <4>2. m = 1
        BY <2>5, <4>1
      <4> QED BY <3>1, <3>3, <4>1, <4>2
    <3> QED BY <3>3, <3>4
  <2>7. Parks'
    <3>1. \A p \in Child \ {1} : st'[p] = "none"
      <4> SUFFICES ASSUME NEW p \in Child \ {1} PROVE st'[p] = "none"
        OBVIOUS
      <4>1. st[p] = "none" /\ ~Running(p)
        BY <2>4 DEF Parks, Running
      <4>2. ~Started(p)
        BY <2>6 DEF Started
      <4> QED BY <2>1, <4>1, <4>2 DEF Same
    <3>2. CASE Same(1)
      BY <2>1, <2>4, <3>1, <3>2 DEF Parks, Same
    <3>3. CASE Stops(1) /\ ((Running(1) /\ st'[1] = "killed") \/ UNCHANGED st[1])
      <4>1. Sequence(<< >>) /\ DOMAIN << >> = {}
        BY NothingLeft DEF Well
      <4>2. VictimLeft(<< >>) /\ Quiet(<< >>) /\ \A q, done : PutFirst(<< >>, q, done)
        BY <4>1 DEF VictimLeft, Quiet, PutFirst
      <4>3. todo'[1] = << >> /\ queue'[1] = << >> /\ (st'[1] = "none" => st[1] = "none")
        BY <3>3 DEF Stops
      <4> QED BY <2>1, <2>4, <3>1, <4>1, <4>2, <4>3 DEF Parks
    <3>4. CASE Started(1)
      <4>1. st[1] = "none"
        <5>1. script # << >> /\ Head(script)[1] = "spawn" /\ 1 \in Head(script)[2]
          BY <3>4 DEF Started, Does, Whom
        <5> QED BY <2>1, <2>2, <2>5, <5>1 DEF Orderly
      <4>2. /\ flag[1] = "absent" /\ mine[1] = << >> /\ queue[1] = << >>
            /\ todo'[1] = cell.lives[1] /\ queue'[1] = << >> /\ st'[1] = "running"
        BY <1>0, <2>2, <2>4, <3>4, <4>1 DEF Parks, Idle, Running, Started
      <4>3. \A i \in DOMAIN cell.lives[1] :
              \/ cell.lives[1][i] = Invoke("input") /\ i = 1
              \/ cell.lives[1][i] = Sleep
              \/ /\ cell.lives[1][i] = Ready /\ i + 1 \in DOMAIN cell.lives[1]
                 /\ cell.lives[1][i + 1] = Sleep
        BY <2>2 DEF Victim
      <4>4. \A i \in DOMAIN cell.lives[1] :
              /\ cell.lives[1][i][1] \in {"invoke", "sleep", "ready"}
              /\ cell.lives[1][i][1] = "invoke" => i = 1 /\ cell.lives[1][i][2] = "input"
              /\ i # 1 => cell.lives[1][i][1] \in {"ready", "sleep"}
              /\ cell.lives[1][i][1] = "ready" =>
                   i + 1 \in DOMAIN cell.lives[1] /\ cell.lives[1][i + 1][1] = "sleep"
        BY <4>3 DEF Invoke, Ready, Sleep
      <4>5. VictimLeft(cell.lives[1]) /\ PutFirst(cell.lives[1], << >>, << >>)
        BY <2>2, <4>4 DEF VictimLeft, PutFirst, VictimKinds
      <4>6. Sequence(<< >>)
        BY NothingLeft DEF Well
      <4> QED BY <2>1, <2>4, <3>1, <4>2, <4>5, <4>6 DEF Parks
    <3> QED BY <2>1, <2>2, <3>2, <3>3, <3>4
  <2>8. outcome' = "running" => script' = script \/ (script # << >> /\ script' = Tail(script))
    BY <1>2, ParentCases
       DEF _spawn, Pops, Quits, SeeFlags, ReadLedger, SendMessage, SeeDone, CopyStore,
           MarkCrashed, StartRacers, Deadline, EarlyExit, ReadFlag, SeeRowStep, KillVictim,
           Collected, Timeout, WriteReceipt, GiveUp, Does
  <2>9. ASSUME outcome' = "running", Does("await"), 1 \in Whom PROVE flag[1] # "absent"
    <3>1. SeeFlags
      BY <1>2, <2>9, ParentCases
         DEF Does, _spawn, Pops, Quits, ReadLedger, SendMessage, SeeDone, CopyStore,
             MarkCrashed, StartRacers, Deadline, EarlyExit, GiveUp, ReadFlag, SeeRowStep,
             KillVictim, Collected, Timeout, WriteReceipt
    <3> QED BY <2>9, <3>1 DEF SeeFlags, Armed
  <2>10. CountsLate'
    <3>1. CASE script' = script
      BY <2>1, <2>4, <3>1 DEF CountsLate
    <3>2. CASE outcome' = "running" /\ script # << >> /\ script' = Tail(script)
      <4> DEFINE t == Tail(script)
      <4>1. /\ DOMAIN script = 1 .. Len(script) /\ Len(script) \in Nat
            /\ DOMAIN t = 1 .. Len(script) - 1
            /\ \A i \in DOMAIN t : t[i] = script[i + 1]
        BY <2>5, <3>2, TailOf
      <4> HIDE DEF t
      <4>2. \A i \in DOMAIN t : i + 1 \in DOMAIN script /\ t[i] = script[i + 1] /\ i \in Nat
        BY <4>1
      <4>3. ASSUME NEW m \in DOMAIN script, m # 1 PROVE m - 1 \in DOMAIN t /\ t[m - 1] = script[m]
        <5>1. m - 1 \in DOMAIN t /\ m - 1 + 1 = m
          BY <4>1, <4>3
        <5> QED BY <4>1, <5>1
      <4>4. ASSUME NEW i \in DOMAIN t, t[i][1] = "count", flag[1] = "absent"
            PROVE  \E m \in DOMAIN t : m < i /\ t[m][1] = "await" /\ 1 \in t[m][2]
        <5>1. PICK m \in DOMAIN script :
                m < i + 1 /\ script[m][1] = "await" /\ 1 \in script[m][2]
          BY <2>1, <2>4, <4>2, <4>4 DEF CountsLate
        <5>2. m # 1
          BY <2>1, <2>5, <2>9, <3>2, <4>4, <5>1 DEF Does, Whom
        <5>3. m - 1 \in DOMAIN t /\ t[m - 1] = script[m] /\ m - 1 < i
          BY <4>1, <4>3, <5>1, <5>2
        <5> QED BY <5>1, <5>3
      <4>5. ASSUME NEW i \in DOMAIN t, t[i][1] = "spawn", ~(t[i][2] \subseteq {1})
            PROVE  \E m \in DOMAIN t : m <= i /\ t[m][1] = "spawn" /\ 2 \in t[m][2]
        <5>1. PICK m \in DOMAIN script :
                m <= i + 1 /\ script[m][1] = "spawn" /\ 2 \in script[m][2]
          BY <2>1, <2>4, <4>2, <4>5 DEF CountsLate
        <5>2. m # 1
          BY <2>1, <2>5, <2>6, <3>2, <5>1 DEF Does, Whom
        <5>3. m - 1 \in DOMAIN t /\ t[m - 1] = script[m] /\ m - 1 <= i
          BY <4>1, <4>3, <5>1, <5>2
        <5> QED BY <5>1, <5>3
      <4> QED BY <2>1, <3>2, <4>4, <4>5 DEF CountsLate, t
    <3> QED BY <2>8, <3>1, <3>2 DEF CountsLate
  <2>11. CASE ReadLedger
    <3>1. /\ readings' = Append(readings, ledger) /\ script # << >> /\ Head(script)[1] = "count"
      BY <2>11 DEF ReadLedger, Does
    <3>2. flag[1] # "absent"
      <4>1. 1 \in DOMAIN script /\ script[1][1] = "count" /\ \A m \in DOMAIN script : ~(m < 1)
        BY <2>5, <3>1
      <4> QED BY <2>1, <2>4, <4>1 DEF CountsLate
    <3>3. Sequence(readings')
      BY <2>4, <3>1, RangeStep
    <3>4. Len(readings') = 1 => ledger = readings'[1]
      <4>1. readings \in Seq(Range(readings) \cup {ledger}) /\ ledger \in Range(readings) \cup {ledger}
        BY <2>4 DEF Sequence
      <4>2. Len(readings') = Len(readings) + 1 /\ readings'[Len(readings) + 1] = ledger
        BY <3>1, <4>1
      <4> QED BY <4>1, <4>2
    <3> QED BY <2>7, <2>10, <3>2, <3>3, <3>4
  <2>12. CASE ~ReadLedger
    <3>1. readings' = readings
      BY <1>2, <2>12, ParentCases
         DEF _spawn, Pops, Quits, SeeFlags, SendMessage, SeeDone, CopyStore,
             MarkCrashed, StartRacers, Deadline, EarlyExit, ReadFlag, SeeRowStep, KillVictim,
             Collected, Timeout, WriteReceipt
    <3> QED BY <2>4, <2>7, <2>10, <3>1
  <2> QED BY <2>11, <2>12
<1>3. CASE UNCHANGED rigVars
  BY <1>3 DEF rigVars, parent, KillInv, Parks, CountsLate, Child
<1> QED BY <1>1, <1>2, <1>3 DEF RigNext

\* What the parent reads before the kill is what the victim leaves: nothing joins
\* the ledger between that reading and the start of the next child.
THEOREM LedgerAtKillExactHolds == RigSpec => []LedgerAtKillExact
<1>1. RigInit => TypeInv /\ Orderly /\ NobodyLeft /\ KillInv
  BY TypeInit, OrderlyInit, KillInit
<1>2. TypeInv /\ Orderly /\ NobodyLeft /\ KillInv /\ [RigNext]_rigVars
        => (TypeInv /\ Orderly /\ NobodyLeft /\ KillInv)'
  BY TypeStep, OrderlyStep, KillStep
<1>3. KillInv => LedgerAtKillExact
  BY DEF KillInv, LedgerAtKillExact
<1> QED BY <1>1, <1>2, <1>3, PTL DEF RigSpec

-----------------------------------------------------------------------------
(* The races.                                                              *)

From(s, k) == SubSeq(s, k, Len(s))

Wrote(n) == Has(durable[1], << "write", n >>)

\* The effect of the answer of child p.
Answer(p) == cell.nodes[p][2][2]

\* What comes before the answer of a gated resume.
Lead == IF cell.gated THEN 2 ELSE 0

\* The plan that parks, and that of an answer to what is parked.
Parking == graph(cell.nodes[1], "input", << >>, cell.gated)

Firing(p) ==
  graph(cell.nodes[p], "True", << << "write", 1 >>, << "interrupt" >> >>, cell.gated)

LEMMA SameSequence ==
  ASSUME NEW s, NEW t, Sequence(s), Sequence(t), Len(s) = Len(t),
         \A i \in DOMAIN s : s[i] = t[i]
  PROVE  s = t
<1>1. /\ s = [i \in 1 .. Len(s) |-> s[i]] /\ t = [i \in 1 .. Len(s) |-> t[i]]
      /\ DOMAIN s = 1 .. Len(s)
  BY DEF Sequence
<1> QED BY <1>1

LEMMA Tuples ==
  ASSUME NEW a, NEW b
  PROVE  /\ Sequence(<< a >>) /\ Len(<< a >>) = 1 /\ << a >>[1] = a
         /\ Sequence(<< a, b >>) /\ Len(<< a, b >>) = 2
         /\ << a, b >>[1] = a /\ << a, b >>[2] = b
<1>1. << a >> \in Seq({a}) /\ << a, b >> \in Seq({a, b})
  OBVIOUS
<1>2. Sequence(<< a >>) /\ Sequence(<< a, b >>)
  BY <1>1, SequenceOf
<1> QED BY <1>2

LEMMA JoinAs ==
  ASSUME NEW a, NEW b, Sequence(a), Sequence(b)
  PROVE  /\ Sequence(a \o b) /\ Len(a \o b) = Len(a) + Len(b)
         /\ \A i \in 1 .. Len(a) : (a \o b)[i] = a[i]
         /\ \A i \in 1 .. Len(b) : (a \o b)[Len(a) + i] = b[i]
<1>1. /\ DOMAIN a = 1 .. Len(a) /\ DOMAIN b = 1 .. Len(b) /\ Len(a) \in Nat /\ Len(b) \in Nat
      /\ Sequence(a \o b) /\ DOMAIN (a \o b) = 1 .. Len(a) + Len(b)
      /\ \A i \in DOMAIN a : (a \o b)[i] = a[i]
      /\ \A i \in DOMAIN b : (a \o b)[Len(a) + i] = b[i]
  BY JoinOf
<1>2. Len(a \o b) = Len(a) + Len(b)
  BY <1>1, SequenceDomain
<1> QED BY <1>1, <1>2

LEMMA FromStep ==
  ASSUME NEW s, Sequence(s), NEW k \in DOMAIN s
  PROVE  /\ From(s, k) # << >> /\ Sequence(From(s, k))
         /\ Head(From(s, k)) = s[k] /\ Tail(From(s, k)) = From(s, k + 1)
<1>1. s \in Seq(Range(s)) /\ Len(s) \in Nat /\ DOMAIN s = 1 .. Len(s) /\ k \in 1 .. Len(s)
  BY DEF Sequence
<1>2. From(s, k) = [i \in 1 .. Len(s) - k + 1 |-> s[i + k - 1]]
  BY <1>1 DEF From
<1>3. From(s, k + 1) = [i \in 1 .. Len(s) - k |-> s[i + k]]
  BY <1>1 DEF From
<1>4. k - 1 \in 0 .. Len(s) /\ k - 1 + 1 = k
  BY <1>1
<1>5. Sequence(From(s, k))
  BY <1>4, DropOf DEF From
<1>6. From(s, k) # << >> /\ Head(From(s, k)) = s[k]
  BY <1>1, <1>2
<1>7. Tail(From(s, k)) = From(s, k + 1)
  <2> DEFINE f == From(s, k)
  <2>1. f \in Seq(Range(f)) /\ Len(f) = Len(s) - k + 1
    BY <1>1, <1>2, <1>5 DEF Sequence
  <2>2. \A i \in 1 .. Len(s) - k : f[i + 1] = s[i + k]
    BY <1>1, <1>2
  <2> HIDE DEF f
  <2>3. /\ Tail(f) \in Seq(Range(Tail(f))) /\ Len(Tail(f)) = Len(s) - k
        /\ \A i \in DOMAIN Tail(f) : Tail(f)[i] = f[i + 1]
    BY <1>1, <1>5, <1>6, <2>1, TailOf DEF Sequence, f
  <2>4. /\ Sequence(From(s, k + 1)) /\ Len(From(s, k + 1)) = Len(s) - k
        /\ \A i \in 1 .. Len(s) - k : From(s, k + 1)[i] = s[k + i]
    <3>1. k \in 0 .. Len(s)
      BY <1>1
    <3>2. /\ Sequence(From(s, k + 1)) /\ DOMAIN From(s, k + 1) = 1 .. Len(s) - k
          /\ \A i \in 1 .. Len(s) - k : From(s, k + 1)[i] = s[k + i]
      BY <3>1, DropOf DEF From
    <3>3. Len(From(s, k + 1)) = Len(s) - k
      BY <1>1, <3>2, SequenceDomain
    <3> QED BY <3>2, <3>3
  <2>5. Sequence(Tail(f))
    BY <1>5, <1>6, TailOf DEF f
  <2>6. \A i \in DOMAIN Tail(f) : Tail(f)[i] = From(s, k + 1)[i]
    <3>1. DOMAIN Tail(f) = 1 .. Len(s) - k
      BY <2>3, <2>5, SequenceDomain
    <3>2. \A i \in 1 .. Len(s) - k : s[i + k] = s[k + i]
      BY <1>1
    <3> QED BY <2>2, <2>3, <2>4, <3>1, <3>2
  <2> QED BY <2>3, <2>4, <2>5, <2>6, SameSequence DEF f
<1> QED BY <1>5, <1>6, <1>7

LEMMA FromEnds ==
  ASSUME NEW s, Sequence(s)
  PROVE  From(s, 1) = s /\ From(s, Len(s) + 1) = << >>
<1>1. s \in Seq(Range(s)) /\ Len(s) \in Nat /\ DOMAIN s = 1 .. Len(s)
  BY DEF Sequence
<1> QED BY <1>1 DEF From

\* An invoke that ends leaves nothing of a plan that returns only at its end.
LEMMA FromEmpty ==
  ASSUME NEW s, Sequence(s), NEW k \in DOMAIN s, s[Len(s)] = Returned,
         \A i \in DOMAIN s : i < Len(s) => s[i] # Returned
  PROVE  SubSeq(From(s, k), InvokeEnd(From(s, k)) + 1, Len(From(s, k))) = << >>
<1>1. Len(s) \in Nat /\ DOMAIN s = 1 .. Len(s) /\ k \in 1 .. Len(s)
  BY SequenceDomain
<1> DEFINE f == From(s, k)
<1>2. k - 1 \in 0 .. Len(s) /\ k - 1 + 1 = k
  BY <1>1
<1>3. /\ Sequence(f) /\ DOMAIN f = 1 .. Len(s) - (k - 1)
      /\ \A i \in 1 .. Len(s) - (k - 1) : f[i] = s[k - 1 + i]
  BY <1>2, DropOf DEF From
<1> HIDE DEF f
<1>4. Len(f) \in Nat /\ Len(f) = Len(s) - (k - 1)
  BY <1>1, <1>3, SequenceDomain
<1>5. \A i \in 1 .. Len(f) : f[i] = Returned <=> i = Len(f)
  <2>1. \A i \in 1 .. Len(f) : k - 1 + i \in DOMAIN s /\ (k - 1 + i < Len(s) \/ i = Len(f))
    BY <1>1, <1>4
  <2>2. k - 1 + Len(f) = Len(s) /\ Len(f) \in 1 .. Len(f)
    BY <1>1, <1>4
  <2>3. \A i \in 1 .. Len(f) : i # Len(f) => k - 1 + i < Len(s)
    BY <2>1
  <2> QED BY <1>3, <1>4, <2>1, <2>2, <2>3
<1>6. InvokeEnd(f) = Len(f)
  <2>1. PICK r \in 0 .. Len(f) : /\ r = InvokeEnd(f) /\ (r # 0 => f[r] = Returned)
                                 /\ \A m \in DOMAIN f : m < r \/ r = 0 => f[m] # Returned
    BY <1>3, EndAt
  <2>2. Len(f) \in 1 .. Len(f)
    BY <1>1, <1>4
  <2>3. r # 0
    BY <1>3, <1>4, <1>5, <2>1, <2>2
  <2> QED BY <1>4, <1>5, <2>1, <2>3
<1>7. f \in Seq(Range(f))
  BY <1>3 DEF Sequence
<1>8. SubSeq(f, Len(f) + 1, Len(f)) = << >>
  BY <1>4, <1>7
<1> QED BY <1>6, <1>8 DEF f

LEMMA RaceFacts ==
  ASSUME cell \in Experiments, cell.name \in RaceNames
  PROVE  /\ Race(cell) /\ 1 \in Child /\ Child \ {1} # {}
         /\ \A p \in Child : /\ Thread(p) = 1
                             /\ Answer(p) \in {Effect("gate:True"), Effect("gate:False")}
                             /\ cell.nodes[p] = << << Effect("pre") >>, << Interrupt, Answer(p) >> >>
         /\ Child = 1 .. Len(cell.lives) /\ Len(cell.lives) \in Nat
<1>1. Race(cell)
  BY ExperimentAssumption
<1>2. Child = 1 .. Len(cell.lives) /\ Len(cell.lives) \in Nat /\ 1 \in Child /\ Child \ {1} # {}
  BY <1>1, SequenceDomain DEF Race, Child
<1>3. ASSUME NEW p \in Child
      PROVE  /\ Answer(p) \in {Effect("gate:True"), Effect("gate:False")}
             /\ cell.nodes[p] = << << Effect("pre") >>, << Interrupt, Answer(p) >> >>
  <2>1. PICK a \in {"True", "False"} : cell.nodes[p] = build_gate(a)
    BY <1>1 DEF Race, Child
  <2>2. Answer(p) = Effect(gate_task(a))
    BY <2>1 DEF build_gate, Answer
  <2> QED BY <2>1, <2>2 DEF build_gate, gate_task
<1> QED BY <1>1, <1>2, <1>3 DEF Race, Child, Thread

\* The nodes of a gate, from the first or from the second.
LEMMA GateNodes ==
  ASSUME NEW a, NEW b, NEW nodes, nodes = << << a >>, << Interrupt, b >> >>,
         NEW f, f = GraphNodes(nodes, 1), NEW g, g = GraphNodes(nodes, 2)
  PROVE  /\ Sequence(g) /\ Len(g) = 4 /\ g[1] = Interrupt /\ g[2] = b
         /\ g[3] = Op(<< "write", 2 >>) /\ g[4] = Op(<< "put", 2 >>)
         /\ Sequence(f) /\ Len(f) = 7
         /\ f[1] = a /\ f[2] = Op(<< "write", 1 >>) /\ f[3] = Op(<< "put", 1 >>)
         /\ f[4] = Interrupt /\ f[5] = b
         /\ f[6] = Op(<< "write", 2 >>) /\ f[7] = Op(<< "put", 2 >>)
<1> DEFINE Wr(n) == << Op(<< "write", n >>), Op(<< "put", n >>) >>
           x == nodes[1] \o Wr(1)
           y == nodes[2] \o Wr(2)
<1>1. Len(nodes) = 2 /\ nodes[1] = << a >> /\ nodes[2] = << Interrupt, b >>
  OBVIOUS
<1>2. /\ Sequence(x) /\ Len(x) = 3
      /\ x[1] = a /\ x[2] = Op(<< "write", 1 >>) /\ x[3] = Op(<< "put", 1 >>)
  <2> DEFINE l == << a >>
             m == << Op(<< "write", 1 >>), Op(<< "put", 1 >>) >>
  <2>1. Sequence(l) /\ Len(l) = 1 /\ l[1] = a
    BY Tuples
  <2>2. /\ Sequence(m) /\ Len(m) = 2
        /\ m[1] = Op(<< "write", 1 >>) /\ m[2] = Op(<< "put", 1 >>)
    BY Tuples
  <2>3. x = l \o m
    BY <1>1
  <2> HIDE DEF l, m, x
  <2> DEFINE j == l \o m
  <2>0. /\ Sequence(j) /\ Len(j) = Len(l) + Len(m)
        /\ \A i \in 1 .. Len(l) : j[i] = l[i]
        /\ \A i \in 1 .. Len(m) : j[Len(l) + i] = m[i]
    <3>1. Sequence(l) /\ Sequence(m)
      BY <2>1, <2>2
    <3> QED BY <3>1, JoinAs
  <2> HIDE DEF j
  <2>4. /\ Sequence(x) /\ Len(x) = 1 + 2
        /\ \A i \in 1 .. 1 : x[i] = l[i]
        /\ \A i \in 1 .. 2 : x[1 + i] = m[i]
    <3>1. x = j
      BY <2>3 DEF j
    <3> QED BY <2>1, <2>2, <2>0, <3>1
  <2>5. x[1] = l[1] /\ x[1 + 1] = m[1] /\ x[1 + 2] = m[2]
    BY <2>4
  <2> QED BY <2>1, <2>2, <2>4, <2>5
<1>3. /\ Sequence(y) /\ Len(y) = 4 /\ y[1] = Interrupt /\ y[2] = b
      /\ y[3] = Op(<< "write", 2 >>) /\ y[4] = Op(<< "put", 2 >>)
  <2> DEFINE l == << Interrupt, b >>
             m == << Op(<< "write", 2 >>), Op(<< "put", 2 >>) >>
  <2>1. Sequence(l) /\ Len(l) = 2 /\ l[1] = Interrupt /\ l[2] = b
    BY Tuples
  <2>2. /\ Sequence(m) /\ Len(m) = 2
        /\ m[1] = Op(<< "write", 2 >>) /\ m[2] = Op(<< "put", 2 >>)
    BY Tuples
  <2>3. y = l \o m
    BY <1>1
  <2> HIDE DEF l, m, y
  <2> DEFINE j == l \o m
  <2>0. /\ Sequence(j) /\ Len(j) = Len(l) + Len(m)
        /\ \A i \in 1 .. Len(l) : j[i] = l[i]
        /\ \A i \in 1 .. Len(m) : j[Len(l) + i] = m[i]
    <3>1. Sequence(l) /\ Sequence(m)
      BY <2>1, <2>2
    <3> QED BY <3>1, JoinAs
  <2> HIDE DEF j
  <2>4. /\ Sequence(y) /\ Len(y) = 2 + 2
        /\ \A i \in 1 .. 2 : y[i] = l[i]
        /\ \A i \in 1 .. 2 : y[2 + i] = m[i]
    <3>1. y = j
      BY <2>3 DEF j
    <3> QED BY <2>1, <2>2, <2>0, <3>1
  <2>5. y[1] = l[1] /\ y[2] = l[2] /\ y[2 + 1] = m[1] /\ y[2 + 2] = m[2]
    BY <2>4
  <2> QED BY <2>1, <2>2, <2>4, <2>5
<1>4. g = y
  <2> DEFINE E(n) == nodes[n + 2 - 1] \o << Op(<< "write", n + 2 - 1 >>), Op(<< "put", n + 2 - 1 >>) >>
             ss == [n \in 1 .. Len(nodes) - 2 + 1 |-> E(n)]
  <2>1. g = FlattenSeq(ss)
    BY DEF GraphNodes, Walk
  <2>2. E(1) = y
    OBVIOUS
  <2> HIDE DEF E
  <2>3. ss = [n \in 1 .. 1 |-> E(n)]
    BY <1>1
  <2>4. Len(ss) = 1 /\ Len(ss) \in Nat \ {0} /\ ss[1] = E(1)
    BY <2>3
  <2> HIDE DEF ss
  <2>5. PICK h : FlattenSeq(ss) = h[Len(ss)] /\ \A i \in 1 .. Len(ss) : h[i] = IF i = 1 THEN ss[i] ELSE h[i - 1] \o ss[i]
    BY <2>4, FlattenStep
  <2>6. FlattenSeq(ss) = ss[1]
    BY <2>4, <2>5
  <2> QED BY <2>1, <2>2, <2>4, <2>6
<1>5. f = x \o y
  <2> DEFINE E(n) == nodes[n + 1 - 1] \o << Op(<< "write", n + 1 - 1 >>), Op(<< "put", n + 1 - 1 >>) >>
             ss == [n \in 1 .. Len(nodes) - 1 + 1 |-> E(n)]
  <2>1. f = FlattenSeq(ss)
    BY DEF GraphNodes, Walk
  <2>2. E(1) = x /\ E(2) = y
    OBVIOUS
  <2> HIDE DEF E
  <2>3. ss = [n \in 1 .. 2 |-> E(n)]
    BY <1>1
  <2>4. Len(ss) = 2 /\ Len(ss) \in Nat \ {0} /\ ss[1] = E(1) /\ ss[2] = E(2)
    BY <2>3
  <2> HIDE DEF ss
  <2>5. PICK h : FlattenSeq(ss) = h[Len(ss)] /\ \A i \in 1 .. Len(ss) : h[i] = IF i = 1 THEN ss[i] ELSE h[i - 1] \o ss[i]
    BY <2>4, FlattenStep
  <2>6. FlattenSeq(ss) = ss[1] \o ss[2]
    <3>1. h[1] = ss[1] /\ h[2] = h[2 - 1] \o ss[2] /\ 2 - 1 = 1
      BY <2>4, <2>5
    <3> QED BY <2>4, <2>5, <3>1
  <2> QED BY <2>1, <2>2, <2>4, <2>6
<1> HIDE DEF x, y
<1> DEFINE j == x \o y
<1>0. /\ Sequence(j) /\ Len(j) = Len(x) + Len(y)
      /\ \A i \in 1 .. Len(x) : j[i] = x[i]
      /\ \A i \in 1 .. Len(y) : j[Len(x) + i] = y[i]
  <2>1. Sequence(x) /\ Sequence(y)
    BY <1>2, <1>3
  <2> QED BY <2>1, JoinAs
<1> HIDE DEF j
<1>6. /\ Sequence(f) /\ Len(f) = 3 + 4
      /\ \A i \in 1 .. 3 : f[i] = x[i]
      /\ \A i \in 1 .. 4 : f[3 + i] = y[i]
  <2>1. f = j
    BY <1>5 DEF j
  <2> QED BY <1>2, <1>3, <1>0, <2>1
<1>7. /\ f[1] = x[1] /\ f[2] = x[2] /\ f[3] = x[3]
      /\ f[3 + 1] = y[1] /\ f[3 + 2] = y[2] /\ f[3 + 3] = y[3] /\ f[3 + 4] = y[4]
  BY <1>6
<1> QED BY <1>2, <1>3, <1>4, <1>6, <1>7

\* Where a resume goes on, by what is durable.
LEMMA GateNext ==
  ASSUME NEW d, NEW nodes, Len(nodes) = 2, Has(d, << "write", 1 >>), Has(d, << "interrupt" >>)
  PROVE  /\ ~Has(d, << "write", 2 >>) => NextNode(nodes, d) = 2 /\ Parked(nodes, d)
         /\ Has(d, << "write", 2 >>) => ~Parked(nodes, d)
<1> DEFINE S == {n \in 1 .. Len(nodes) : Has(d, << "write", n >>)}
<1>1. NextNode(nodes, d) = Cardinality(S) + 1
  BY DEF NextNode
<1>2. CASE ~Has(d, << "write", 2 >>)
  <2>1. S = {1}
    BY <1>2
  <2>2. Cardinality({1}) = 1
    BY FS_Singleton
  <2> HIDE DEF S
  <2>3. NextNode(nodes, d) = 2
    BY <1>1, <2>1, <2>2
  <2> QED BY <1>2, <2>3 DEF Parked
<1>3. CASE Has(d, << "write", 2 >>)
  <2>1. S = {1} \cup {2}
    BY <1>3
  <2>2. Cardinality({1} \cup {2}) = 2
    <3>1. IsFiniteSet({1}) /\ Cardinality({1}) = 1 /\ 2 \notin {1}
      BY FS_Singleton
    <3> QED BY <3>1, FS_AddElement
  <2> HIDE DEF S
  <2>3. NextNode(nodes, d) = 3
    BY <1>1, <2>1, <2>2
  <2> QED BY <1>3, <2>3 DEF Parked
<1> QED BY <1>2, <1>3, Zenon

LEMMA WrappedIn ==
  ASSUME NEW a, NEW b, NEW c, Sequence(a), Sequence(b), Sequence(c)
  PROVE  LET s == a \o b \o c IN
         /\ Sequence(s) /\ Len(s) = Len(a) + Len(b) + Len(c)
         /\ \A i \in 1 .. Len(a) : s[i] = a[i]
         /\ \A i \in 1 .. Len(b) : s[Len(a) + i] = b[i]
         /\ \A i \in 1 .. Len(c) : s[Len(a) + Len(b) + i] = c[i]
<1> DEFINE s == a \o b \o c
<1> DEFINE j == a \o b
<1>1. /\ Sequence(j) /\ Len(j) = Len(a) + Len(b)
      /\ \A i \in 1 .. Len(a) : j[i] = a[i]
      /\ \A i \in 1 .. Len(b) : j[Len(a) + i] = b[i]
  BY JoinAs
<1>2. s = j \o c
  OBVIOUS
<1> HIDE DEF j
<1> DEFINE t == j \o c
<1>3. /\ Sequence(t) /\ Len(t) = Len(j) + Len(c)
      /\ \A i \in 1 .. Len(j) : t[i] = j[i]
      /\ \A i \in 1 .. Len(c) : t[Len(j) + i] = c[i]
  <2>1. Sequence(j)
    BY <1>1
  <2> QED BY <2>1, JoinAs
<1> HIDE DEF s, t
<1>4. s = t
  BY <1>2 DEF t
<1>5. Len(a) \in Nat /\ Len(b) \in Nat /\ Len(c) \in Nat
  BY SequenceDomain
<1>6. \A i \in 1 .. Len(a) : s[i] = a[i]
  <2>1. \A i \in 1 .. Len(a) : i \in 1 .. Len(j)
    BY <1>1, <1>5
  <2> QED BY <1>1, <1>3, <1>4, <2>1
<1>7. \A i \in 1 .. Len(b) : s[Len(a) + i] = b[i]
  <2>1. \A i \in 1 .. Len(b) : Len(a) + i \in 1 .. Len(j)
    BY <1>1, <1>5
  <2> QED BY <1>1, <1>3, <1>4, <2>1
<1>8. \A i \in 1 .. Len(c) : s[Len(a) + Len(b) + i] = c[i]
  BY <1>1, <1>3, <1>4
<1>9. Sequence(s) /\ Len(s) = Len(a) + Len(b) + Len(c)
  BY <1>1, <1>3, <1>4
<1> QED BY <1>6, <1>7, <1>8, <1>9 DEF s

\* The plan that parks: it comes to the interrupt before any answer.
LEMMA ParkingIs ==
  ASSUME NEW s, s = Parking, cell \in Experiments, cell.name \in RaceNames
  PROVE  /\ Sequence(s) /\ Len(s) = 9
         /\ s[1] = Op(<< "put", 0 >>) /\ s[2] = Effect("pre") /\ s[3] = Op(<< "write", 1 >>)
         /\ s[4] = Op(<< "put", 1 >>) /\ s[5] = Interrupt
         /\ s[9] = Returned /\ \A i \in DOMAIN s : i < 9 => s[i] # Returned
<1> DEFINE e == Answer(1)
           nodes == cell.nodes[1]
           a == << Op(<< "put", 0 >>) >>
           b == GraphNodes(nodes, 1)
           c == << Returned >>
<1>1. nodes = << << Effect("pre") >>, << Interrupt, e >> >> /\ e[1] = "effect"
  BY RaceFacts DEF Effect
<1>2. s = a \o b \o c
  BY DEF Parking, graph
<1> HIDE DEF e, nodes
<1>3. /\ Sequence(b) /\ Len(b) = 7
      /\ b[1] = Effect("pre") /\ b[2] = Op(<< "write", 1 >>) /\ b[3] = Op(<< "put", 1 >>)
      /\ b[4] = Interrupt /\ b[5] = e
      /\ b[6] = Op(<< "write", 2 >>) /\ b[7] = Op(<< "put", 2 >>)
  BY <1>1, GateNodes
<1>4. /\ Sequence(a) /\ Len(a) = 1 /\ a[1] = Op(<< "put", 0 >>)
      /\ Sequence(c) /\ Len(c) = 1 /\ c[1] = Returned
  BY Tuples
<1> HIDE DEF a, b, c
<1>5. /\ Sequence(s) /\ Len(s) = Len(a) + Len(b) + Len(c)
      /\ \A i \in 1 .. Len(a) : s[i] = a[i]
      /\ \A i \in 1 .. Len(b) : s[Len(a) + i] = b[i]
      /\ \A i \in 1 .. Len(c) : s[Len(a) + Len(b) + i] = c[i]
  <2> DEFINE w == a \o b \o c
  <2>1. Sequence(a) /\ Sequence(b) /\ Sequence(c)
    BY <1>3, <1>4
  <2>2. /\ Sequence(w) /\ Len(w) = Len(a) + Len(b) + Len(c)
        /\ \A i \in 1 .. Len(a) : w[i] = a[i]
        /\ \A i \in 1 .. Len(b) : w[Len(a) + i] = b[i]
        /\ \A i \in 1 .. Len(c) : w[Len(a) + Len(b) + i] = c[i]
    BY <2>1, WrappedIn
  <2> HIDE DEF w
  <2>3. s = w
    BY <1>2 DEF w
  <2> QED BY <2>2, <2>3
<1>6. /\ Len(s) = 9 /\ s[1] = a[1] /\ s[1 + 1] = b[1] /\ s[1 + 2] = b[2] /\ s[1 + 3] = b[3]
      /\ s[1 + 4] = b[4] /\ s[1 + 5] = b[5] /\ s[1 + 6] = b[6] /\ s[1 + 7] = b[7]
      /\ s[1 + 7 + 1] = c[1]
  BY <1>3, <1>4, <1>5
<1>7. \A i \in DOMAIN s : i < 9 => s[i] # Returned
  <2>1. DOMAIN s = 1 .. 9
    BY <1>5, <1>6, SequenceDomain
  <2>2. \A i \in DOMAIN s : i < 9 => i \in {1, 2, 3, 4, 5, 6, 7, 8}
    BY <2>1
  <2>3. \A i \in {1, 2, 3, 4, 5, 6, 7, 8} : s[i][1] # "returned"
    BY <1>1, <1>3, <1>4, <1>6 DEF Op, Effect, Interrupt
  <2> QED BY <2>2, <2>3 DEF Returned
<1> QED BY <1>3, <1>4, <1>5, <1>6, <1>7

\* The plan of an answer: with the gate it claims first and hands its answer to
\* the engine; the effect of the answer is durable as a write after it.
LEMMA FiringIs ==
  ASSUME NEW p \in Child, NEW s, s = Firing(p), cell \in Experiments, cell.name \in RaceNames
  PROVE  /\ Sequence(s) /\ Lead \in {0, 2}
         /\ cell.gated => Lead = 2 /\ Len(s) = 8 /\ s[1] = Claim /\ s[2] = Submit(<< "resume" >>)
                           /\ s[7] = Sync
         /\ ~cell.gated => Lead = 0 /\ Len(s) = 5
         /\ s[Lead + 1] = Resumed /\ s[Lead + 2] = Answer(p)
         /\ s[Lead + 3] = Op(<< "write", 2 >>) /\ s[Lead + 4] = Op(<< "put", 2 >>)
         /\ s[Len(s)] = Returned /\ \A i \in DOMAIN s : i < Len(s) => s[i] # Returned
<1> DEFINE e == Answer(p)
           nodes == cell.nodes[p]
           d == << << "write", 1 >>, << "interrupt" >> >>
           a == IF cell.gated THEN << Claim, Submit(<< "resume" >>) >> ELSE << >>
           g == GraphNodes(nodes, 2)
           b == Resuming(g)
           c == IF cell.gated THEN << Sync, Returned >> ELSE << Returned >>
<1>1. /\ nodes = << << Effect("pre") >>, << Interrupt, e >> >> /\ e[1] = "effect"
      /\ e # Interrupt /\ Len(nodes) = 2
  BY RaceFacts DEF Effect, Interrupt
<1>2. NextNode(nodes, d) = 2 /\ Parked(nodes, d)
  <2>1. Has(d, << "write", 1 >>) /\ Has(d, << "interrupt" >>) /\ ~Has(d, << "write", 2 >>)
    BY DEF Has, Range
  <2> HIDE DEF d, nodes
  <2> QED BY <1>1, <2>1, GateNext
<1>3. s = a \o b \o c
  BY <1>2 DEF Firing, graph
<1> HIDE DEF e, nodes
<1>4. /\ Sequence(g) /\ Len(g) = 4 /\ g[1] = Interrupt /\ g[2] = e
      /\ g[3] = Op(<< "write", 2 >>) /\ g[4] = Op(<< "put", 2 >>)
  BY <1>1, GateNodes
<1> HIDE DEF g
<1>5. /\ Sequence(b) /\ Len(b) = 4 /\ b[1] = Resumed /\ b[2] = e
      /\ b[3] = Op(<< "write", 2 >>) /\ b[4] = Op(<< "put", 2 >>)
  <2>1. DOMAIN g = 1 .. 4
    BY <1>4, SequenceDomain
  <2>2. /\ b = [i \in 1 .. 4 |-> IF g[i] = Interrupt THEN Resumed ELSE g[i]]
    BY <2>1 DEF Resuming
  <2>3. Op(<< "write", 2 >>) # Interrupt /\ Op(<< "put", 2 >>) # Interrupt
    BY DEF Op, Interrupt
  <2> HIDE DEF b
  <2>4. Sequence(b)
    <3> DEFINE S == {Resumed} \cup {g[i] : i \in 1 .. 4}
    <3>1. b \in [1 .. Len(g) -> S] /\ Len(g) \in Nat
      BY <1>4, <2>2
    <3> HIDE DEF S
    <3>2. b \in Seq(S)
      BY <3>1
    <3> QED BY <3>2, SequenceOf
  <2>5. Len(b) = 4
    BY <2>2
  <2> QED BY <1>1, <1>4, <2>2, <2>3, <2>4, <2>5
<1>6. /\ Sequence(a) /\ Sequence(c) /\ Len(a) = Lead
      /\ cell.gated => Lead = 2 /\ a[1] = Claim /\ a[2] = Submit(<< "resume" >>)
                        /\ Len(c) = 2 /\ c[1] = Sync /\ c[2] = Returned
      /\ ~cell.gated => Lead = 0 /\ Len(c) = 1 /\ c[1] = Returned
  BY Tuples, NothingLeft DEF Lead, Well
<1> HIDE DEF a, b, c
<1>7. /\ Sequence(s) /\ Len(s) = Len(a) + Len(b) + Len(c)
      /\ \A i \in 1 .. Len(a) : s[i] = a[i]
      /\ \A i \in 1 .. Len(b) : s[Len(a) + i] = b[i]
      /\ \A i \in 1 .. Len(c) : s[Len(a) + Len(b) + i] = c[i]
  <2> DEFINE w == a \o b \o c
  <2>1. Sequence(a) /\ Sequence(b) /\ Sequence(c)
    BY <1>5, <1>6
  <2>2. /\ Sequence(w) /\ Len(w) = Len(a) + Len(b) + Len(c)
        /\ \A i \in 1 .. Len(a) : w[i] = a[i]
        /\ \A i \in 1 .. Len(b) : w[Len(a) + i] = b[i]
        /\ \A i \in 1 .. Len(c) : w[Len(a) + Len(b) + i] = c[i]
    BY <2>1, WrappedIn
  <2> HIDE DEF w
  <2>3. s = w
    BY <1>3 DEF w
  <2> QED BY <2>2, <2>3
<1>8. /\ s[Lead + 1] = Resumed /\ s[Lead + 2] = e
      /\ s[Lead + 3] = Op(<< "write", 2 >>) /\ s[Lead + 4] = Op(<< "put", 2 >>)
  BY <1>5, <1>6, <1>7
<1>9. DOMAIN s = 1 .. Len(s)
  BY <1>7, SequenceDomain
<1>10. CASE cell.gated
  <2>1. Len(a) = 2 /\ Lead = 2 /\ Len(b) = 4 /\ Len(c) = 2
    BY <1>5, <1>6, <1>10
  <2>2. Len(s) = 8 /\ s[1] = Claim /\ s[2] = Submit(<< "resume" >>)
    BY <1>6, <1>7, <1>10, <2>1
  <2>3. s[7] = Sync /\ s[8] = Returned
    <3>1. s[2 + 4 + 1] = c[1] /\ s[2 + 4 + 2] = c[2]
      BY <1>7, <2>1
    <3> QED BY <1>6, <1>10, <3>1
  <2>4. \A i \in DOMAIN s : i < 8 => s[i] # Returned
    <3>1. \A i \in DOMAIN s : i < 8 => i \in {1, 2, 3, 4, 5, 6, 7}
      BY <1>9, <2>2
    <3>2. \A i \in {1, 2, 3, 4, 5, 6, 7} : s[i][1] # "returned"
      BY <1>1, <1>8, <2>1, <2>2, <2>3 DEF Op, Claim, Submit, Resumed, Sync
    <3> QED BY <3>1, <3>2 DEF Returned
  <2>5. Sequence(s)
    BY <1>7
  <2> HIDE DEF e
  <2> QED BY <1>8, <1>10, <2>1, <2>2, <2>3, <2>4, <2>5 DEF e
<1>11. CASE ~cell.gated
  <2>1. Len(a) = 0 /\ Lead = 0 /\ Len(b) = 4 /\ Len(c) = 1
    BY <1>5, <1>6, <1>11
  <2>2. Len(s) = 5
    BY <1>7, <2>1
  <2>3. s[5] = Returned
    <3>1. s[0 + 4 + 1] = c[1]
      BY <1>7, <2>1
    <3> QED BY <1>6, <1>11, <3>1
  <2>4. \A i \in DOMAIN s : i < 5 => s[i] # Returned
    <3>1. \A i \in DOMAIN s : i < 5 => i \in {1, 2, 3, 4}
      BY <1>9, <2>2
    <3>2. \A i \in {1, 2, 3, 4} : s[i][1] # "returned"
      BY <1>1, <1>8, <2>1, <2>2 DEF Op, Resumed
    <3> QED BY <3>1, <3>2 DEF Returned
  <2>5. Sequence(s)
    BY <1>7
  <2> QED BY <1>8, <1>11, <2>1, <2>2, <2>3, <2>4, <2>5 DEF e
<1> QED BY <1>10, <1>11

LEMMA RacePlan ==
  ASSUME cell \in Experiments, cell.name \in RaceNames
  PROVE  /\ Plan(1, "input") = Parking
         /\ \A p \in Child, how \in {"True", "False"} :
              Wrote(1) /\ Has(durable[1], << "interrupt" >>) =>
                Plan(p, how) = IF Wrote(2) THEN << Returned >> ELSE Firing(p)
<1>1. /\ 1 \in Child
      /\ \A p \in Child : \A how :
           Plan(p, how) = graph(cell.nodes[p], how, durable[1], cell.gated)
  BY RaceFacts DEF Race, Plan
<1>2. Plan(1, "input") = Parking
  BY <1>1 DEF Parking, graph
<1>3. ASSUME NEW p \in Child, NEW how \in {"True", "False"},
             Wrote(1), Has(durable[1], << "interrupt" >>)
      PROVE  Plan(p, how) = IF Wrote(2) THEN << Returned >> ELSE Firing(p)
  <2> DEFINE nodes == cell.nodes[p]
             d == << << "write", 1 >>, << "interrupt" >> >>
  <2>1. Len(nodes) = 2
    BY RaceFacts
  <2>2. Has(d, << "write", 1 >>) /\ Has(d, << "interrupt" >>) /\ ~Has(d, << "write", 2 >>)
    BY DEF Has, Range
  <2> HIDE DEF nodes, d
  <2>3. NextNode(nodes, d) = 2 /\ Parked(nodes, d)
    BY <2>1, <2>2, GateNext
  <2>4. /\ ~Wrote(2) => NextNode(nodes, durable[1]) = 2 /\ Parked(nodes, durable[1])
        /\ Wrote(2) => ~Parked(nodes, durable[1])
    BY <1>3, <2>1, GateNext DEF Wrote
  <2>5. Plan(p, how) = graph(nodes, how, durable[1], cell.gated)
    BY <1>1 DEF nodes
  <2>6. Firing(p) = graph(nodes, "True", d, cell.gated)
    BY DEF Firing, nodes, d
  <2>7. CASE Wrote(2)
    BY <2>4, <2>5, <2>7 DEF graph
  <2>8. CASE ~Wrote(2)
    BY <2>3, <2>4, <2>5, <2>6, <2>8 DEF graph
  <2> QED BY <2>7, <2>8
<1> QED BY <1>2, <1>3

-----------------------------------------------------------------------------
(* The steps of the children of a race.                                    *)

\* Some answer has taken the effect that the parked interrupt guards.
Fired == \E r \in ledger : r[1] = 1 /\ r[2] \in AnswerTask

\* One store, whose only queued operation is the answer of a gated resume.
Engines ==
  /\ durable = [t \in Child |-> durable[t]] /\ Sequence(durable[1])
  /\ \A p \in Child : Sequence(queue[p]) /\ Range(queue[p]) \subseteq {<< "resume" >>}

\* What is left when the first invoke of s is over.
Over(s) == SubSeq(s, InvokeEnd(s) + 1, Len(s))

Adds(o) ==
  Sequence(durable'[1]) /\ Range(durable'[1]) = Range(durable[1]) \cup {o}

\* The steps of a child of a race, by the step it takes.
Waits(p) ==
  /\ todo'[p] = todo[p] /\ UNCHANGED << ledger, claims >>
  /\ st'[p] \in {"running", "exited"} /\ (st'[p] = "exited" => todo[p] = << >>)
  /\ UNCHANGED durable \/ Adds(<< "resume" >>)

Passes(p) ==
  /\ Head(todo[p])[1] \in {"ready", "await_start", "sync", "resumed", "submit"}
  /\ todo'[p] = Tail(todo[p]) /\ UNCHANGED << ledger, claims, durable >>

Starts(p) ==
  /\ Head(todo[p])[1] = "invoke"
  /\ todo'[p] = Plan(p, Arg(p)) \o Tail(todo[p]) /\ UNCHANGED << ledger, claims, durable >>

Fires1(p) ==
  /\ Head(todo[p])[1] = "effect"
  /\ todo'[p] = Tail(todo[p]) /\ UNCHANGED << claims, durable >>
  /\ ledger' = ledger \cup {<< 1, Arg(p), p >>}

Saves(p) ==
  /\ Head(todo[p])[1] = "op"
  /\ todo'[p] = Tail(todo[p]) /\ UNCHANGED << ledger, claims >>
  /\ Adds(Arg(p))

Finishes(p) ==
  /\ todo'[p] = Over(todo[p]) /\ UNCHANGED << ledger, claims >>
  /\ \/ Head(todo[p])[1] = "interrupt" /\ Adds(<< "interrupt" >>)
     \/ Head(todo[p])[1] = "returned" /\ UNCHANGED durable
     \/ Head(todo[p])[1] = "claim" /\ claims[1] # 0 /\ UNCHANGED durable

Claims1(p) ==
  /\ Head(todo[p])[1] = "claim" /\ claims[1] = 0
  /\ todo'[p] = Tail(todo[p]) /\ UNCHANGED << ledger, durable >>
  /\ claims'[1] = p

\* What no child of a race comes to.
Regular(p) ==
  /\ Sequence(todo[p])
  /\ todo[p] # << >> =>
       /\ Head(todo[p])[1] \notin {"park", "die", "crash", "recv", "raise"}
       /\ Head(todo[p])[1] = "submit" => Arg(p) = << "resume" >>

Fair == ~late /\ busy = 0 /\ \A p \in Child : st[p] # "failed"

LEMMA RaceMoves ==
  ASSUME TypeInv, cell.name \in RaceNames, Engines, NEW p \in Child, Fair',
         Regular(p), ChildStep(p) \/ Busy(p) \/ Broken(p)
  PROVE  /\ Engines'
         /\ Waits(p) \/ (/\ todo[p] # << >> /\ st'[p] = "running"
                         /\ \/ Passes(p) \/ Starts(p) \/ Fires1(p) \/ Saves(p)
                            \/ Finishes(p) \/ Claims1(p))
<1>0. /\ Race(cell) /\ 1 \in Child /\ Thread(p) = 1 /\ Shaped /\ RigTypeOK /\ cell' = cell
      /\ cell.hook = << "none" >> /\ Followed(p) /\ Child' = Child
  BY RaceFacts, ChildFrame DEF Race, TypeInv, Child
<1>1. /\ Sequence(durable[1]) /\ durable = [t \in Child |-> durable[t]]
      /\ \A q \in Child : Sequence(queue[q]) /\ Range(queue[q]) \subseteq {<< "resume" >>}
  BY DEF Engines
<1>2. ASSUME NEW o, durable' = [durable EXCEPT ![1] = Append(@, o)]
      PROVE  Adds(o) /\ durable' = [t \in Child |-> durable'[t]]
  <2>1. durable'[1] = Append(durable[1], o) /\ durable' = [t \in Child |-> durable'[t]]
    BY <1>0, <1>1, <1>2
  <2> QED BY <1>1, <2>1, RangeStep DEF Adds
<1>3. Sequence(<< >>) /\ Range(<< >>) = {}
  BY NothingLeft DEF Well, Range
<1>4. \A q \in Child \ {p} : queue'[q] = queue[q]
  BY <1>0, ChildFrame DEF Same
<1>5. ASSUME queue'[p] = queue[p] \/ queue'[p] = << >>
      PROVE  \A q \in Child : Sequence(queue'[q]) /\ Range(queue'[q]) \subseteq {<< "resume" >>}
  BY <1>1, <1>3, <1>4, <1>5
<1> USE DEF child, engine, files
<1>6. todo[p] # << >> => << >> \o Tail(todo[p]) = Tail(todo[p])
  <2>1. todo[p] # << >> => Tail(todo[p]) \in Seq(Range(Tail(todo[p])))
    BY TailOf DEF Sequence, Regular
  <2> QED BY <2>1
<1>7. ASSUME NEW x, Then(p, x) PROVE todo'[p] = x \o Tail(todo[p])
  BY <1>0, <1>7 DEF Then, Shaped
<1>8. ASSUME NEW x, EndInvoke(p, x) PROVE todo'[p] = Over(todo[p])
  BY <1>0, <1>8 DEF EndInvoke, Shaped, Over
<1>9. CASE Steps(p)
  <2>1. UNCHANGED << queue, durable, claims >> /\ st' = st /\ todo[p] # << >>
    BY <1>9 DEF Steps, _invoke, TakeEffect, OpenFlag, ParkHere, SeeStart,
             CrashHere, Receive, Continue, Join, At
  <2>2. Engines'
    BY <1>0, <1>1, <2>1 DEF Engines
  <2>3. st'[p] = "running"
    BY <1>0, <2>1 DEF Followed, Running
  <2>4. CASE _invoke(p)
    BY <1>7, <2>1, <2>2, <2>3, <2>4 DEF _invoke, At, Starts
  <2>5. CASE TakeEffect(p)
    BY <1>0, <1>6, <1>7, <2>1, <2>2, <2>3, <2>5 DEF TakeEffect, At, Fires1, ledger_write
  <2>6. CASE OpenFlag(p) \/ SeeStart(p) \/ Continue(p) \/ Join(p)
    <3>1. Then(p, << >>) /\ UNCHANGED << ledger, durable, claims >>
      BY <2>6 DEF OpenFlag, SeeStart, Continue, Join
    <3>2. Head(todo[p])[1] \in {"ready", "await_start", "sync", "resumed"}
      BY <2>6 DEF OpenFlag, SeeStart, Continue, Join, At
    <3> QED BY <1>6, <1>7, <2>1, <2>2, <2>3, <3>1, <3>2 DEF Passes
  <2>7. CASE ParkHere(p) \/ CrashHere(p) \/ Receive(p)
    BY <2>7 DEF ParkHere, CrashHere, Receive, At, Regular
  <2> QED BY <1>9, <2>4, <2>5, <2>6, <2>7 DEF Steps
<1>10. CASE Ends(p)
  <2>1. UNCHANGED << queue, claims, ledger >> /\ st' = st /\ todo[p] # << >>
    BY <1>10 DEF Ends, Ask, Busy, Fail, InvokeReturns, At
  <2>2. st'[p] = "running"
    BY <1>0, <2>1 DEF Followed, Running
  <2>3. todo'[p] = Over(todo[p])
    BY <1>10, <1>8 DEF Ends, Ask, Busy, Fail, InvokeReturns
  <2>4. CASE Ask(p)
    <3>1. durable' = [durable EXCEPT ![1] = Append(@, << "interrupt" >>)]
          /\ Head(todo[p])[1] = "interrupt"
      BY <1>0, <2>4 DEF Ask, At
    <3>2. Adds(<< "interrupt" >>) /\ Engines'
      BY <1>0, <1>1, <1>2, <2>1, <3>1 DEF Engines, Adds
    <3> QED BY <2>1, <2>2, <2>3, <3>1, <3>2 DEF Finishes
  <2>5. CASE Busy(p)
    BY <1>0, <2>5, RigAssumption DEF Busy, Fair, RigTypeOK
  <2>6. CASE Fail(p)
    BY <2>6 DEF Fail, At, Regular
  <2>7. CASE InvokeReturns(p)
    <3>1. Head(todo[p])[1] = "returned" /\ UNCHANGED durable
      BY <2>7 DEF InvokeReturns, At
    <3> QED BY <1>0, <1>1, <2>1, <2>2, <2>3, <3>1 DEF Engines, Finishes
  <2> QED BY <1>10, <2>4, <2>5, <2>6, <2>7 DEF Ends
<1>11. CASE Goes(p)
  <2>1. UNCHANGED << durable, claims, ledger >> /\ queue'[p] = << >>
    BY <1>0, <1>11 DEF Goes, _die, Exit, Broken, Gone, Shaped
  <2>2. Engines'
    BY <1>0, <1>1, <1>5, <2>1 DEF Engines
  <2>3. CASE _die(p)
    BY <2>3 DEF _die, At, Regular
  <2>4. CASE Exit(p)
    <3>1. todo[p] = << >> /\ todo'[p] = << >> /\ st'[p] = "exited"
      BY <1>0, <2>4 DEF Exit, Gone, Shaped
    <3> QED BY <2>1, <2>2, <3>1 DEF Waits
  <2>5. CASE Broken(p)
    <3>1. st'[p] = "failed"
      BY <1>0, <2>5 DEF Broken, Gone, Shaped
    <3> QED BY <1>0, <3>1 DEF Fair
  <2> QED BY <1>11, <2>3, <2>4, <2>5 DEF Goes
<1>12. CASE FillFlag(p) \/ ParkInSaver(p)
  <2>1. UNCHANGED << durable, claims, ledger, todo, st, queue >>
    BY <1>12 DEF FillFlag, ParkInSaver
  <2>2. Engines' /\ st'[p] = "running"
    BY <1>0, <1>1, <2>1 DEF Engines, Followed, Running
  <2> QED BY <2>1, <2>2 DEF Waits
<1>13. CASE Write(p)
  <2>1. UNCHANGED << claims, ledger >> /\ todo[p] # << >> /\ Head(todo[p])[1] = "op"
    BY <1>13 DEF Write, At
  <2>2. durable' = [durable EXCEPT ![1] = Append(@, Arg(p))]
    BY <1>0, <1>13 DEF Write
  <2>3. ~DiesAfter(p, Arg(p))
    BY <1>0 DEF DiesAfter
  <2>4. Then(p, << >>) /\ UNCHANGED << st, queue >>
    BY <1>13, <2>3 DEF Write
  <2>5. Adds(Arg(p)) /\ Engines' /\ st'[p] = "running"
    BY <1>0, <1>1, <1>2, <2>2, <2>4 DEF Engines, Adds, Followed, Running
  <2> QED BY <1>6, <1>7, <2>1, <2>4, <2>5 DEF Saves
<1>14. CASE claim(p)
  <2>1. UNCHANGED << st, queue, durable, ledger >> /\ todo[p] # << >> /\ Head(todo[p])[1] = "claim"
    BY <1>14 DEF claim, At
  <2>2. Engines' /\ st'[p] = "running"
    BY <1>0, <1>1, <2>1 DEF Engines, Followed, Running
  <2>3. CASE claims[1] = 0
    <3>1. Then(p, << >>) /\ claims'[1] = p
      BY <1>0, <1>14, <2>3 DEF claim, RigTypeOK
    <3> QED BY <1>6, <1>7, <2>1, <2>2, <2>3, <3>1 DEF Claims1
  <2>4. CASE claims[1] # 0
    <3>1. EndInvoke(p, "rejected") /\ UNCHANGED claims
      BY <1>0, <1>14, <2>4 DEF claim
    <3> QED BY <1>8, <2>1, <2>2, <2>4, <3>1 DEF Finishes
  <2> QED BY <2>3, <2>4
<1>15. CASE Enqueue(p)
  <2>1. UNCHANGED << st, durable, claims, ledger >> /\ todo[p] # << >> /\ Head(todo[p])[1] = "submit"
    BY <1>15 DEF Enqueue, At
  <2>2. Then(p, << >>) /\ Arg(p) = << "resume" >> /\ queue' = [queue EXCEPT ![p] = Append(@, Arg(p))]
    BY <1>15, <2>1 DEF Enqueue, Regular
  <2>3. queue'[p] = Append(queue[p], << "resume" >>)
    BY <1>0, <2>2 DEF Shaped
  <2>4. Sequence(queue'[p]) /\ Range(queue'[p]) \subseteq {<< "resume" >>}
    BY <1>1, <2>3, RangeStep
  <2>5. Engines' /\ st'[p] = "running"
    BY <1>0, <1>1, <1>4, <2>1, <2>4 DEF Engines, Followed, Running
  <2> QED BY <1>6, <1>7, <2>1, <2>2, <2>5 DEF Passes
<1>16. CASE Flush(p)
  <2>1. UNCHANGED << st, todo, claims, ledger >> /\ queue[p] # << >>
    BY <1>16 DEF Flush
  <2> DEFINE o == << "resume" >>
  <2>2. /\ Head(queue[p]) = o /\ Sequence(Tail(queue[p])) /\ Range(Tail(queue[p])) \subseteq {o}
    BY <1>1, <2>1, RangeStep, TailOf
  <2>3. queue'[p] = Tail(queue[p])
    BY <1>0, <1>16 DEF Flush, Shaped
  <2>4. Lands(p, o) = << o >>
    BY <1>0 DEF Lands, Drops
  <2> HIDE DEF o
  <2>5. durable' = [durable EXCEPT ![1] = @ \o << o >>]
    BY <1>0, <1>16, <2>2, <2>4 DEF Flush
  <2>6. durable'[1] = durable[1] \o << o >> /\ durable' = [t \in Child |-> durable'[t]]
    BY <1>0, <1>1, <2>5
  <2>7. durable[1] \o << o >> = Append(durable[1], o)
    <3>1. durable[1] \in Seq(Range(durable[1]))
      BY <1>1 DEF Sequence
    <3> QED BY <3>1
  <2>8. Adds(o)
    <3>1. durable'[1] = Append(durable[1], o)
      BY <2>6, <2>7
    <3> QED BY <1>1, <3>1, RangeStep DEF Adds
  <2>9. Engines' /\ st'[p] = "running"
    BY <1>0, <1>1, <1>4, <2>1, <2>2, <2>3, <2>6, <2>8 DEF Engines, Followed, Running, Adds, o
  <2> QED BY <2>1, <2>8, <2>9 DEF Waits, o
<1> QED BY <1>1, <1>9, <1>10, <1>11, <1>12, <1>13, <1>14, <1>15, <1>16, ChildCases

\* What is left of child 1, which is not over before its write and the interrupt
\* are durable.
ParkChild ==
  \/ st[1] = "none"
  \/ todo[1] = cell.lives[1]
  \/ \E k \in 1 .. 5 : todo[1] = From(Parking, k) /\ (k >= 4 => Wrote(1))
  \/ todo[1] = << >> /\ Wrote(1) /\ Has(durable[1], << "interrupt" >>)

LEMMA ParkRegular ==
  ASSUME cell \in Experiments, cell.name \in RaceNames, ParkChild, st[1] # "none"
  PROVE  Regular(1)
<1>1. CASE todo[1] = cell.lives[1]
  <2>1. todo[1] = << Invoke("input") >>
    BY <1>1, RaceFacts DEF Race, park_main
  <2>2. Sequence(<< Invoke("input") >>)
    BY Tuples
  <2>3. Head(<< Invoke("input") >>)[1] = "invoke"
    BY DEF Invoke
  <2> QED BY <2>1, <2>2, <2>3 DEF Regular
<1>2. CASE \E k \in 1 .. 5 : todo[1] = From(Parking, k) /\ (k >= 4 => Wrote(1))
  <2>1. PICK k \in 1 .. 5 : todo[1] = From(Parking, k)
    BY <1>2
  <2> DEFINE s == Parking
  <2>2. /\ Sequence(s) /\ Len(s) = 9
        /\ s[1] = Op(<< "put", 0 >>) /\ s[2] = Effect("pre") /\ s[3] = Op(<< "write", 1 >>)
        /\ s[4] = Op(<< "put", 1 >>) /\ s[5] = Interrupt
    BY ParkingIs
  <2> HIDE DEF s
  <2>3. k \in DOMAIN s
    BY <2>2, SequenceDomain
  <2>4. Sequence(From(s, k)) /\ Head(From(s, k)) = s[k]
    <3>1. Sequence(s)
      BY <2>2
    <3> QED BY <2>3, <3>1, FromStep
  <2>5. s[k][1] \in {"op", "effect", "interrupt"}
    <3>1. k \in {1, 2, 3, 4, 5}
      OBVIOUS
    <3> QED BY <2>2, <3>1 DEF Op, Effect, Interrupt
  <2> QED BY <2>1, <2>4, <2>5 DEF Regular, s
<1>3. CASE todo[1] = << >>
  BY <1>3, NothingLeft DEF Regular, Well
<1> QED BY <1>1, <1>2, <1>3 DEF ParkChild

\* Child 1 parks the thread, and answers nothing.
LEMMA ParkMoves ==
  ASSUME TypeInv, cell.name \in RaceNames, Engines, ParkChild, Fair',
         ChildStep(1) \/ Busy(1) \/ Broken(1)
  PROVE  /\ Engines' /\ ParkChild' /\ claims'[1] = claims[1] /\ st'[1] \in {"running", "exited"}
         /\ ledger' = ledger \/ ledger' = ledger \cup {<< 1, "pre", 1 >>}
         /\ Wrote(2)' => Wrote(2)
<1>0. /\ cell \in Experiments /\ Race(cell) /\ 1 \in Child /\ st[1] = "running" /\ cell' = cell
      /\ st'[1] # "none"
  BY RaceFacts, ChildFrame DEF TypeInv, Followed, Running, Stops
<1>1. /\ Engines'
      /\ Waits(1) \/ (/\ todo[1] # << >> /\ st'[1] = "running"
                      /\ \/ Passes(1) \/ Starts(1) \/ Fires1(1) \/ Saves(1)
                         \/ Finishes(1) \/ Claims1(1))
  BY <1>0, ParkRegular, RaceMoves
<1> SUFFICES /\ ParkChild' /\ claims'[1] = claims[1]
             /\ ledger' = ledger \/ ledger' = ledger \cup {<< 1, "pre", 1 >>}
             /\ Wrote(2)' => Wrote(2)
  <2>1. st'[1] \in {"running", "exited"}
    BY <1>1 DEF Waits
  <2> QED BY <1>1, <2>1
<1> DEFINE s == Parking
<1>2. /\ Sequence(s) /\ Len(s) = 9
      /\ s[1] = Op(<< "put", 0 >>) /\ s[2] = Effect("pre") /\ s[3] = Op(<< "write", 1 >>)
      /\ s[4] = Op(<< "put", 1 >>) /\ s[5] = Interrupt
      /\ s[9] = Returned /\ \A i \in DOMAIN s : i < 9 => s[i] # Returned
  BY <1>0, ParkingIs
<1>3. s' = s
  BY <1>0 DEF Parking
<1>4. ASSUME NEW o, Adds(o)
      PROVE  /\ (Wrote(1) => Wrote(1)') /\ Has(durable'[1], o)
             /\ o # << "write", 2 >> => (Wrote(2)' => Wrote(2))
             /\ Has(durable[1], << "interrupt" >>) => Has(durable'[1], << "interrupt" >>)
  BY <1>4 DEF Adds, Wrote, Has
<1>5. UNCHANGED durable => UNCHANGED << Wrote(1), Wrote(2), Has(durable[1], << "interrupt" >>) >>
  BY DEF Wrote
<1>6. /\ << "resume" >> # << "write", 2 >> /\ << "interrupt" >> # << "write", 2 >>
      /\ << "put", 0 >> # << "write", 2 >> /\ << "put", 1 >> # << "write", 2 >>
      /\ << "write", 1 >> # << "write", 2 >>
  OBVIOUS
<1> HIDE DEF s
<1>7. CASE Waits(1)
  <2>1. /\ todo'[1] = todo[1] /\ UNCHANGED << ledger, claims >>
        /\ UNCHANGED durable \/ Adds(<< "resume" >>)
    BY <1>7 DEF Waits
  <2>2. /\ (Wrote(1) => Wrote(1)') /\ (Wrote(2)' => Wrote(2))
        /\ Has(durable[1], << "interrupt" >>) => Has(durable'[1], << "interrupt" >>)
    BY <1>4, <1>5, <1>6, <2>1
  <2>3. ParkChild'
    BY <1>0, <1>3, <2>1, <2>2 DEF ParkChild, s
  <2>4. claims'[1] = claims[1] /\ ledger' = ledger
    BY <2>1
  <2> QED BY <1>1, <2>2, <2>3, <2>4, Zenon
<1>8. CASE todo[1] # << >> /\ todo[1] = cell.lives[1] /\ ~Waits(1)
  <2>1. todo[1] = << Invoke("input") >>
    BY <1>0, <1>8 DEF Race, park_main
  <2>2. Head(todo[1]) = Invoke("input") /\ Tail(todo[1]) = << >>
    BY <2>1
  <2>3. Starts(1) /\ Arg(1) = "input"
    BY <1>1, <1>8, <2>2 DEF Invoke, Passes, Fires1, Saves, Finishes, Claims1, Arg
  <2>4. todo'[1] = s \o << >> /\ UNCHANGED << ledger, claims, durable >>
    BY <1>0, <2>2, <2>3, RacePlan DEF Starts, s
  <2>5. s \o << >> = s
    <3>1. s \in Seq(Range(s))
      BY <1>2 DEF Sequence
    <3> QED BY <3>1
  <2>6. From(s, 1) = s
    <3>1. Sequence(s)
      BY <1>2
    <3> QED BY <3>1, FromEnds
  <2>7. ParkChild'
    BY <1>3, <2>4, <2>5, <2>6 DEF ParkChild, s
  <2> QED BY <1>1, <1>5, <2>4, <2>7
<1>9. CASE /\ todo[1] # << >> /\ ~Waits(1)
           /\ \E k \in 1 .. 5 : todo[1] = From(s, k) /\ (k >= 4 => Wrote(1))
  <2>1. PICK k \in 1 .. 5 : todo[1] = From(s, k) /\ (k >= 4 => Wrote(1))
    BY <1>9
  <2>2. Sequence(s) /\ k \in DOMAIN s
    BY <1>2, SequenceDomain
  <2>3. Head(todo[1]) = s[k] /\ Tail(todo[1]) = From(s, k + 1)
    BY <2>1, <2>2, FromStep
  <2>4. Over(todo[1]) = << >>
    <3>1. s[Len(s)] = Returned /\ \A i \in DOMAIN s : i < Len(s) => s[i] # Returned
      BY <1>2
    <3> QED BY <2>1, <2>2, <3>1, FromEmpty DEF Over
  <2>5. CASE k \in {1, 3, 4}
    <3>1. s[k] = Op(IF k = 1 THEN << "put", 0 >> ELSE IF k = 3 THEN << "write", 1 >> ELSE << "put", 1 >>)
      BY <1>2, <2>5
    <3>2. Saves(1) /\ Arg(1) \in {<< "put", 0 >>, << "write", 1 >>, << "put", 1 >>}
          /\ (k = 3 => Arg(1) = << "write", 1 >>)
      BY <1>1, <1>9, <2>3, <3>1 DEF Op, Passes, Starts, Fires1, Finishes, Claims1, Arg
    <3>3. Adds(Arg(1)) /\ todo'[1] = From(s, k + 1) /\ UNCHANGED << ledger, claims >>
      BY <2>3, <3>2 DEF Saves
    <3>4. (Wrote(2)' => Wrote(2)) /\ (Wrote(1) => Wrote(1)') /\ (k = 3 => Wrote(1)')
      <4> DEFINE o == Arg(1)
      <4>1. Adds(o) /\ o # << "write", 2 >> /\ (k = 3 => o = << "write", 1 >>)
        BY <1>6, <3>2, <3>3
      <4> HIDE DEF o
      <4>2. (Wrote(1) => Wrote(1)') /\ Has(durable'[1], o) /\ (Wrote(2)' => Wrote(2))
        BY <1>4, <4>1
      <4> QED BY <4>1, <4>2 DEF Wrote
    <3>5. k + 1 \in 1 .. 5 /\ (k + 1 >= 4 => Wrote(1)')
      BY <2>1, <2>5, <3>4
    <3>6. ParkChild'
      BY <1>3, <3>3, <3>5 DEF ParkChild, s
    <3> QED BY <1>1, <3>3, <3>4, <3>6
  <2>6. CASE k = 2
    <3>1. s[k] = Effect("pre")
      BY <1>2, <2>6
    <3>2. Fires1(1) /\ Arg(1) = "pre"
      BY <1>1, <1>9, <2>3, <3>1 DEF Effect, Passes, Starts, Saves, Finishes, Claims1, Arg
    <3>3. /\ todo'[1] = From(s, k + 1) /\ UNCHANGED << claims, durable >>
          /\ ledger' = ledger \cup {<< 1, "pre", 1 >>}
      BY <2>3, <3>2 DEF Fires1
    <3>4. k + 1 \in 1 .. 5 /\ ~(k + 1 >= 4)
      BY <2>6
    <3>5. ParkChild'
      BY <1>3, <3>3, <3>4 DEF ParkChild, s
    <3> QED BY <1>1, <1>5, <3>3, <3>5
  <2>7. CASE k = 5
    <3>1. s[k] = Interrupt
      BY <1>2, <2>7
    <3>2. Finishes(1) /\ Adds(<< "interrupt" >>)
      BY <1>1, <1>9, <2>3, <3>1 DEF Interrupt, Passes, Starts, Saves, Finishes, Fires1, Claims1
    <3>3. todo'[1] = << >> /\ UNCHANGED << ledger, claims >>
      BY <2>4, <3>2 DEF Finishes
    <3>4. Wrote(1)' /\ (Wrote(2)' => Wrote(2)) /\ Has(durable'[1], << "interrupt" >>)
      BY <1>4, <1>6, <2>1, <2>7, <3>2
    <3>5. ParkChild'
      BY <3>3, <3>4 DEF ParkChild
    <3> QED BY <1>1, <3>3, <3>4, <3>5
  <2>8. k \in {1, 2, 3, 4, 5}
    OBVIOUS
  <2> QED BY <2>5, <2>6, <2>7, <2>8
<1> QED BY <1>0, <1>1, <1>7, <1>8, <1>9 DEF ParkChild, s

\* What is left of a child that answers: it starts when child 1 has exited, and
\* is past its effect only when an answer has fired.
Racer(p) ==
  \/ st[p] = "none"
  \/ /\ st[1] = "exited"
     /\ \/ \E k \in DOMAIN cell.lives[p] : todo[p] = From(cell.lives[p], k)
        \/ \E k \in 1 .. Lead + 2 :
             todo[p] = From(Firing(p), k) /\ (cell.gated /\ k > 1 => claims[1] = p)
        \/ Fired /\ \E k \in Lead + 3 .. Len(Firing(p)) + 1 : todo[p] = From(Firing(p), k)
        \/ cell.gated /\ claims[1] \notin {0, p} /\ todo[p] = << >>

\* Who holds the claim fires, or is about to.
Winner ==
  cell.gated /\ claims[1] # 0 =>
    /\ claims[1] # 1
    /\ Fired \/ \E k \in 2 .. 4 : todo[claims[1]] = From(Firing(claims[1]), k)

LEMMA Triple == ASSUME NEW a, NEW b, NEW c PROVE Sequence(<< a, b, c >>)
<1>1. << a, b, c >> \in Seq({a, b, c})
  OBVIOUS
<1> QED BY <1>1, SequenceOf

LEMMA LivesIs ==
  ASSUME NEW p \in Child \ {1}, NEW s, s = cell.lives[p],
         cell \in Experiments, cell.name \in RaceNames
  PROVE  /\ Sequence(s) /\ Len(s) \in Nat \ {0}
         /\ \E a \in {"True", "False"} : s[Len(s)] = Invoke(a)
         /\ \A i \in DOMAIN s : i < Len(s) => s[i] \in {Ready, AwaitStart}
<1>1. PICK a \in {"True", "False"} : s \in {racer_main(a), single_main(a)}
  BY RaceFacts DEF Race, Child
<1>2. CASE s = racer_main(a)
  <2> DEFINE c == Invoke(a)
             t == << Ready, AwaitStart, c >>
  <2>1. s = t
    BY <1>2 DEF racer_main
  <2>2. Sequence(t)
    BY Triple
  <2>3. Len(t) = 3 /\ t[1] = Ready /\ t[2] = AwaitStart /\ t[3] = c
    OBVIOUS
  <2> HIDE DEF t
  <2>4. DOMAIN t = 1 .. 3
    BY <2>2, <2>3, SequenceDomain
  <2> QED BY <2>1, <2>2, <2>3, <2>4
<1>3. CASE s = single_main(a)
  <2> DEFINE t == << Invoke(a) >>
  <2>1. s = t
    BY <1>3 DEF single_main
  <2>2. Sequence(t) /\ Len(t) = 1 /\ t[1] = Invoke(a)
    BY Tuples
  <2> HIDE DEF t
  <2>3. DOMAIN t = 1 .. 1
    BY <2>2, SequenceDomain
  <2> QED BY <2>1, <2>2, <2>3
<1> QED BY <1>1, <1>2, <1>3

\* The next step of a child that answers, and what it leaves.
Next(p) ==
  \/ todo[p] = << >>
  \/ \E k \in DOMAIN cell.lives[p] :
       /\ todo[p] # << >> /\ todo[p] = From(cell.lives[p], k)
       /\ \/ /\ k + 1 \in DOMAIN cell.lives[p] /\ Head(todo[p]) \in {Ready, AwaitStart}
             /\ Tail(todo[p]) = From(cell.lives[p], k + 1)
          \/ /\ \E a \in {"True", "False"} : Head(todo[p]) = Invoke(a)
             /\ Tail(todo[p]) = << >>
  \/ \E k \in 1 .. Len(Firing(p)) :
       /\ todo[p] # << >> /\ todo[p] = From(Firing(p), k) /\ Head(todo[p]) = Firing(p)[k]
       /\ Tail(todo[p]) = From(Firing(p), k + 1) /\ Over(todo[p]) = << >>
       /\ k > Lead + 2 => Fired
       /\ cell.gated /\ 1 < k /\ k <= Lead + 2 => claims[1] = p

LEMMA RacerNext ==
  ASSUME NEW p \in Child \ {1}, cell \in Experiments, cell.name \in RaceNames,
         Racer(p), st[p] # "none"
  PROVE  Next(p) /\ Sequence(todo[p]) /\ st[1] = "exited"
<1> DEFINE l == cell.lives[p]
           f == Firing(p)
<1>0. st[1] = "exited"
  BY DEF Racer
<1>1. /\ Sequence(l) /\ Len(l) \in Nat \ {0}
      /\ \E a \in {"True", "False"} : l[Len(l)] = Invoke(a)
      /\ \A i \in DOMAIN l : i < Len(l) => l[i] \in {Ready, AwaitStart}
  BY LivesIs
<1>2. /\ Sequence(f) /\ Lead \in {0, 2} /\ Len(f) \in {5, 8} /\ Lead + 3 <= Len(f)
      /\ f[Len(f)] = Returned /\ \A i \in DOMAIN f : i < Len(f) => f[i] # Returned
  BY FiringIs
<1>3. DOMAIN l = 1 .. Len(l) /\ DOMAIN f = 1 .. Len(f)
  BY <1>1, <1>2, SequenceDomain
<1> HIDE DEF l, f
<1>4. CASE todo[p] = << >>
  BY <1>4, NothingLeft DEF Next, Well, Racer
<1>5. ASSUME todo[p] # << >>, NEW k \in DOMAIN l, todo[p] = From(l, k)
      PROVE  Next(p) /\ Sequence(todo[p])
  <2>1. Sequence(l)
    BY <1>1
  <2>2. /\ Sequence(todo[p]) /\ Head(todo[p]) = l[k] /\ Tail(todo[p]) = From(l, k + 1)
    BY <1>5, <2>1, FromStep
  <2>3. CASE k < Len(l)
    <3>1. k + 1 \in DOMAIN l
      BY <1>1, <1>3, <2>3
    <3> QED BY <1>1, <1>5, <2>2, <2>3, <3>1 DEF Next, l
  <2>4. CASE k = Len(l)
    <3>1. Tail(todo[p]) = << >>
      BY <2>1, <2>2, <2>4, FromEnds
    <3> QED BY <1>1, <1>5, <2>2, <2>4, <3>1 DEF Next, l
  <2> QED BY <1>1, <1>3, <2>3, <2>4
<1>6. ASSUME todo[p] # << >>, NEW k \in DOMAIN f, todo[p] = From(f, k), k > Lead + 2 => Fired,
             cell.gated /\ 1 < k /\ k <= Lead + 2 => claims[1] = p
      PROVE  Next(p) /\ Sequence(todo[p])
  <2>1. Sequence(f)
    BY <1>2
  <2>2. /\ Sequence(todo[p]) /\ Head(todo[p]) = f[k] /\ Tail(todo[p]) = From(f, k + 1)
    BY <1>6, <2>1, FromStep
  <2>3. Over(todo[p]) = << >>
    BY <1>2, <1>6, FromEmpty DEF Over
  <2> QED BY <1>3, <1>6, <2>2, <2>3 DEF Next, f
<1>7. CASE todo[p] # << >>
  <2>1. CASE \E k \in DOMAIN l : todo[p] = From(l, k)
    BY <1>0, <1>5, <1>7, <2>1
  <2>2. CASE \E k \in 1 .. Lead + 2 :
               todo[p] = From(f, k) /\ (cell.gated /\ k > 1 => claims[1] = p)
    <3>1. PICK k \in 1 .. Lead + 2 :
               todo[p] = From(f, k) /\ (cell.gated /\ k > 1 => claims[1] = p)
      BY <2>2
    <3>2. k \in DOMAIN f /\ ~(k > Lead + 2) /\ (1 < k => k > 1)
      BY <1>2, <1>3
    <3> QED BY <1>0, <1>6, <1>7, <3>1, <3>2
  <2>3. CASE Fired /\ \E k \in Lead + 3 .. Len(f) + 1 : todo[p] = From(f, k)
    <3>1. PICK k \in Lead + 3 .. Len(f) + 1 : todo[p] = From(f, k)
      BY <2>3
    <3>2. k # Len(f) + 1
      <4>1. From(f, Len(f) + 1) = << >>
        BY <1>2, FromEnds
      <4> QED BY <1>7, <3>1, <4>1
    <3>3. k \in DOMAIN f /\ ~(k <= Lead + 2)
      BY <1>2, <1>3, <3>2
    <3> QED BY <1>0, <1>6, <1>7, <2>3, <3>1, <3>3
  <2> QED BY <1>7, <2>1, <2>2, <2>3 DEF Racer, l, f
<1> QED BY <1>4, <1>7 DEF Racer

LEMMA FromLast ==
  ASSUME NEW s, Sequence(s), Len(s) # 0
  PROVE  From(s, Len(s)) = << s[Len(s)] >>
<1> DEFINE n == Len(s)
<1>1. s \in Seq(Range(s)) /\ n \in Nat \ {0}
  BY DEF Sequence
<1>2. From(s, n) = [i \in 1 .. n - n + 1 |-> s[i + n - 1]]
  BY <1>1 DEF From
<1>3. n - n + 1 = 1 /\ 1 + n - 1 = n
  BY <1>1
<1> HIDE DEF n
<1>4. From(s, n) = [i \in 1 .. 1 |-> s[i + n - 1]]
  BY <1>2, <1>3
<1>5. [i \in 1 .. 1 |-> s[i + n - 1]] = << s[n] >>
  BY <1>1, <1>3
<1> QED BY <1>4, <1>5 DEF n

\* The steps of an answer, one by one.
LEMMA FiringSteps ==
  ASSUME NEW p \in Child, NEW f, f = Firing(p), cell \in Experiments, cell.name \in RaceNames
  PROVE  /\ Sequence(f) /\ Lead \in {0, 2} /\ DOMAIN f = 1 .. Len(f) /\ Len(f) \in {5, 8}
         /\ f[Len(f)] = Returned
         /\ cell.gated =>
              /\ Lead = 2 /\ Len(f) = 8
              /\ f[1] = Claim /\ f[2] = Submit(<< "resume" >>) /\ f[3] = Resumed
              /\ f[4] = Answer(p) /\ f[5] = Op(<< "write", 2 >>) /\ f[6] = Op(<< "put", 2 >>)
              /\ f[7] = Sync /\ f[8] = Returned
         /\ ~cell.gated =>
              /\ Lead = 0 /\ Len(f) = 5
              /\ f[1] = Resumed /\ f[2] = Answer(p) /\ f[3] = Op(<< "write", 2 >>)
              /\ f[4] = Op(<< "put", 2 >>) /\ f[5] = Returned
<1>1. /\ Sequence(f) /\ Lead \in {0, 2}
      /\ cell.gated => Lead = 2 /\ Len(f) = 8 /\ f[1] = Claim /\ f[2] = Submit(<< "resume" >>)
                        /\ f[7] = Sync
      /\ ~cell.gated => Lead = 0 /\ Len(f) = 5
      /\ f[Lead + 1] = Resumed /\ f[Lead + 2] = Answer(p)
      /\ f[Lead + 3] = Op(<< "write", 2 >>) /\ f[Lead + 4] = Op(<< "put", 2 >>)
      /\ f[Len(f)] = Returned
  BY FiringIs
<1>2. DOMAIN f = 1 .. Len(f)
  BY <1>1, SequenceDomain
<1>3. Len(f) \in {5, 8}
  BY <1>1
<1>4. CASE cell.gated
  <2>1. Lead = 2 /\ Len(f) = 8
    BY <1>1, <1>4
  <2>2. /\ f[2 + 1] = Resumed /\ f[2 + 2] = Answer(p) /\ f[2 + 3] = Op(<< "write", 2 >>)
        /\ f[2 + 4] = Op(<< "put", 2 >>) /\ f[8] = Returned
    BY <1>1, <2>1
  <2> QED BY <1>1, <1>2, <1>3, <1>4, <2>1, <2>2
<1>5. CASE ~cell.gated
  <2>1. Lead = 0 /\ Len(f) = 5
    BY <1>1, <1>5
  <2>2. /\ f[0 + 1] = Resumed /\ f[0 + 2] = Answer(p) /\ f[0 + 3] = Op(<< "write", 2 >>)
        /\ f[0 + 4] = Op(<< "put", 2 >>) /\ f[5] = Returned
    BY <1>1, <2>1
  <2> QED BY <1>1, <1>2, <1>3, <1>5, <2>1, <2>2
<1> QED BY <1>4, <1>5

LEMMA RacerRegular ==
  ASSUME NEW p \in Child \ {1}, cell \in Experiments, cell.name \in RaceNames,
         Racer(p), st[p] # "none"
  PROVE  Regular(p)
<1>1. Next(p) /\ Sequence(todo[p])
  BY RacerNext
<1> DEFINE f == Firing(p)
<1>2. ASSUME NEW k \in 1 .. Len(f)
      PROVE  /\ f[k][1] \notin {"park", "die", "crash", "recv", "raise"}
             /\ f[k][1] = "submit" => f[k][2] = << "resume" >>
  <2>1. /\ Len(f) \in {5, 8} /\ (cell.gated => Len(f) = 8) /\ (~cell.gated => Len(f) = 5)
        /\ cell.gated =>
             /\ f[1] = Claim /\ f[2] = Submit(<< "resume" >>) /\ f[3] = Resumed
             /\ f[4] = Answer(p) /\ f[5] = Op(<< "write", 2 >>) /\ f[6] = Op(<< "put", 2 >>)
             /\ f[7] = Sync /\ f[8] = Returned
        /\ ~cell.gated =>
             /\ f[1] = Resumed /\ f[2] = Answer(p) /\ f[3] = Op(<< "write", 2 >>)
             /\ f[4] = Op(<< "put", 2 >>) /\ f[5] = Returned
    BY FiringSteps
  <2>2. Answer(p)[1] = "effect"
    BY RaceFacts DEF Effect
  <2> HIDE DEF f
  <2>3. CASE cell.gated
    <3>1. Len(f) = 8
      BY <2>1, <2>3
    <3>2. k \in {1, 2, 3, 4, 5, 6, 7, 8}
      BY <3>1
    <3> QED BY <2>1, <2>2, <2>3, <3>2 DEF Op, Claim, Submit, Resumed, Sync, Returned
  <2>4. CASE ~cell.gated
    <3>1. Len(f) = 5
      BY <2>1, <2>4
    <3>2. k \in {1, 2, 3, 4, 5}
      BY <3>1
    <3> QED BY <2>1, <2>2, <2>4, <3>2 DEF Op, Claim, Submit, Resumed, Sync, Returned
  <2> QED BY <2>3, <2>4
<1> HIDE DEF f
<1>3. CASE todo[p] = << >>
  BY <1>1, <1>3 DEF Regular
<1>4. CASE Head(todo[p]) \in {Ready, AwaitStart}
           \/ \E a \in {"True", "False"} : Head(todo[p]) = Invoke(a)
  BY <1>1, <1>4 DEF Regular, Ready, AwaitStart, Invoke
<1>5. CASE \E k \in 1 .. Len(f) : Head(todo[p]) = f[k]
  BY <1>1, <1>2, <1>5 DEF Regular, Arg
<1> QED BY <1>1, <1>3, <1>4, <1>5 DEF Next, f

\* What a child does follows from what its plan comes to.
LEMMA ByHead ==
  ASSUME NEW p \in Child,
         Passes(p) \/ Starts(p) \/ Fires1(p) \/ Saves(p) \/ Finishes(p) \/ Claims1(p)
  PROVE  /\ Head(todo[p])[1] = "invoke" => Starts(p)
         /\ Head(todo[p])[1] \in {"ready", "await_start"} => Passes(p)
<1> DEFINE h == Head(todo[p])[1]
<1>1. /\ Starts(p) => h = "invoke"
      /\ Fires1(p) => h = "effect"
      /\ Saves(p) => h = "op"
      /\ Claims1(p) => h = "claim"
  BY DEF Starts, Fires1, Saves, Claims1
<1>2. Finishes(p) => h \in {"interrupt", "returned", "claim"}
  BY DEF Finishes
<1>3. Passes(p) => h \in {"ready", "await_start", "sync", "resumed", "submit"}
  BY DEF Passes
<1> HIDE DEF h
<1>4. (h = "invoke" => Starts(p)) /\ (h \in {"ready", "await_start"} => Passes(p))
  BY <1>1, <1>2, <1>3
<1> QED BY <1>4 DEF h

\* A child that answers fires at most when its turn has come, and with the gate
\* only when the claim is its own.
LEMMA RacerMoves ==
  ASSUME TypeInv, cell.name \in RaceNames, Engines, ParkChild, Fair', Winner,
         Wrote(2) => Fired, NEW p \in Child \ {1}, Racer(p),
         ChildStep(p) \/ Busy(p) \/ Broken(p)
  PROVE  /\ Engines' /\ ParkChild' /\ Racer(p)' /\ Winner' /\ st'[p] \in {"running", "exited"}
         /\ (Wrote(2)' => Fired') /\ (Fired => Fired')
         /\ \/ ledger' = ledger
            \/ /\ ledger' = ledger \cup {<< 1, Answer(p)[2], p >>}
               /\ cell.gated => claims[1] = p
         /\ claims'[1] = claims[1] \/ (claims[1] = 0 /\ claims'[1] = p)
<1>0. /\ cell \in Experiments /\ 1 \in Child /\ st[p] = "running" /\ cell' = cell /\ Child' = Child
      /\ st'[1] = st[1] /\ st'[p] # "none" /\ RigTypeOK
      /\ \A q \in Child \ {p} : todo'[q] = todo[q]
      /\ Race(cell) /\ p # 0
  BY RaceFacts, ChildFrame DEF TypeInv, Followed, Running, Stops, Same, Child
<1>1. Next(p) /\ Sequence(todo[p]) /\ st[1] = "exited" /\ Regular(p)
  BY <1>0, RacerNext, RacerRegular
<1>2. /\ Engines'
      /\ Waits(p) \/ (/\ todo[p] # << >> /\ st'[p] = "running"
                      /\ \/ Passes(p) \/ Starts(p) \/ Fires1(p) \/ Saves(p)
                         \/ Finishes(p) \/ Claims1(p))
  BY <1>0, <1>1, RaceMoves
<1> DEFINE l == cell.lives[p]
           f == Firing(p)
           e == Answer(p)
           asked == Has(durable[1], << "interrupt" >>)
<1>3. /\ Sequence(f) /\ Lead \in {0, 2} /\ DOMAIN f = 1 .. Len(f) /\ Len(f) \in {5, 8}
      /\ f[Len(f)] = Returned
      /\ cell.gated =>
           /\ Lead = 2 /\ Len(f) = 8
           /\ f[1] = Claim /\ f[2] = Submit(<< "resume" >>) /\ f[3] = Resumed
           /\ f[4] = e /\ f[5] = Op(<< "write", 2 >>) /\ f[6] = Op(<< "put", 2 >>)
           /\ f[7] = Sync /\ f[8] = Returned
      /\ ~cell.gated =>
           /\ Lead = 0 /\ Len(f) = 5
           /\ f[1] = Resumed /\ f[2] = e /\ f[3] = Op(<< "write", 2 >>)
           /\ f[4] = Op(<< "put", 2 >>) /\ f[5] = Returned
  BY <1>0, FiringSteps
<1>4. e \in {Effect("gate:True"), Effect("gate:False")} /\ e[1] = "effect"
  BY <1>0, RaceFacts DEF Effect
<1>5. f' = f /\ l' = l /\ Lead' = Lead
  BY <1>0 DEF Firing, Lead
<1>6. todo[1] = << >> /\ Wrote(1) /\ asked
  <2>1. todo[1] = << >>
    BY <1>0, <1>1 DEF RigTypeOK
  <2>2. cell.lives[1] # << >>
    BY <1>0 DEF Race, park_main
  <2>3. ASSUME NEW k \in 1 .. 5, todo[1] = From(Parking, k) PROVE FALSE
    <3> DEFINE s == Parking
    <3>1. Sequence(s) /\ Len(s) = 9
      BY <1>0, ParkingIs
    <3> HIDE DEF s
    <3>2. k \in DOMAIN s
      BY <3>1, SequenceDomain
    <3>3. From(s, k) # << >>
      BY <3>1, <3>2, FromStep
    <3> QED BY <2>1, <2>3, <3>3 DEF s
  <2> QED BY <1>1, <2>1, <2>2, <2>3 DEF ParkChild
<1>7. \A o : Adds(o) =>
        /\ Wrote(1)' /\ asked' /\ (o # << "write", 2 >> => (Wrote(2)' => Wrote(2)))
  BY <1>6 DEF Adds, Wrote, Has
<1>8. UNCHANGED durable => Wrote(1)' /\ asked' /\ (Wrote(2)' => Wrote(2))
  BY <1>6 DEF Wrote
<1>9. << "resume" >> # << "write", 2 >> /\ << "interrupt" >> # << "write", 2 >>
      /\ << "put", 2 >> # << "write", 2 >>
  OBVIOUS
<1> DEFINE Row == \/ ledger' = ledger
                  \/ /\ ledger' = ledger \cup {<< 1, e[2], p >>}
                     /\ cell.gated => claims[1] = p
           Given == claims'[1] = claims[1] \/ (claims[1] = 0 /\ claims'[1] = p)
           Store == Wrote(1)' /\ asked' /\ (Wrote(2)' => Wrote(2) \/ Fired)
           Holds == cell.gated /\ claims'[1] = p =>
                      Fired' \/ \E k \in 2 .. 4 : todo'[p] = From(f, k)
<1> SUFFICES Row /\ Given /\ Store /\ Holds /\ Racer(p)'
  <2>1. ASSUME Row, Given, Store, Holds, Racer(p)'
        PROVE  /\ ParkChild' /\ Winner' /\ (Wrote(2)' => Fired') /\ (Fired => Fired')
    <3>1. Fired => Fired'
      BY <2>1 DEF Fired
    <3>2. Wrote(2)' => Fired'
      BY <2>1, <3>1
    <3>3. ParkChild'
      BY <1>0, <1>6, <2>1 DEF ParkChild
    <3>4. Winner'
      <4>1. SUFFICES ASSUME cell.gated, claims'[1] # 0
                     PROVE  /\ claims'[1] # 1
                            /\ \/ Fired'
                               \/ \E k \in 2 .. 4 : todo'[claims'[1]] = From(Firing(claims[1])', k)
        BY <1>0 DEF Winner
      <4>2. CASE claims'[1] = p
        BY <1>5, <2>1, <4>1, <4>2
      <4>3. CASE claims'[1] # p
        <5> DEFINE q == claims[1]
        <5>1. claims'[1] = q /\ q \in Child \ {p} /\ q # 0
          BY <1>0, <2>1, <4>1, <4>3 DEF RigTypeOK
        <5>2. todo'[q] = todo[q]
          BY <1>0, <5>1
        <5>3. q # 1 /\ (Fired \/ \E k \in 2 .. 4 : todo[q] = From(Firing(q), k))
          BY <4>1, <5>1 DEF Winner
        <5>4. Firing(claims[1])' = Firing(q)
          BY <1>0, <5>1 DEF Firing
        <5> QED BY <3>1, <5>1, <5>2, <5>3, <5>4
      <4> QED BY <4>2, <4>3
    <3> QED BY <3>1, <3>2, <3>3, <3>4
  <2>2. st'[p] \in {"running", "exited"}
    BY <1>2 DEF Waits
  <2> QED BY <1>2, <2>1, <2>2
<1>10. CASE Waits(p)
  <2>1. todo'[p] = todo[p] /\ UNCHANGED << ledger, claims >>
    BY <1>10 DEF Waits
  <2>2. Store
    BY <1>7, <1>8, <1>9, <1>10 DEF Waits
  <2>3. Racer(p)'
    BY <1>0, <1>1, <1>5, <2>1 DEF Racer, Fired
  <2>4. Holds
    BY <1>0, <2>1 DEF Winner, Fired
  <2> QED BY <2>1, <2>2, <2>3, <2>4
<1>11. CASE ~Waits(p) /\ \E k \in DOMAIN l :
              /\ todo[p] # << >> /\ todo[p] = From(l, k)
              /\ \/ /\ k + 1 \in DOMAIN l /\ Head(todo[p]) \in {Ready, AwaitStart}
                    /\ Tail(todo[p]) = From(l, k + 1)
                 \/ /\ \E a \in {"True", "False"} : Head(todo[p]) = Invoke(a)
                    /\ Tail(todo[p]) = << >>
  <2>1. Head(todo[p])[1] \in {"ready", "await_start", "invoke"}
    BY <1>11 DEF Ready, AwaitStart, Invoke
  <2>2. ASSUME cell.gated, claims[1] = p PROVE Fired
    <3>1. SUFFICES ASSUME NEW k \in 2 .. 4, todo[p] = From(f, k) PROVE FALSE
      BY <1>0, <2>2 DEF Winner
    <3>2. k \in DOMAIN f /\ Sequence(f)
      BY <1>3, <2>2, SequenceDomain
    <3>3. Head(todo[p]) = f[k]
      BY <3>1, <3>2, FromStep
    <3>4. f[k] \in {Submit(<< "resume" >>), Resumed, e}
      <4>1. k \in {2, 3, 4}
        OBVIOUS
      <4> QED BY <1>3, <2>2, <4>1
    <3> QED BY <1>4, <2>1, <3>3, <3>4 DEF Submit, Resumed
  <2>3. CASE \E k \in DOMAIN l : k + 1 \in DOMAIN l /\ Head(todo[p]) \in {Ready, AwaitStart}
                                /\ Tail(todo[p]) = From(l, k + 1)
    <3>1. Passes(p)
      <4>1. Head(todo[p])[1] \in {"ready", "await_start"}
        BY <2>3 DEF Ready, AwaitStart
      <4> QED BY <1>2, <1>11, <4>1, ByHead
    <3>2. todo'[p] = Tail(todo[p]) /\ UNCHANGED << ledger, claims, durable >>
      BY <3>1 DEF Passes
    <3>3. \E k \in DOMAIN l : todo'[p] = From(l, k)
      BY <2>3, <3>2
    <3>4. Racer(p)'
      BY <1>0, <1>1, <1>5, <3>3 DEF Racer
    <3>5. Holds
      BY <2>2, <3>2 DEF Fired
    <3> QED BY <1>8, <3>2, <3>4, <3>5
  <2>4. CASE (\E a \in {"True", "False"} : Head(todo[p]) = Invoke(a)) /\ Tail(todo[p]) = << >>
    <3>1. PICK a \in {"True", "False"} : Head(todo[p]) = Invoke(a)
      BY <2>4
    <3>2. Starts(p) /\ Arg(p) = a
      <4>1. Head(todo[p])[1] = "invoke" /\ Arg(p) = a
        BY <3>1 DEF Invoke, Arg
      <4> QED BY <1>2, <1>11, <4>1, ByHead
    <3>3. todo'[p] = Plan(p, a) \o << >> /\ UNCHANGED << ledger, claims, durable >>
      BY <2>4, <3>2 DEF Starts
    <3>4. Plan(p, a) = IF Wrote(2) THEN << Returned >> ELSE f
      BY <1>0, <1>6, RacePlan
    <3>5. CASE Wrote(2)
      <4>1. todo'[p] = << Returned >>
        BY <3>3, <3>4, <3>5
      <4>2. From(f, Len(f)) = << Returned >>
        <5>1. Sequence(f) /\ Len(f) # 0
          BY <1>3
        <5>2. From(f, Len(f)) = << f[Len(f)] >>
          BY <5>1, FromLast
        <5> QED BY <1>3, <5>2
      <4>3. Len(f) \in Lead + 3 .. Len(f) + 1
        BY <1>3
      <4>4. Fired /\ Fired'
        BY <3>3, <3>5 DEF Fired
      <4>5. Racer(p)'
        BY <1>0, <1>1, <1>5, <4>1, <4>2, <4>3, <4>4 DEF Racer
      <4> QED BY <1>8, <3>3, <4>4, <4>5
    <3>6. CASE ~Wrote(2)
      <4>1. todo'[p] = From(f, 1)
        <5>1. From(f, 1) = f
          BY <1>3, FromEnds
        <5>2. f \o << >> = f
          <6>1. f \in Seq(Range(f))
            BY <1>3 DEF Sequence
          <6> QED BY <6>1
        <5> QED BY <3>3, <3>4, <3>6, <5>1, <5>2
      <4>2. 1 \in 1 .. Lead + 2 /\ ~(1 > 1)
        BY <1>3
      <4>3. Racer(p)'
        BY <1>0, <1>1, <1>5, <4>1, <4>2 DEF Racer
      <4>4. Holds
        BY <2>2, <3>3 DEF Fired
      <4> QED BY <1>8, <3>3, <4>3, <4>4
    <3> QED BY <3>5, <3>6
  <2> QED BY <1>11, <2>3, <2>4
<1>12. ASSUME ~Waits(p), todo[p] # << >>, NEW k \in 1 .. Len(f),
              todo[p] = From(f, k), Head(todo[p]) = f[k],
              Tail(todo[p]) = From(f, k + 1), Over(todo[p]) = << >>,
              k > Lead + 2 => Fired,
              cell.gated /\ 1 < k /\ k <= Lead + 2 => claims[1] = p
       PROVE  Row /\ Given /\ Store /\ Holds /\ Racer(p)'
  <2>1. \/ cell.gated /\ k = 1 /\ f[k] = Claim
        \/ /\ k + 1 \in 1 .. Lead + 2 /\ (cell.gated => k + 1 \in 2 .. 4 /\ claims[1] = p)
           /\ f[k] \in {Submit(<< "resume" >>), Resumed}
        \/ k = Lead + 2 /\ f[k] = e /\ (cell.gated => claims[1] = p)
        \/ k > Lead + 2 /\ k < Len(f) /\ f[k] \in {Op(<< "write", 2 >>), Op(<< "put", 2 >>), Sync}
        \/ k > Lead + 2 /\ f[k] = Returned
    <3>1. CASE cell.gated
      <4>1. Len(f) = 8 /\ Lead = 2
        BY <1>3, <3>1
      <4>2. k \in {1, 2, 3, 4, 5, 6, 7, 8}
        BY <4>1
      <4> QED BY <1>3, <1>12, <3>1, <4>1, <4>2
    <3>2. CASE ~cell.gated
      <4>1. Len(f) = 5 /\ Lead = 0
        BY <1>3, <3>2
      <4>2. k \in {1, 2, 3, 4, 5}
        BY <4>1
      <4> QED BY <1>3, <3>2, <4>1, <4>2
    <3> QED BY <3>1, <3>2
  <2>2. /\ Len(f) + 1 \in Lead + 3 .. Len(f) + 1 /\ Lead + 3 \in Lead + 3 .. Len(f) + 1
        /\ From(f, Len(f) + 1) = << >>
    BY <1>3, FromEnds
  <2>3. CASE cell.gated /\ k = 1 /\ f[k] = Claim
    <3>1. Claims1(p) \/ (Finishes(p) /\ claims[1] # 0 /\ UNCHANGED durable)
      BY <1>2, <1>12, <2>3 DEF Passes, Starts, Fires1, Saves, Finishes, Claim
    <3>2. CASE Claims1(p)
      <4>1. claims[1] = 0 /\ claims'[1] = p /\ todo'[p] = From(f, 2) /\ UNCHANGED << ledger, durable >>
        BY <1>12, <2>3, <3>2 DEF Claims1
      <4>2. 2 \in 1 .. Lead + 2
        BY <1>3, <2>3
      <4>3. Racer(p)'
        BY <1>0, <1>1, <1>5, <4>1, <4>2 DEF Racer
      <4> QED BY <1>8, <4>1, <4>3
    <3>3. CASE Finishes(p) /\ claims[1] # 0 /\ UNCHANGED durable
      <4>1. todo'[p] = << >> /\ UNCHANGED << ledger, claims, durable >>
        BY <1>12, <3>3 DEF Finishes
      <4>2. ASSUME claims[1] = p PROVE Fired
        <5>1. SUFFICES ASSUME NEW j \in 2 .. 4, todo[p] = From(f, j) PROVE FALSE
          BY <1>0, <2>3, <4>2 DEF Winner
        <5>2. j \in DOMAIN f /\ Sequence(f)
          BY <1>3, <2>3
        <5>3. Head(todo[p]) = f[j]
          BY <5>1, <5>2, FromStep
        <5>4. j \in {2, 3, 4}
          OBVIOUS
        <5>5. f[j] \in {Submit(<< "resume" >>), Resumed, e}
          BY <1>3, <2>3, <5>4
        <5> QED BY <1>4, <1>12, <2>3, <5>3, <5>5 DEF Submit, Resumed, Claim
      <4>3. Racer(p)'
        <5>1. CASE claims[1] = p
          BY <1>0, <1>1, <1>5, <2>2, <4>1, <4>2, <5>1 DEF Racer, Fired
        <5>2. CASE claims[1] # p
          BY <1>0, <1>1, <1>5, <2>3, <3>3, <4>1, <5>2 DEF Racer
        <5> QED BY <5>1, <5>2
      <4>4. Holds
        BY <4>1, <4>2 DEF Fired
      <4> QED BY <1>8, <4>1, <4>3, <4>4
    <3> QED BY <3>1, <3>2, <3>3
  <2>4. CASE /\ k + 1 \in 1 .. Lead + 2 /\ (cell.gated => k + 1 \in 2 .. 4 /\ claims[1] = p)
             /\ f[k] \in {Submit(<< "resume" >>), Resumed}
    <3>1. Passes(p)
      BY <1>2, <1>12, <2>4 DEF Starts, Fires1, Saves, Finishes, Claims1, Submit, Resumed
    <3>2. todo'[p] = From(f, k + 1) /\ UNCHANGED << ledger, claims, durable >>
      BY <1>12, <3>1 DEF Passes
    <3>3. Racer(p)'
      BY <1>0, <1>1, <1>5, <2>4, <3>2 DEF Racer
    <3>4. Holds
      BY <2>4, <3>2
    <3> QED BY <1>8, <3>2, <3>3, <3>4
  <2>5. CASE k = Lead + 2 /\ f[k] = e /\ (cell.gated => claims[1] = p)
    <3>1. Fires1(p) /\ Arg(p) = e[2]
      BY <1>2, <1>4, <1>12, <2>5 DEF Passes, Starts, Saves, Finishes, Claims1, Arg
    <3>2. /\ todo'[p] = From(f, Lead + 3) /\ UNCHANGED << claims, durable >>
          /\ ledger' = ledger \cup {<< 1, e[2], p >>}
      BY <1>3, <1>12, <2>5, <3>1 DEF Fires1
    <3>3. Fired'
      <4>1. e[2] \in AnswerTask /\ << 1, e[2], p >> \in ledger'
        BY <1>4, <3>2 DEF Effect, AnswerTask
      <4> QED BY <4>1 DEF Fired
    <3>4. Racer(p)'
      BY <1>0, <1>1, <1>5, <2>2, <3>2, <3>3 DEF Racer
    <3> QED BY <1>8, <2>5, <3>2, <3>3, <3>4
  <2>6. CASE k > Lead + 2 /\ k < Len(f) /\ f[k] \in {Op(<< "write", 2 >>), Op(<< "put", 2 >>), Sync}
    <3>1. Passes(p) \/ Saves(p)
      BY <1>2, <1>12, <2>6 DEF Starts, Fires1, Finishes, Claims1, Op, Sync
    <3>2. /\ todo'[p] = From(f, k + 1) /\ UNCHANGED << ledger, claims >>
          /\ UNCHANGED durable \/ \E o : Adds(o)
      BY <1>12, <3>1 DEF Passes, Saves
    <3>3. Fired /\ Fired'
      BY <1>12, <2>6, <3>2 DEF Fired
    <3>4. k + 1 \in Lead + 3 .. Len(f) + 1
      <4>1. Lead \in Int /\ Len(f) \in Int
        BY <1>3
      <4> QED BY <2>6, <4>1
    <3>5. Racer(p)'
      BY <1>0, <1>1, <1>5, <3>2, <3>3, <3>4 DEF Racer
    <3> QED BY <1>7, <1>8, <3>2, <3>3, <3>5
  <2>7. CASE k > Lead + 2 /\ f[k] = Returned
    <3>1. Finishes(p) /\ UNCHANGED durable
      BY <1>2, <1>12, <2>7 DEF Passes, Starts, Fires1, Saves, Finishes, Claims1, Returned
    <3>2. todo'[p] = From(f, Len(f) + 1) /\ UNCHANGED << ledger, claims >>
      BY <1>12, <2>2, <3>1 DEF Finishes
    <3>3. Fired /\ Fired'
      BY <1>12, <2>7, <3>2 DEF Fired
    <3>4. Racer(p)'
      BY <1>0, <1>1, <1>5, <2>2, <3>2, <3>3 DEF Racer
    <3> QED BY <1>8, <3>1, <3>2, <3>3, <3>4
  <2> QED BY <2>1, <2>3, <2>4, <2>5, <2>6, <2>7
<1>13. CASE ~Waits(p)
  <2>1. todo[p] # << >>
    BY <1>2, <1>13
  <2>2. CASE \E k \in 1 .. Len(f) :
               /\ todo[p] # << >> /\ todo[p] = From(f, k) /\ Head(todo[p]) = f[k]
               /\ Tail(todo[p]) = From(f, k + 1) /\ Over(todo[p]) = << >>
               /\ k > Lead + 2 => Fired
               /\ cell.gated /\ 1 < k /\ k <= Lead + 2 => claims[1] = p
    BY <1>12, <1>13, <2>2
  <2> QED BY <1>1, <1>11, <1>13, <2>1, <2>2 DEF Next
<1> QED BY <1>10, <1>13

\* Every row of an answer is of a child that answers, and with the gate of the
\* one that holds the claim.
Rows ==
  \A r \in ledger : r[2] \in AnswerTask =>
    /\ r[3] \in Child \ {1} /\ r = << 1, Answer(r[3])[2], r[3] >>
    /\ cell.gated => r[3] = claims[1]

RaceVerdict ==
  IF cell.gated THEN fires_once(readings)
                ELSE Fires(readings[1], 1) \in 1 .. Len(cell.lives) - 1

\* What the parent still has to do: to start who answers when child 1 has exited,
\* to wait for who has been started, and to read once, when all have exited.
RaceScript ==
  /\ \A i \in DOMAIN script :
       /\ script[i][1] \in {"spawn", "await", "start", "reap", "count"}
       /\ script[i][1] = "spawn" /\ ~(script[i][2] \subseteq {1}) =>
            \/ st[1] = "exited"
            \/ \E m \in DOMAIN script : m < i /\ script[m][1] = "reap" /\ 1 \in script[m][2]
       /\ script[i][1] = "reap" => \A p \in script[i][2] \cap Child :
            \/ st[p] # "none"
            \/ \E m \in DOMAIN script : m < i /\ script[m][1] = "spawn" /\ p \in script[m][2]
       /\ script[i][1] = "count" =>
            /\ readings = << >>
            /\ \A p \in Child :
                 \/ st[p] = "exited"
                 \/ \E m \in DOMAIN script : m < i /\ script[m][1] = "reap" /\ p \in script[m][2]
       /\ \A j \in DOMAIN script : script[i][1] = "count" /\ script[j][1] = "count" => i = j
  /\ (\A i \in DOMAIN script : script[i][1] # "count") => RaceVerdict

RaceRunning ==
  /\ Engines /\ ParkChild /\ Winner /\ Rows /\ IsFiniteSet(ledger) /\ RaceScript
  /\ \A p \in Child : st[p] \in {"none", "running", "exited"}
  /\ \A p \in Child \ {1} : Racer(p)
  /\ Wrote(2) => Fired

RaceInv ==
  cell.name \in RaceNames /\ Fair =>
    /\ outcome = "running" => RaceRunning
    /\ outcome = "receipt" => RaceVerdict

\* When everybody has exited the claim, if there is a gate, has fired once, and
\* without one every child that answers has fired at most once.
LEMMA RaceCounts ==
  ASSUME TypeInv, cell.name \in RaceNames, RaceRunning,
         \A p \in Child : st[p] = "exited"
  PROVE  IF cell.gated THEN Fires(ledger, 1) = 1 ELSE Fires(ledger, 1) \in 1 .. Len(cell.lives) - 1
<1>0. /\ cell \in Experiments /\ 1 \in Child /\ Child \ {1} # {} /\ Child = 1 .. Len(cell.lives)
      /\ Len(cell.lives) \in Nat /\ RigTypeOK
  BY RaceFacts DEF TypeInv
<1>1. \A p \in Child : todo[p] = << >>
  BY <1>0 DEF RigTypeOK
<1>2. ASSUME NEW p \in Child, NEW k \in 1 .. Lead + 2, todo[p] = From(Firing(p), k) PROVE FALSE
  <2> DEFINE f == Firing(p)
  <2>1. /\ Sequence(f) /\ DOMAIN f = 1 .. Len(f) /\ Lead \in {0, 2} /\ Len(f) \in {5, 8}
        /\ cell.gated => Len(f) = 8
        /\ ~cell.gated => Lead = 0
    BY <1>0, FiringSteps
  <2> HIDE DEF f
  <2>2. k \in DOMAIN f
    BY <2>1
  <2>3. From(f, k) # << >>
    BY <2>1, <2>2, FromStep
  <2> QED BY <1>1, <1>2, <2>3 DEF f
<1>3. Fired
  <2>1. PICK p \in Child \ {1} : Racer(p) /\ st[p] # "none"
    BY <1>0 DEF RaceRunning
  <2>2. ASSUME NEW k \in DOMAIN cell.lives[p], todo[p] = From(cell.lives[p], k) PROVE FALSE
    <3> DEFINE l == cell.lives[p]
    <3>1. Sequence(l)
      BY <1>0, LivesIs
    <3> HIDE DEF l
    <3>2. From(l, k) # << >>
      BY <2>2, <3>1, FromStep DEF l
    <3> QED BY <1>1, <2>2, <3>2 DEF l
  <2>3. Fired \/ (cell.gated /\ claims[1] # 0)
    BY <1>2, <2>1, <2>2 DEF Racer
  <2>4. ASSUME cell.gated, claims[1] # 0 PROVE Fired
    <3>1. claims[1] \in Child
      BY <1>0, <2>4 DEF RigTypeOK
    <3>2. Lead + 2 = 4
      BY <2>4 DEF Lead
    <3>3. \A k \in 2 .. 4 : k \in 1 .. Lead + 2
      BY <3>2
    <3> QED BY <1>2, <2>4, <3>1, <3>3 DEF RaceRunning, Winner
  <2> QED BY <2>3, <2>4
<1> DEFINE T == {r \in ledger : r[1] = 1 /\ r[2] = "gate:True"}
           F == {r \in ledger : r[1] = 1 /\ r[2] = "gate:False"}
           S == T \cup F
<1>4. Fires(ledger, 1) = Cardinality(T) + Cardinality(F)
  BY DEF Fires, ledger_counts
<1>5. IsFiniteSet(T) /\ IsFiniteSet(F) /\ T \cap F = {} /\ S # {}
  <2>1. IsFiniteSet(ledger) /\ T \in SUBSET ledger /\ F \in SUBSET ledger
    BY DEF RaceRunning
  <2>2. T \cap F = {}
    OBVIOUS
  <2>3. S # {}
    BY <1>3 DEF Fired, AnswerTask
  <2> HIDE DEF T, F
  <2> QED BY <2>1, <2>2, <2>3, FS_Subset
<1>6. \A r \in S : /\ r[3] \in Child \ {1} /\ r = << 1, Answer(r[3])[2], r[3] >>
                   /\ cell.gated => r[3] = claims[1]
  BY DEF RaceRunning, Rows, AnswerTask
<1> HIDE DEF T, F
<1>7. Fires(ledger, 1) = Cardinality(S) /\ IsFiniteSet(S) /\ Cardinality(S) \in Nat \ {0}
  <2>1. IsFiniteSet(S) /\ Cardinality(S) = Cardinality(T) + Cardinality(F) - Cardinality(T \cap F)
    BY <1>5, FS_Union
  <2>2. Cardinality(T \cap F) = 0
    BY <1>5, FS_EmptySet
  <2>3. Cardinality(T) \in Nat /\ Cardinality(F) \in Nat /\ Cardinality(S) \in Nat
    BY <1>5, <2>1, FS_CardinalityType
  <2>4. Cardinality(S) # 0
    BY <1>5, <2>1, FS_EmptySet
  <2> QED BY <1>4, <2>1, <2>2, <2>3, <2>4
<1> HIDE DEF S
<1>8. CASE cell.gated
  <2> DEFINE c == claims[1]
             row == << 1, Answer(c)[2], c >>
  <2>1. \A r \in S : r = row
    BY <1>6, <1>8
  <2> HIDE DEF row
  <2>2. S = {row}
    BY <1>5, <2>1 DEF S
  <2>3. Cardinality(S) = 1
    BY <2>2, FS_Singleton
  <2> QED BY <1>7, <1>8, <2>3
<1>9. CASE ~cell.gated
  <2> DEFINE g == [r \in S |-> r[3]]
             D == Child \ {1}
  <2>1. g \in Injection(S, D)
    BY <1>6 DEF Injection, IsInjective
  <2>2. IsFiniteSet(D) /\ Cardinality(D) = Len(cell.lives) - 1
    <3>1. IsFiniteSet(Child) /\ Cardinality(Child) = Len(cell.lives)
      BY <1>0, FS_Interval
    <3>2. 1 \in Child
      BY <1>0
    <3>3. IsFiniteSet(D) /\ Cardinality(D) = Cardinality(Child) - 1
      BY <3>1, <3>2, FS_RemoveElement
    <3> QED BY <3>1, <3>3
  <2> HIDE DEF g, D
  <2>3. Cardinality(S) <= Cardinality(D)
    BY <2>1, <2>2, FS_Injection
  <2> QED BY <1>0, <1>7, <1>9, <2>2, <2>3
<1> QED BY <1>8, <1>9

\* A run that was disturbed stays so.
LEMMA FairBack ==
  ASSUME TypeInv, Orderly, [RigNext]_rigVars, Fair'
  PROVE  Fair
<1>0. Shaped /\ Idle /\ RigTypeOK
  BY TypeIdle DEF TypeInv
<1> USE DEF child, engine, files
<1>1. ASSUME NEW p \in Child, ChildStep(p) \/ Busy(p) \/ Broken(p) PROVE Fair
  <2>1. /\ UNCHANGED << cell, late, Child >> /\ st[p] = "running"
        /\ \A q \in Child \ {p} : st'[q] = st[q]
    BY <1>0, <1>1, ChildFrame DEF Followed, Running, parent, Same, Child
  <2>2. busy' = busy \/ (busy' = busy + 1)
    BY <1>1, ChildCases
       DEF Steps, Ends, Goes, _invoke, TakeEffect, OpenFlag, ParkHere, SeeStart,
           CrashHere, Receive, Continue, Join, Ask, Busy, Fail, InvokeReturns, _die, Exit,
           Broken, FillFlag, Write, Enqueue, Flush, ParkInSaver, claim
  <2>3. busy \in Nat
    BY <1>0, RigAssumption DEF RigTypeOK
  <2>4. busy = 0
    BY <2>2, <2>3 DEF Fair
  <2> QED BY <2>1, <2>4 DEF Fair
<1>2. CASE ParentStep
  <2>1. /\ UNCHANGED << cell, busy, Child >> /\ outcome = "running"
        /\ \A p \in Child :
              \/ Same(p)
              \/ Stops(p) /\ ((Running(p) /\ st'[p] = "killed") \/ UNCHANGED st[p])
              \/ Started(p)
    BY <1>0, <1>2, ParentFrame DEF Child
  <2>2. late' = late \/ late'
    BY <1>2, ParentCases
       DEF _spawn, Pops, Quits, SeeFlags, ReadLedger, SendMessage, SeeDone, CopyStore,
           MarkCrashed, StartRacers, Deadline, EarlyExit, ReadFlag, SeeRowStep, KillVictim,
           Collected, Timeout, WriteReceipt, GiveUp
  <2>3. ASSUME NEW p \in Child, st[p] = "failed" PROVE FALSE
    <3>1. ~Started(p)
      <4>1. SUFFICES ASSUME Started(p) PROVE FALSE
        OBVIOUS
      <4>2. script # << >> /\ Head(script)[1] = "spawn" /\ p \in Head(script)[2]
        BY <4>1 DEF Started, Does, Whom
      <4>3. 1 \in DOMAIN script /\ Head(script) = script[1]
        BY <2>1, <4>2, TailOf DEF Orderly
      <4> QED BY <2>1, <2>3, <4>2, <4>3 DEF Orderly
    <3>2. st'[p] = "failed"
      BY <2>1, <2>3, <3>1 DEF Same, Running
    <3> QED BY <2>1, <3>2 DEF Fair
  <2> QED BY <2>1, <2>2, <2>3 DEF Fair
<1>3. CASE UNCHANGED rigVars
  BY <1>3 DEF rigVars, parent, Fair, Child
<1> QED BY <1>1, <1>2, <1>3 DEF RigNext

LEMMA RaceInit == RigInit => RaceInv
<1> SUFFICES ASSUME RigInit, cell.name \in RaceNames
             PROVE  outcome # "receipt" /\ RaceRunning
  BY DEF RaceInv
<1>1. cell \in Experiments /\ Race(cell) /\ 1 \in Child
  BY RaceFacts DEF RigInit
<1>2. Sequence(<< >>) /\ Range(<< >>) = {} /\ IsFiniteSet({})
  BY NothingLeft, FS_EmptySet DEF Well, Range
<1>3. /\ outcome = "running" /\ ledger = {} /\ claims[1] = 0 /\ readings = << >>
      /\ durable[1] = << >> /\ durable = [t \in Child |-> durable[t]]
      /\ \A p \in Child : st[p] = "none" /\ queue[p] = << >>
  BY <1>1 DEF RigInit, Child
<1>4. Engines
  BY <1>2, <1>3 DEF Engines
<1>5. ~Wrote(2)
  BY <1>2, <1>3 DEF Wrote, Has
<1>6. RaceScript
  BY <1>1, <1>3 DEF RaceScript, Race, RigInit, Child
<1> QED BY <1>1, <1>2, <1>3, <1>4, <1>5, <1>6 DEF RaceRunning, ParkChild, Winner, Rows, Racer

LEMMA RaceChild ==
  ASSUME TypeInv, RaceInv, cell.name \in RaceNames, Fair, Fair', NEW p \in Child,
         ChildStep(p) \/ Busy(p) \/ Broken(p)
  PROVE  RaceInv'
<1>0. /\ UNCHANGED << cell, outcome, script, readings, Child >> /\ Followed(p)
      /\ \A q \in Child \ {p} : Same(q)
      /\ cell \in Experiments /\ 1 \in Child /\ RigTypeOK
  BY RaceFacts, ChildFrame DEF TypeInv, parent, Child
<1>1. RaceRunning /\ outcome = "running" /\ outcome' = "running" /\ st[p] = "running"
  BY <1>0 DEF RaceInv, Followed, Running
<1>2. SUFFICES RaceRunning'
  BY <1>1 DEF RaceInv
<1>3. Engines /\ ParkChild /\ Winner /\ Rows /\ IsFiniteSet(ledger) /\ RaceScript
      /\ (\A q \in Child : st[q] \in {"none", "running", "exited"})
      /\ (\A q \in Child \ {1} : Racer(q)) /\ (Wrote(2) => Fired)
  BY <1>1 DEF RaceRunning
<1>4. /\ \A q \in Child \ {p} : st'[q] = st[q] /\ todo'[q] = todo[q]
      /\ \A q \in Child : Answer(q)' = Answer(q) /\ Firing(q)' = Firing(q)
      /\ Lead' = Lead
  BY <1>0 DEF Same, Answer, Firing, Lead
<1>5. ASSUME st'[p] \in {"running", "exited"} PROVE RaceScript'
  <2>1. \A q \in Child : /\ st[q] = "exited" => st'[q] = "exited"
                         /\ st[q] # "none" => st'[q] # "none"
    BY <1>1, <1>4, <1>5
  <2>2. RaceVerdict' = RaceVerdict
    BY <1>0 DEF RaceVerdict
  <2> QED BY <1>0, <1>3, <2>1, <2>2 DEF RaceScript
<1>6. CASE p = 1
  <2>1. /\ Engines' /\ ParkChild' /\ claims'[1] = claims[1] /\ st'[1] \in {"running", "exited"}
        /\ ledger' = ledger \/ ledger' = ledger \cup {<< 1, "pre", 1 >>}
        /\ Wrote(2)' => Wrote(2)
    BY <1>3, <1>6, ParkMoves
  <2>2. /\ Fired => Fired'
        /\ IsFiniteSet(ledger')
    BY <1>3, <2>1, FS_AddElement DEF Fired
  <2>3. \A q \in Child \ {1} : st'[q] = "none"
    BY <1>1, <1>3, <1>4, <1>6 DEF Racer
  <2>4. \A q \in Child \ {1} : Racer(q)'
    BY <1>0, <2>3 DEF Racer
  <2>5. Rows'
    <3>1. \A r \in ledger' : r[2] \in AnswerTask => r \in ledger
      BY <2>1 DEF AnswerTask
    <3> QED BY <1>0, <1>3, <1>4, <2>1, <3>1 DEF Rows
  <2>6. Winner'
    <3>1. SUFFICES ASSUME cell.gated, claims[1] # 0
                   PROVE  claims[1] # 1 /\ (Fired' \/ \E k \in 2 .. 4 :
                            todo'[claims[1]] = From(Firing(claims[1])', k))
      BY <1>0, <2>1 DEF Winner
    <3>2. claims[1] \in Child /\ claims[1] # 1
      BY <1>0, <1>3, <3>1 DEF RigTypeOK, Winner
    <3>3. Firing(claims[1])' = Firing(claims[1]) /\ todo'[claims[1]] = todo[claims[1]]
      BY <1>0, <1>4, <1>6, <2>1, <3>2 DEF Firing
    <3>4. Fired \/ \E k \in 2 .. 4 : todo[claims[1]] = From(Firing(claims[1]), k)
      BY <1>3, <3>1 DEF Winner
    <3> QED BY <2>2, <3>2, <3>3, <3>4
  <2>7. RaceScript'
    BY <1>5, <1>6, <2>1
  <2>8. \A q \in Child' : st'[q] \in {"none", "running", "exited"}
    BY <1>0, <1>3, <1>4, <1>6, <2>1
  <2> QED BY <1>0, <1>3, <2>1, <2>2, <2>4, <2>5, <2>6, <2>7, <2>8 DEF RaceRunning
<1>7. CASE p # 1
  <2>1. /\ Engines' /\ ParkChild' /\ Racer(p)' /\ Winner' /\ st'[p] \in {"running", "exited"}
        /\ (Wrote(2)' => Fired') /\ (Fired => Fired')
        /\ \/ ledger' = ledger
           \/ /\ ledger' = ledger \cup {<< 1, Answer(p)[2], p >>}
              /\ cell.gated => claims[1] = p
        /\ claims'[1] = claims[1] \/ (claims[1] = 0 /\ claims'[1] = p)
    BY <1>3, <1>7, RacerMoves
  <2>2. IsFiniteSet(ledger')
    BY <1>3, <2>1, FS_AddElement
  <2>3. p # 0 /\ st'[1] = st[1]
    BY <1>0, <1>4, <1>7, RaceFacts
  <2>4. ASSUME NEW q \in Child \ {1} PROVE Racer(q)'
    <3>1. CASE q = p
      BY <2>1, <3>1
    <3>2. CASE q # p
      <4>1. /\ q # 0 /\ st'[q] = st[q] /\ todo'[q] = todo[q] /\ cell' = cell /\ Racer(q)
            /\ Firing(q)' = Firing(q) /\ Lead' = Lead
        BY <1>0, <1>3, <1>4, <3>2, RaceFacts
      <4>2. claims[1] # 0 => claims'[1] = claims[1]
        BY <2>1
      <4> QED BY <2>1, <2>3, <4>1, <4>2 DEF Racer
    <3> QED BY <3>1, <3>2
  <2>5. Rows'
    <3> SUFFICES ASSUME NEW r \in ledger', r[2] \in AnswerTask
                 PROVE  /\ r[3] \in Child \ {1} /\ r = << 1, Answer(r[3])[2], r[3] >>
                        /\ cell.gated => r[3] = claims'[1]
      BY <1>0, <1>4 DEF Rows
    <3>1. CASE r \in ledger
      <4>1. /\ r[3] \in Child \ {1} /\ r = << 1, Answer(r[3])[2], r[3] >>
            /\ cell.gated => r[3] = claims[1]
        BY <1>3, <3>1 DEF Rows
      <4>2. claims[1] = r[3] => claims'[1] = claims[1]
        BY <1>0, <2>1, <4>1, RaceFacts
      <4> QED BY <4>1, <4>2
    <3>2. CASE r \notin ledger
      <4>1. r = << 1, Answer(p)[2], p >> /\ (cell.gated => claims[1] = p)
        BY <2>1, <3>2
      <4> QED BY <1>7, <2>1, <2>3, <4>1
    <3> QED BY <3>1, <3>2
  <2>6. RaceScript'
    BY <1>5, <2>1
  <2>7. \A q \in Child' : st'[q] \in {"none", "running", "exited"}
    BY <1>0, <1>3, <1>4, <2>1
  <2> QED BY <1>0, <2>1, <2>2, <2>4, <2>5, <2>6, <2>7 DEF RaceRunning
<1> QED BY <1>6, <1>7

\* The script goes on with its next step, and what the one that is done was
\* waited for has happened.
LEMMA ScriptPops ==
  ASSUME Sequence(script), script # << >>, script' = Tail(script), RaceScript,
         UNCHANGED cell, NEW s, s = script[1],
         \A p \in Child : /\ st[p] = "exited" => st'[p] = "exited"
                          /\ st[p] # "none" => st'[p] # "none"
                          /\ s[1] = "reap" /\ p \in s[2] => st'[p] = "exited"
                          /\ s[1] = "spawn" /\ p \in s[2] => st'[p] # "none",
         1 \in Child,
         readings' = readings \/ s[1] = "count",
         s[1] = "count" => RaceVerdict'
  PROVE  RaceScript'
<1> DEFINE t == script'
<1>1. /\ DOMAIN script = 1 .. Len(script) /\ Len(script) \in Nat /\ 1 \in DOMAIN script
      /\ DOMAIN t = 1 .. Len(script) - 1
      /\ \A i \in DOMAIN t : t[i] = script[i + 1]
  BY TailOf
<1> HIDE DEF t
<1>2. /\ \A i \in DOMAIN t : i + 1 \in DOMAIN script /\ t[i] = script[i + 1] /\ i + 1 # 1
      /\ \A m \in DOMAIN script : m # 1 => m - 1 \in DOMAIN t /\ t[m - 1] = script[m]
  <2>1. \A i \in DOMAIN t : i + 1 \in DOMAIN script /\ t[i] = script[i + 1] /\ i + 1 # 1
    BY <1>1
  <2>2. ASSUME NEW m \in DOMAIN script, m # 1 PROVE m - 1 \in DOMAIN t /\ t[m - 1] = script[m]
    <3>1. m - 1 \in DOMAIN t /\ m - 1 + 1 = m
      BY <1>1, <2>2
    <3> QED BY <1>1, <3>1
  <2> QED BY <2>1, <2>2
<1>3. Child' = Child
  BY DEF Child
<1>4. ASSUME NEW i \in DOMAIN t PROVE t[i][1] \in {"spawn", "await", "start", "reap", "count"}
  BY <1>2 DEF RaceScript
<1>5. ASSUME NEW i \in DOMAIN t, t[i][1] = "spawn", ~(t[i][2] \subseteq {1})
      PROVE  \/ st'[1] = "exited"
             \/ \E m \in DOMAIN t : m < i /\ t[m][1] = "reap" /\ 1 \in t[m][2]
  <2>1. \/ st[1] = "exited"
        \/ \E m \in DOMAIN script : m < i + 1 /\ script[m][1] = "reap" /\ 1 \in script[m][2]
    BY <1>2, <1>5 DEF RaceScript
  <2>2. CASE st[1] = "exited"
    BY <2>2
  <2>3. ASSUME NEW m \in DOMAIN script, m < i + 1, script[m][1] = "reap", 1 \in script[m][2], m # 1
        PROVE  m - 1 \in DOMAIN t /\ m - 1 < i /\ t[m - 1] = script[m]
    BY <1>1, <1>2, <2>3
  <2> QED BY <2>1, <2>2, <2>3
<1>6. ASSUME NEW i \in DOMAIN t, t[i][1] = "reap", NEW p \in t[i][2] \cap Child
      PROVE  \/ st'[p] # "none"
             \/ \E m \in DOMAIN t : m < i /\ t[m][1] = "spawn" /\ p \in t[m][2]
  <2>1. \/ st[p] # "none"
        \/ \E m \in DOMAIN script : m < i + 1 /\ script[m][1] = "spawn" /\ p \in script[m][2]
    BY <1>2, <1>6 DEF RaceScript
  <2>2. ASSUME NEW m \in DOMAIN script, m < i + 1, m # 1
        PROVE  m - 1 \in DOMAIN t /\ m - 1 < i /\ t[m - 1] = script[m]
    BY <1>1, <1>2, <2>2
  <2> QED BY <2>1, <2>2
<1>7. ASSUME NEW i \in DOMAIN t, t[i][1] = "count"
      PROVE  /\ readings' = << >>
             /\ \A p \in Child :
                  \/ st'[p] = "exited"
                  \/ \E m \in DOMAIN t : m < i /\ t[m][1] = "reap" /\ p \in t[m][2]
  <2>1. s[1] # "count"
    BY <1>1, <1>2, <1>7 DEF RaceScript
  <2>2. readings' = << >>
    BY <1>2, <1>7, <2>1 DEF RaceScript
  <2>3. ASSUME NEW p \in Child
        PROVE  \/ st'[p] = "exited"
               \/ \E m \in DOMAIN t : m < i /\ t[m][1] = "reap" /\ p \in t[m][2]
    <3>1. \/ st[p] = "exited"
          \/ \E m \in DOMAIN script : m < i + 1 /\ script[m][1] = "reap" /\ p \in script[m][2]
      BY <1>2, <1>7 DEF RaceScript
    <3>2. ASSUME NEW m \in DOMAIN script, m < i + 1, m # 1
          PROVE  m - 1 \in DOMAIN t /\ m - 1 < i /\ t[m - 1] = script[m]
      BY <1>1, <1>2, <3>2
    <3> QED BY <3>1, <3>2
  <2> QED BY <2>2, <2>3
<1>8. ASSUME NEW i \in DOMAIN t, NEW j \in DOMAIN t, t[i][1] = "count", t[j][1] = "count"
      PROVE  i = j
  <2>1. i + 1 = j + 1
    BY <1>2, <1>8 DEF RaceScript
  <2> QED BY <1>1, <2>1
<1>9. ASSUME \A i \in DOMAIN t : t[i][1] # "count" PROVE RaceVerdict'
  <2>1. CASE s[1] = "count"
    BY <2>1
  <2>2. CASE s[1] # "count"
    <3>1. \A i \in DOMAIN script : script[i][1] # "count"
      BY <1>2, <1>9, <2>2
    <3>2. RaceVerdict /\ readings' = readings
      BY <2>2, <3>1 DEF RaceScript
    <3> QED BY <3>2 DEF RaceVerdict
  <2> QED BY <2>1, <2>2
<1>10. ASSUME NEW i \in DOMAIN t
       PROVE  /\ t[i][1] \in {"spawn", "await", "start", "reap", "count"}
              /\ t[i][1] = "spawn" /\ ~(t[i][2] \subseteq {1}) =>
                   \/ st'[1] = "exited"
                   \/ \E m \in DOMAIN t : m < i /\ t[m][1] = "reap" /\ 1 \in t[m][2]
              /\ t[i][1] = "reap" => \A p \in t[i][2] \cap Child :
                   \/ st'[p] # "none"
                   \/ \E m \in DOMAIN t : m < i /\ t[m][1] = "spawn" /\ p \in t[m][2]
              /\ t[i][1] = "count" =>
                   /\ readings' = << >>
                   /\ \A p \in Child :
                        \/ st'[p] = "exited"
                        \/ \E m \in DOMAIN t : m < i /\ t[m][1] = "reap" /\ p \in t[m][2]
              /\ \A j \in DOMAIN t : t[i][1] = "count" /\ t[j][1] = "count" => i = j
  <2>1. t[i][1] = "reap" => \A p \in t[i][2] \cap Child :
          \/ st'[p] # "none"
          \/ \E m \in DOMAIN t : m < i /\ t[m][1] = "spawn" /\ p \in t[m][2]
    BY <1>6
  <2>2. \A j \in DOMAIN t : t[i][1] = "count" /\ t[j][1] = "count" => i = j
    BY <1>8
  <2> QED BY <1>4, <1>5, <1>7, <2>1, <2>2
<1>11. (\A i \in DOMAIN t : t[i][1] # "count") => RaceVerdict'
  BY <1>9
<1> QED BY <1>3, <1>10, <1>11 DEF RaceScript, t

LEMMA RaceParent ==
  ASSUME TypeInv, Orderly, RaceInv, cell.name \in RaceNames, Fair, Fair', ParentStep
  PROVE  RaceInv'
<1> USE DEF child, engine, files
<1>0. /\ UNCHANGED << cell, claims, ledger, Child >> /\ outcome = "running"
      /\ cell \in Experiments /\ 1 \in Child /\ RigTypeOK /\ Race(cell)
  BY TypeIdle, RaceFacts, ParentFrame DEF TypeInv, Child
<1>1. RaceRunning
  BY <1>0 DEF RaceInv
<1>2. Engines /\ ParkChild /\ Winner /\ Rows /\ IsFiniteSet(ledger) /\ RaceScript
      /\ (\A q \in Child : st[q] \in {"none", "running", "exited"})
      /\ (\A q \in Child \ {1} : Racer(q)) /\ (Wrote(2) => Fired)
  BY <1>1 DEF RaceRunning
<1>3. /\ Sequence(script)
      /\ script # << >> => 1 \in DOMAIN script /\ Head(script) = script[1]
      /\ DOMAIN script \subseteq Nat \ {0}
  BY <1>0, TailOf, SequenceDomain DEF Orderly
<1>4. \A kind : Does(kind) => kind \in {"spawn", "await", "start", "reap", "count"}
  BY <1>2, <1>3 DEF Does, RaceScript
<1>5. /\ \A q \in Child : Answer(q)' = Answer(q) /\ Firing(q)' = Firing(q)
      /\ Lead' = Lead
  BY <1>0 DEF Answer, Firing, Lead
<1>6. ASSUME UNCHANGED << st, todo, queue, durable >>, RaceScript' PROVE RaceRunning'
  BY <1>0, <1>1, <1>6
     DEF RaceRunning, Engines, ParkChild, Winner, Rows, Racer, Wrote, Fired, Firing, Answer, Lead,
         Parking
<1>7. CASE SeeFlags \/ StartRacers
  <2>1. /\ script # << >> /\ script' = Tail(script) /\ Head(script)[1] \in {"await", "start"}
        /\ UNCHANGED << outcome, readings, st, todo, queue, durable >>
    BY <1>7 DEF SeeFlags, StartRacers, Does
  <2>2. RaceScript'
    BY <1>0, <1>2, <1>3, <2>1, ScriptPops
  <2> QED BY <1>0, <1>6, <2>1, <2>2 DEF RaceInv
<1>8. CASE ReadLedger
  <2>1. /\ script # << >> /\ script' = Tail(script) /\ Head(script)[1] = "count"
        /\ readings' = Append(readings, ledger)
        /\ UNCHANGED << outcome, st, todo, queue, durable >>
    BY <1>8 DEF ReadLedger, Does
  <2>2. readings = << >> /\ \A p \in Child : st[p] = "exited"
    <3>1. \A m \in DOMAIN script : ~(m < 1)
      BY <1>3
    <3> QED BY <1>2, <1>3, <2>1, <3>1 DEF RaceScript
  <2>3. readings' = << ledger >>
    BY <2>1, <2>2
  <2>4. RaceVerdict'
    <3>1. readings'[1] = ledger
      BY <2>3
    <3>2. Fires(ledger, 1)' = Fires(ledger, 1)
      BY <1>0
    <3> QED BY <1>0, <1>1, <2>2, <3>1, RaceCounts DEF RaceVerdict, fires_once
  <2>5. RaceScript'
    BY <1>0, <1>2, <1>3, <2>1, <2>4, ScriptPops
  <2> QED BY <1>0, <1>6, <2>1, <2>5 DEF RaceInv
<1>9. CASE Collected
  <2>1. /\ script # << >> /\ Head(script)[1] = "reap"
        /\ \A p \in Head(script)[2] : ~Running(p)
        /\ UNCHANGED << readings, st, todo, queue, durable >>
    BY <1>9 DEF Collected, Does, Whom
  <2>2. script' = Tail(script) /\ outcome' = outcome
    BY <1>0, <1>9 DEF Collected, Fair
  <2>3. \A p \in Child : p \in Head(script)[2] => st[p] = "exited"
    <3>1. \A m \in DOMAIN script : ~(m < 1)
      BY <1>3
    <3>2. \A p \in Child : p \in Head(script)[2] => st[p] # "none"
      BY <1>2, <1>3, <2>1, <3>1 DEF RaceScript
    <3> QED BY <1>2, <2>1, <3>2 DEF Running
  <2>4. RaceScript'
    BY <1>0, <1>2, <1>3, <2>1, <2>2, <2>3, ScriptPops
  <2> QED BY <1>0, <1>6, <2>1, <2>2, <2>4 DEF RaceInv
<1>10. CASE Timeout \/ Deadline
  BY <1>10 DEF Timeout, Deadline, Fair
<1>11. CASE EarlyExit
  <2>1. outcome' \in {"crashed", "refused"}
    BY <1>11 DEF EarlyExit, GiveUp, RaceNames
  <2> QED BY <2>1 DEF RaceInv
<1>12. CASE WriteReceipt
  <2>1. script = << >> /\ UNCHANGED readings
    BY <1>12 DEF WriteReceipt
  <2>2. RaceVerdict
    BY <1>2, <2>1 DEF RaceScript
  <2>3. outcome' = "receipt" /\ RaceVerdict'
    BY <1>0, <1>12, <2>1, <2>2 DEF RaceVerdict, WriteReceipt
  <2> QED BY <2>3 DEF RaceInv
<1>13. CASE _spawn
  <2>1. /\ script # << >> /\ Head(script)[1] = "spawn" /\ script' = Tail(script)
        /\ st' = [p \in Child |-> IF p \in Whom THEN "running" ELSE st[p]]
        /\ todo' = [p \in Child |-> IF p \in Whom THEN cell.lives[p] ELSE todo[p]]
        /\ UNCHANGED << outcome, readings, queue, durable >>
    BY <1>13 DEF _spawn, Does
  <2>2. \A p \in Child : p \in Whom => st[p] = "none" /\ todo[p] = << >>
    BY <1>0, <1>3, <2>1 DEF Orderly, Whom, RigTypeOK
  <2>3. ~(Whom \subseteq {1}) => st[1] = "exited"
    <3>1. \A m \in DOMAIN script : ~(m < 1)
      BY <1>3
    <3> QED BY <1>2, <1>3, <2>1, <3>1 DEF RaceScript, Whom
  <2>4. \A p \in Child : /\ p \in Whom => st'[p] = "running" /\ todo'[p] = cell.lives[p]
                         /\ p \notin Whom => st'[p] = st[p] /\ todo'[p] = todo[p]
    BY <2>1
  <2>5. st[1] = "exited" => st'[1] = "exited"
    BY <1>0, <2>2, <2>4
  <2>6. ParkChild'
    <3>1. Parking' = Parking /\ Wrote(1)' = Wrote(1)
      BY <1>0, <2>1 DEF Parking, Wrote
    <3> QED BY <1>0, <1>2, <2>1, <2>4, <3>1 DEF ParkChild
  <2>7. ASSUME NEW p \in Child \ {1} PROVE Racer(p)'
    <3>1. CASE p \in Whom
      <4> DEFINE l == cell.lives[p]
      <4>1. Sequence(l) /\ Len(l) \in Nat \ {0}
        BY <1>0, LivesIs
      <4> HIDE DEF l
      <4>2. 1 \in DOMAIN l /\ From(l, 1) = l
        BY <4>1, FromEnds, SequenceDomain
      <4>3. st'[1] = "exited" /\ todo'[p] = l
        BY <2>3, <2>4, <2>5, <2>7, <3>1 DEF l
      <4> QED BY <1>0, <4>2, <4>3 DEF Racer, l
    <3>2. CASE p \notin Whom
      <4>1. st'[p] = st[p] /\ todo'[p] = todo[p] /\ Racer(p) /\ Firing(p)' = Firing(p)
        BY <1>2, <1>5, <2>4, <3>2
      <4>2. Fired' = Fired
        BY <1>0 DEF Fired
      <4> QED BY <1>0, <1>5, <2>5, <4>1, <4>2 DEF Racer
    <3> QED BY <3>1, <3>2
  <2>8. Winner'
    <3> DEFINE c == claims[1]
    <3>1. SUFFICES ASSUME cell.gated, c # 0
                   PROVE  c # 1 /\ (Fired' \/ \E k \in 2 .. 4 :
                            todo'[c] = From(Firing(claims[1])', k))
      BY <1>0 DEF Winner
    <3>2. c \in Child /\ c # 1 /\ Fired' = Fired /\ Firing(claims[1])' = Firing(c)
      BY <1>0, <1>2, <3>1 DEF RigTypeOK, Winner, Fired, Firing
    <3>3. CASE c \in Whom
      <4>1. ASSUME NEW k \in 2 .. 4, << >> = From(Firing(c), k) PROVE FALSE
        <5> DEFINE f == Firing(c)
        <5>1. Sequence(f) /\ DOMAIN f = 1 .. Len(f) /\ Len(f) = 8
          BY <1>0, <3>1, <3>2, FiringSteps
        <5> HIDE DEF f
        <5>2. k \in DOMAIN f
          BY <5>1
        <5>3. From(f, k) # << >>
          BY <5>1, <5>2, FromStep
        <5> QED BY <4>1, <5>3 DEF f
      <4>2. todo[c] = << >>
        BY <2>2, <3>2, <3>3
      <4> QED BY <1>2, <3>1, <3>2, <4>1, <4>2 DEF Winner
    <3>4. CASE c \notin Whom
      <4>1. todo'[c] = todo[c]
        BY <2>4, <3>2, <3>4
      <4> QED BY <1>2, <3>1, <3>2, <4>1 DEF Winner
    <3> QED BY <3>3, <3>4
  <2>9. RaceScript'
    <3>1. \A p \in Child : /\ st[p] = "exited" => st'[p] = "exited"
                           /\ st[p] # "none" => st'[p] # "none"
                           /\ p \in Head(script)[2] => st'[p] # "none"
      BY <2>2, <2>4 DEF Whom
    <3> QED BY <1>0, <1>2, <1>3, <2>1, <3>1, ScriptPops
  <2>10. Engines' /\ Rows' /\ (Wrote(2)' => Fired')
    BY <1>0, <1>2, <2>1 DEF Engines, Rows, Wrote, Fired, Answer
  <2>11. \A q \in Child' : st'[q] \in {"none", "running", "exited"}
    BY <1>0, <1>2, <2>4
  <2> QED BY <1>0, <1>2, <2>1, <2>6, <2>7, <2>8, <2>9, <2>10, <2>11 DEF RaceInv, RaceRunning
<1>14. ~(ReadFlag \/ SeeRowStep \/ KillVictim \/ SendMessage \/ SeeDone \/ CopyStore \/ MarkCrashed)
  <2>1. /\ ~Does("peek") /\ ~Does("see_row") /\ ~Does("kill") /\ ~Does("send")
        /\ ~Does("done") /\ ~Does("copy") /\ ~Does("mark")
    BY <1>4
  <2> QED BY <2>1 DEF ReadFlag, SeeRowStep, KillVictim, SendMessage, SeeDone, CopyStore, MarkCrashed
<1> QED BY <1>7, <1>8, <1>9, <1>10, <1>11, <1>12, <1>13, <1>14, ParentCases DEF Pops, Quits

LEMMA RaceStep ==
  ASSUME TypeInv, Orderly, RaceInv, [RigNext]_rigVars PROVE RaceInv'
<1>1. ASSUME NEW p \in Child, ChildStep(p) \/ Busy(p) \/ Broken(p) PROVE RaceInv'
  <2>1. UNCHANGED cell
    BY <1>1, ChildFrame DEF TypeInv
  <2>2. Fair' => Fair
    BY <1>1, FairBack DEF RigNext
  <2>3. CASE cell.name \in RaceNames /\ Fair'
    BY <1>1, <2>2, <2>3, RaceChild
  <2> QED BY <2>1, <2>3 DEF RaceInv
<1>2. CASE ParentStep
  <2>1. UNCHANGED cell
    BY <1>2, TypeIdle, ParentFrame DEF TypeInv
  <2>2. Fair' => Fair
    BY <1>2, FairBack DEF RigNext
  <2>3. CASE cell.name \in RaceNames /\ Fair'
    BY <1>2, <2>2, <2>3, RaceParent
  <2> QED BY <2>1, <2>3 DEF RaceInv
<1>3. CASE UNCHANGED rigVars
  BY <1>3
     DEF rigVars, parent, child, engine, RaceInv, Fair, RaceRunning, Engines, ParkChild, Winner, Rows,
         RaceScript, RaceVerdict, Racer, Wrote, Fired, Firing, Answer, Lead, Parking, Child
<1> QED BY <1>1, <1>2, <1>3 DEF RigNext

LEMMA RaceDecides ==
  ASSUME TypeInv, RaceInv, cell.name \in RaceNames PROVE VerdictsHold
<1>1. SUFFICES ASSUME Undisturbed
               PROVE  CASE cell.gated -> fires_once(readings)
                        [] OTHER -> Fires(readings[1], 1) \in 1 .. Len(cell.lives) - 1
  <2>1. cell.gated \in BOOLEAN /\ cell.late \notin {"inline", "wait"}
    BY RaceFacts DEF TypeInv, Race
  <2> QED BY <2>1 DEF VerdictsHold, RaceNames
<1>2. Fair /\ outcome = "receipt"
  BY <1>1 DEF Undisturbed, Fair
<1>3. RaceVerdict
  BY <1>2 DEF RaceInv
<1> QED BY <1>3 DEF RaceVerdict

\* What the receipts of the races say is so on every schedule: with the gate a
\* parked interrupt fires once, and without it once for each process at most.
THEOREM RaceVerdictHolds == RigSpec => [](cell.name \in RaceNames => VerdictsHold)
<1>1. RigInit => TypeInv /\ Orderly /\ NobodyLeft /\ RaceInv
  BY TypeInit, OrderlyInit, RaceInit
<1>2. TypeInv /\ Orderly /\ NobodyLeft /\ RaceInv /\ [RigNext]_rigVars
        => (TypeInv /\ Orderly /\ NobodyLeft /\ RaceInv)'
  BY TypeStep, OrderlyStep, RaceStep
<1>3. TypeInv /\ RaceInv => (cell.name \in RaceNames => VerdictsHold)
  BY RaceDecides
<1> QED BY <1>1, <1>2, <1>3, PTL DEF RigSpec
=============================================================================
