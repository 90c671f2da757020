---------------------------- MODULE JournalProofs ----------------------------
(***************************************************************************)
(* Proofs about Journal, for any number of turns, instances, logins,       *)
(* crashes and faults.                                                     *)
(***************************************************************************)
EXTENDS Journal, FiniteSetTheorems, SequenceTheorems, WellFoundedInduction, TLAPS

-----------------------------------------------------------------------------
\* A set of numbers has a least one.
LEMMA LeastOf == ASSUME NEW X \in SUBSET Nat, X # {} PROVE \E x \in X : \A y \in X : x <= y
<1>1. PICK x \in X : \A y \in X : ~(<<y, x>> \in OpToRel(<, Nat))
  BY NatLessThanWellFounded, WFMin
<1>2. \A y \in X : ~(y < x)
  BY <1>1 DEF OpToRel
<1> QED BY <1>2

\* Positions.  How many of a set of positions are not behind i.
UpTo(I, i) == Cardinality({j \in I : j <= i})

\* That many are at least one, and at most all; and the further the more.
LEMMA Ranks ==
  ASSUME NEW I \in SUBSET Nat, IsFiniteSet(I)
  PROVE  /\ Cardinality(I) \in Nat
         /\ \A i \in I : UpTo(I, i) \in 1..Cardinality(I)
         /\ \A i, l \in I : i < l => UpTo(I, i) < UpTo(I, l)
<1> DEFINE To(i) == {j \in I : j <= i}
<1>1. Cardinality(I) \in Nat
  BY FS_CardinalityType
<1>2. ASSUME NEW i \in I
      PROVE  IsFiniteSet(To(i)) /\ Cardinality(To(i)) \in 1..Cardinality(I)
  <2>1. To(i) \in SUBSET I /\ i \in To(i)
    OBVIOUS
  <2> HIDE DEF To
  <2>2. IsFiniteSet(To(i)) /\ Cardinality(To(i)) <= Cardinality(I)
    BY <2>1, FS_Subset
  <2>3. Cardinality(To(i)) \in Nat /\ Cardinality(To(i)) # 0
    BY <2>1, <2>2, FS_CardinalityType, FS_EmptySet
  <2> QED BY <1>1, <2>2, <2>3
<1>3. ASSUME NEW i \in I, NEW l \in I, i < l
      PROVE  Cardinality(To(i)) < Cardinality(To(l))
  <2>1. To(i) \in SUBSET To(l) /\ l \in To(l) /\ l \notin To(i)
    <3>1. i \in Nat /\ l \in Nat /\ \A j \in I : j \in Nat
      OBVIOUS
    <3>2. \A j \in I : j <= i => j <= l
      BY <1>3, <3>1
    <3>3. To(i) \in SUBSET To(l)
      BY <3>2
    <3>4. ~(l <= i) /\ l <= l
      BY <1>3, <3>1
    <3> QED BY <3>3, <3>4
  <2>2. IsFiniteSet(To(l)) /\ Cardinality(To(i)) \in Nat /\ Cardinality(To(l)) \in Nat
    BY <1>1, <1>2
  <2> HIDE DEF To
  <2>3. Cardinality(To(i)) <= Cardinality(To(l)) /\ Cardinality(To(l)) # Cardinality(To(i))
    BY <2>1, <2>2, FS_Subset
  <2> QED BY <2>2, <2>3
<1> QED BY <1>1, <1>2, <1>3 DEF UpTo

\* There is a k-th of them.
LEMMA Ranked ==
  ASSUME NEW I \in SUBSET Nat, IsFiniteSet(I), NEW k \in 1..Cardinality(I)
  PROVE  \E i \in I : UpTo(I, i) = k
<1> DEFINE n == Cardinality(I)
           f == [i \in I |-> UpTo(I, i)]
<1>1. n \in Nat /\ f \in [I -> 1..n] /\ \A i, l \in I : i < l => f[i] < f[l]
  BY Ranks
<1>2. \A i, l \in I : f[i] = f[l] => i = l
  <2> SUFFICES ASSUME NEW i \in I, NEW l \in I, i # l PROVE f[i] # f[l]
    OBVIOUS
  <2>1. i < l \/ l < i
    OBVIOUS
  <2>2. f[i] \in 1..n /\ f[l] \in 1..n
    BY <1>1
  <2> HIDE DEF f, n
  <2> QED BY <1>1, <2>1, <2>2
<1>3. IsFiniteSet(1..n) /\ Cardinality(1..n) = n
  BY <1>1, FS_Interval
<1> HIDE DEF f
<1>4. f \in Injection(I, 1..n)
  BY <1>1, <1>2 DEF Injection, IsInjective
<1>5. f \in Surjection(I, 1..n)
  BY <1>3, <1>4, FS_Injection
<1>6. \E i \in I : f[i] = k
  BY <1>5 DEF Surjection
<1> QED BY <1>6 DEF f

\* The elements of s at the positions I are those of I in order.
LEMMA PickIs ==
  ASSUME NEW X, NEW s \in Seq(X), NEW I \in SUBSET (1..Len(s))
  PROVE  /\ Pick(s, I) \in Seq(X)
         /\ \A k \in 1..Len(Pick(s, I)) : \E i \in I : Pick(s, I)[k] = s[i] /\ UpTo(I, i) = k
         /\ \A i \in I : UpTo(I, i) \in 1..Len(Pick(s, I)) /\ Pick(s, I)[UpTo(I, i)] = s[i]
<1> DEFINE n == Cardinality(I)
           at(k) == CHOOSE i \in I : UpTo(I, i) = k
<1>1. IsFiniteSet(I) /\ I \in SUBSET Nat
  <2>1. Len(s) \in Nat /\ I \in SUBSET Nat
    OBVIOUS
  <2>2. IsFiniteSet(1..Len(s))
    BY <2>1, FS_Interval
  <2> QED BY <2>1, <2>2, FS_Subset
<1>2. n \in Nat
  BY <1>1, FS_CardinalityType
<1>3. \A k \in 1..n : at(k) \in I /\ UpTo(I, at(k)) = k
  <2> SUFFICES ASSUME NEW k \in 1..n PROVE at(k) \in I /\ UpTo(I, at(k)) = k
    OBVIOUS
  <2>1. \E i \in I : UpTo(I, i) = k
    BY <1>1, Ranked
  <2> QED BY <2>1
<1>4. \A i \in I : UpTo(I, i) \in 1..n
  BY <1>1, Ranks
<1>5. \A i, l \in I : UpTo(I, i) = UpTo(I, l) => i = l
  <2> SUFFICES ASSUME NEW i \in I, NEW l \in I, i # l PROVE UpTo(I, i) # UpTo(I, l)
    OBVIOUS
  <2>1. i < l \/ l < i
    BY <1>1
  <2>2. UpTo(I, i) \in Nat /\ UpTo(I, l) \in Nat
    BY <1>2, <1>4
  <2> QED BY <1>1, <2>1, <2>2, Ranks
<1>6. Pick(s, I) = [k \in 1..n |-> s[at(k)]]
  BY DEF Pick, UpTo
<1> HIDE DEF at, n
<1> DEFINE p == Pick(s, I)
<1>7. p \in [1..n -> X] /\ \A k \in 1..n : p[k] = s[at(k)]
  <2>1. ASSUME NEW k \in 1..n PROVE s[at(k)] \in X
    <3>1. \A i \in I : s[i] \in X
      OBVIOUS
    <3> QED BY <1>3, <3>1
  <2> QED BY <1>6, <2>1
<1> HIDE DEF p
<1>8. p \in Seq(X) /\ Len(p) = n
  <2>1. p \in Seq(X)
    BY <1>2, <1>7, SeqDef
  <2>2. DOMAIN p = 1..n
    BY <1>7
  <2> QED BY <1>2, <2>1, <2>2, LenProperties
<1>9. \A k \in 1..Len(p) : \E i \in I : p[k] = s[i] /\ UpTo(I, i) = k
  BY <1>3, <1>7, <1>8
<1>10. ASSUME NEW i \in I PROVE UpTo(I, i) \in 1..Len(p) /\ p[UpTo(I, i)] = s[i]
  <2>1. UpTo(I, i) \in 1..n
    BY <1>4
  <2>2. at(UpTo(I, i)) \in I /\ UpTo(I, at(UpTo(I, i))) = UpTo(I, i)
    BY <1>3, <2>1
  <2>3. at(UpTo(I, i)) = i
    BY <1>5, <2>2
  <2> QED BY <1>7, <1>8, <2>1, <2>3
<1> QED BY <1>8, <1>9, <1>10 DEF p

-----------------------------------------------------------------------------
\* Lines, entries and operations, whose ids are of turns.
GoodLine == {r \in Line : r.rec # "corrupt" => r.id \in Ids}
Entry == {r \in Line : r.rec = "admitted" /\ r.id \in Ids}
GoodOp == {o \in JournalOp : o.op \in {"admitted", "settled"} => o.id \in Ids}

\* A record of x among the first n lines of s, and the turns that are admitted
\* there and not settled.
Has(s, n, rec, x) == \E i \in 1..n : s[i].rec = rec /\ s[i].id = x
Live(s, n) == {x \in Ids : Has(s, n, "admitted", x) /\ ~Has(s, n, "settled", x)}

\* Its entries are in the order of their admission.
Rising(s) == \A i, j \in 1..Len(s) :
  i < j /\ s[i].rec = "admitted" /\ s[j].rec = "admitted" => s[i].id < s[j].id

\* What Unsettled returns: entries, of the live turns, in the order of the file.
LEMMA UnsettledIs ==
  ASSUME NEW s \in Seq(GoodLine)
  PROVE  /\ Unsettled(s) \in Seq(Entry)
         /\ IdsOf(Unsettled(s)) = Live(s, Len(s))
         /\ Rising(s) => Rising(Unsettled(s))
<1> DEFINE I == UnsettledAt(s)
           p == Unsettled(s)
<1>1. I \in SUBSET (1..Len(s)) /\ Len(s) \in Nat
  BY DEF UnsettledAt
<1>2. \A x : x \in SettledIds(s) <=> Has(s, Len(s), "settled", x)
  BY <1>1 DEF SettledIds, RangeOf, Has
<1>3. /\ p \in Seq(GoodLine)
      /\ \A k \in 1..Len(p) : \E i \in I : p[k] = s[i] /\ UpTo(I, i) = k
      /\ \A i \in I : UpTo(I, i) \in 1..Len(p) /\ p[UpTo(I, i)] = s[i]
  BY <1>1, PickIs DEF Unsettled
<1>4. \A i \in I : s[i] \in Entry /\ s[i].rec = "admitted" /\ s[i].id \in Ids
  BY DEF UnsettledAt, Entry, GoodLine
<1> HIDE DEF p
<1>5. p \in Seq(Entry)
  <2>1. \A k \in 1..Len(p) : p[k] \in Entry
    BY <1>3, <1>4
  <2>2. p \in [1..Len(p) -> Entry] /\ Len(p) \in Nat
    BY <1>3, <2>1
  <2> QED BY <2>2, SeqDef
<1>6. ASSUME NEW x \in Ids, Has(s, Len(s), "admitted", x), ~Has(s, Len(s), "settled", x)
      PROVE  \E i \in I : s[i].id = x
  <2> DEFINE theirs == {i \in 1..Len(s) : s[i].rec = "admitted" /\ s[i].id = x}
  <2>1. theirs \in SUBSET Nat /\ theirs # {}
    BY <1>1, <1>6 DEF Has
  <2>2. PICK i \in theirs : \A y \in theirs : i <= y
    BY <2>1, LeastOf
  <2>3. \A j \in 1..(i - 1) : s[j] # s[i]
    BY <1>1, <2>2
  <2>4. i \in I
    BY <1>2, <1>6, <2>2, <2>3 DEF UnsettledAt
  <2> QED BY <2>2, <2>4
<1>7. IdsOf(p) = Live(s, Len(s))
  <2>1. ASSUME NEW x \in IdsOf(p) PROVE x \in Live(s, Len(s))
    <3>1. PICK k \in 1..Len(p) : p[k].id = x
      BY <1>3 DEF IdsOf
    <3>2. PICK i \in I : p[k] = s[i]
      BY <1>3, <3>1
    <3>3. s[i].rec = "admitted" /\ s[i].id = x /\ x \notin SettledIds(s) /\ i \in 1..Len(s)
      BY <3>1, <3>2 DEF UnsettledAt
    <3>4. x \in Ids
      BY <1>4, <3>3
    <3> QED BY <1>2, <3>3, <3>4 DEF Live, Has
  <2>2. ASSUME NEW x \in Live(s, Len(s)) PROVE x \in IdsOf(p)
    <3>1. PICK i \in I : s[i].id = x
      BY <1>6, <2>2 DEF Live
    <3>2. UpTo(I, i) \in DOMAIN p /\ p[UpTo(I, i)].id = x
      BY <1>3, <3>1
    <3> QED BY <3>2 DEF IdsOf
  <2> QED BY <2>1, <2>2
<1>8. ASSUME Rising(s) PROVE Rising(p)
  <2> SUFFICES ASSUME NEW k \in 1..Len(p), NEW l \in 1..Len(p), k < l PROVE p[k].id < p[l].id
    BY DEF Rising
  <2>1. PICK i \in I : p[k] = s[i] /\ UpTo(I, i) = k
    BY <1>3
  <2>2. PICK j \in I : p[l] = s[j] /\ UpTo(I, j) = l
    BY <1>3
  <2>3. i < j
    <3>1. IsFiniteSet(I) /\ I \in SUBSET Nat
      <4>1. IsFiniteSet(1..Len(s))
        BY <1>1, FS_Interval
      <4> QED BY <1>1, <4>1, FS_Subset
    <3>2. j < i => l < k
      BY <2>1, <2>2, <3>1, Ranks
    <3>3. i # j
      BY <2>1, <2>2
    <3>4. i \in Nat /\ j \in Nat /\ k \in Nat /\ l \in Nat
      BY <3>1
    <3> QED BY <3>2, <3>3, <3>4
  <2>4. s[i].rec = "admitted" /\ s[j].rec = "admitted" /\ i \in 1..Len(s) /\ j \in 1..Len(s)
    BY <1>1, <1>4
  <2> QED BY <1>8, <2>1, <2>2, <2>3, <2>4 DEF Rising
<1> QED BY <1>5, <1>7, <1>8 DEF p

-----------------------------------------------------------------------------
(***************************************************************************)
(* Types.  Records and operations of a turn have its id, so that what a    *)
(* replay returns are turns.                                               *)
(***************************************************************************)
JournalTypes ==
  /\ lines \in Seq(GoodLine)
  /\ torn \in BOOLEAN /\ (torn => lines # << >>)
  /\ current \in Procs
  /\ chain \in [Procs -> Seq(GoodOp)]
  /\ step \in [Procs -> {"none", "read", "open"}]
  /\ snap \in [Procs -> Seq(Entry)]
  /\ mem \in [Procs -> SUBSET Ids]
  /\ called \in 0..Turns
  /\ owed \subseteq Ids /\ done \subseteq Ids
  /\ used \in [Budgets -> Nat]

\* What an append and a removal do to a sequence.
LEMMA Appending ==
  ASSUME NEW X, NEW s \in Seq(X), NEW x \in X
  PROVE  /\ Append(s, x) \in Seq(X) /\ Len(Append(s, x)) = Len(s) + 1 /\ Len(s) \in Nat
         /\ \A i \in 1..Len(s) : Append(s, x)[i] = s[i]
         /\ Append(s, x)[Len(s) + 1] = x
         /\ \A i \in 1..Len(Append(s, x)) : i \in 1..Len(s) \/ i = Len(s) + 1
  OBVIOUS

\* The head and the rest of a sequence.
LEMMA Removing ==
  ASSUME NEW X, NEW s \in Seq(X), s # << >>
  PROVE  /\ Head(s) \in X /\ Head(s) = s[1] /\ 1 \in 1..Len(s)
         /\ Tail(s) \in Seq(X) /\ Len(Tail(s)) = Len(s) - 1
         /\ \A i \in 1..Len(Tail(s)) : Tail(s)[i] = s[i + 1] /\ i + 1 \in 1..Len(s)
  OBVIOUS

\* A bound that is spent.
LEMMA Spending ==
  ASSUME NEW b \in Budgets, used \in [Budgets -> Nat], Spend(b)
  PROVE  used' \in [Budgets -> Nat]
  BY DEF Spend

\* Corrupt is a line.
LEMMA CorruptIs == Corrupt \in GoodLine /\ Corrupt.rec = "corrupt"
  BY JournalAssumption DEF Corrupt, GoodLine, Line

\* A record of the operation at the head of a chain is a line.
LEMMA RecordIs ==
  ASSUME JournalTypes, NEW i \in Procs, chain[i] # << >>,
         Head(chain[i]).op \in {"admitted", "settled"},
         NEW r, r = [rec |-> Head(chain[i]).op, id |-> Head(chain[i]).id]
  PROVE  r \in GoodLine /\ r.id \in Ids /\ r.rec = Head(chain[i]).op /\ r.id = Head(chain[i]).id
<1>1. chain[i] \in Seq(GoodOp)
  BY DEF JournalTypes
<1>2. PICK o \in GoodOp : o = Head(chain[i])
  BY <1>1, Removing
<1>3. o.id \in Ids /\ o.id \in 0..Turns
  BY <1>2 DEF GoodOp, JournalOp
<1> QED BY <1>2, <1>3 DEF GoodLine, Line

\* What is written to the file are lines.
LEMMA WritesLines ==
  ASSUME lines \in Seq(GoodLine), torn \in BOOLEAN, torn => lines # << >>,
         NEW r \in GoodLine, Written(r) \/ TornOff(r)
  PROVE  lines' \in Seq(GoodLine) /\ lines' # << >> /\ torn' \in BOOLEAN
<1>1. Append(lines, r) \in Seq(GoodLine) /\ Append(lines, r) # << >>
  OBVIOUS
<1>2. Append(lines, Corrupt) \in Seq(GoodLine) /\ Append(lines, Corrupt) # << >>
  BY CorruptIs
<1>3. torn => /\ [lines EXCEPT ![Len(lines)] = Corrupt] \in Seq(GoodLine)
              /\ [lines EXCEPT ![Len(lines)] = Corrupt] # << >>
  BY CorruptIs
<1> QED BY <1>1, <1>2, <1>3 DEF Written, TornOff

\* Every step keeps the types: first the calls.
LEMMA CallTypes ==
  ASSUME JournalTypes, NEW i \in Procs,
         CallAdmit(i) \/ (\E id \in Ids : CallSettle(i, id)) \/ CallReplay \/ CallDiscard
  PROVE  JournalTypes'
<1> USE DEF JournalTypes
<1>1. \A o \in GoodOp : \A p \in Procs : [chain EXCEPT ![p] = Append(@, o)] \in [Procs -> Seq(GoodOp)]
  OBVIOUS
<1>2. /\ \A id \in Ids : Op("admitted", id) \in GoodOp /\ Op("settled", id) \in GoodOp
      /\ Op("replay", 0) \in GoodOp /\ Op("discard", 0) \in GoodOp
  BY JournalAssumption DEF Op, GoodOp, JournalOp, Ids
<1>3. CASE CallAdmit(i)
  <2>1. called + 1 \in Ids /\ called + 1 \in 0..Turns
    BY <1>3, JournalAssumption DEF CallAdmit, Ids
  <2>2. /\ chain' \in [Procs -> Seq(GoodOp)]
    BY <1>1, <1>2, <1>3, <2>1 DEF CallAdmit, Enqueue
  <2>3. called' = called + 1 /\ UNCHANGED <<lines, torn, current, step, snap, mem, owed, done, used>>
    BY <1>3 DEF CallAdmit, fileVars, compactVars
  <2> QED BY <2>1, <2>2, <2>3
<1>4. ASSUME NEW id \in Ids, CallSettle(i, id) PROVE JournalTypes'
  <2>1. chain' \in [Procs -> Seq(GoodOp)] /\ mem' \in [Procs -> SUBSET Ids]
    BY <1>1, <1>2, <1>4 DEF CallSettle, Enqueue
  <2>2. UNCHANGED <<lines, torn, current, step, snap, called, owed, done, used>>
    BY <1>4 DEF CallSettle, fileVars, compactVars, historyVars
  <2> QED BY <2>1, <2>2
<1>5. CASE CallReplay \/ CallDiscard
  <2>1. chain' \in [Procs -> Seq(GoodOp)]
    <3>1. \E o \in GoodOp : chain' = [chain EXCEPT ![current] = Append(@, o)]
      BY <1>2, <1>5 DEF CallReplay, CallDiscard, Enqueue
    <3> QED BY <1>1, <3>1
  <2>2. used' \in [Budgets -> Nat]
    BY <1>5, Spending DEF CallReplay, CallDiscard, Budgets
  <2>3. UNCHANGED <<lines, torn, current, step, snap, mem, called, owed, done>>
    BY <1>5 DEF CallReplay, CallDiscard, fileVars, compactVars, historyVars
  <2> QED BY <2>1, <2>2, <2>3
<1> QED BY <1>3, <1>4, <1>5

\* An append.
LEMMA AppendedTypes ==
  ASSUME JournalTypes, NEW i \in Procs, NEW ok \in WriteResults, Appended(i, ok)
  PROVE  JournalTypes'
<1> DEFINE r == [rec |-> Head(chain[i]).op, id |-> Head(chain[i]).id]
<1>1. /\ chain[i] # << >> /\ Head(chain[i]).op \in {"admitted", "settled"}
      /\ chain' = [chain EXCEPT ![i] = Tail(@)]
      /\ UNCHANGED <<current, step, snap, called>>
  BY DEF Appended, Dequeue, compactVars
<1>2. /\ \/ ok /\ Written(r) /\ UNCHANGED used
         \/ ~ok /\ UNCHANGED <<lines, torn, used>>
         \/ ~ok /\ used["tears"] < Tears /\ Spend("tears") /\ TornOff(r)
  BY DEF Appended, fileVars
<1>3. /\ r.rec = "admitted" => /\ mem' = [mem EXCEPT ![i] = @ \cup {r.id}]
                               /\ owed' = IF ok THEN owed \cup {r.id} ELSE owed
                               /\ UNCHANGED done
      /\ r.rec # "admitted" => /\ owed' = owed \ {r.id}
                               /\ done' = IF ok THEN done \cup {r.id} ELSE done
                               /\ UNCHANGED mem
  BY DEF Appended
<1> HIDE DEF r
<1>4. r \in GoodLine /\ r.id \in Ids
  BY <1>1, RecordIs DEF r
<1> USE DEF JournalTypes
<1>5. lines' \in Seq(GoodLine) /\ torn' \in BOOLEAN /\ (torn' => lines' # << >>)
  BY <1>2, <1>4, WritesLines
<1>6. used' \in [Budgets -> Nat]
  BY <1>2, Spending DEF Budgets
<1>7. mem' \in [Procs -> SUBSET Ids] /\ owed' \subseteq Ids /\ done' \subseteq Ids
  BY <1>3, <1>4
<1>8. chain' \in [Procs -> Seq(GoodOp)]
  <2>1. chain[i] \in Seq(GoodOp)
    OBVIOUS
  <2>2. Tail(chain[i]) \in Seq(GoodOp)
    BY <1>1, <2>1, Removing
  <2> QED BY <1>1, <2>2
<1> QED BY <1>1, <1>5, <1>6, <1>7, <1>8

\* The other operations at the head of a chain.
LEMMA HeadTypes ==
  ASSUME JournalTypes, NEW i \in Procs, NEW ok,
         \/ ReplayUnsettled(i, ok) \/ CompactRead(i, ok) \/ CompactOpen(i, ok)
         \/ CompactWrite(i) \/ CompactWriteFailed(i) \/ Discard(i, ok)
  PROVE  JournalTypes'
<1> USE DEF JournalTypes
<1>1. chain[i] # << >> /\ chain[i] \in Seq(GoodOp)
  BY DEF ReplayUnsettled, CompactRead, CompactOpen, CompactWrite, CompactWriteFailed, Discard, HeadIs
<1>2. Tail(chain[i]) \in Seq(GoodOp)
  BY <1>1, Removing
<1>3. Unsettled(lines) \in Seq(Entry) /\ IdsOf(Unsettled(lines)) \subseteq Ids
  BY UnsettledIs DEF Live
<1>4. << >> \in Seq(GoodLine) /\ << >> \in Seq(Entry)
  OBVIOUS
<1>5. snap[i] \in Seq(GoodLine)
  <2>1. Entry \subseteq GoodLine
    BY DEF Entry, GoodLine
  <2>2. snap[i] \in Seq(Entry)
    OBVIOUS
  <2> QED BY <2>1, <2>2
<1>6. CASE ReplayUnsettled(i, ok)
  <2>1. Op("compact", 0) \in GoodOp
    BY JournalAssumption DEF Op, GoodOp, JournalOp
  <2>2. chain' \in [Procs -> Seq(GoodOp)]
    <3>1. Append(Tail(chain[i]), Op("compact", 0)) \in Seq(GoodOp)
      BY <1>2, <2>1, Appending
    <3> QED BY <1>6, <3>1 DEF ReplayUnsettled
  <2>3. mem' \in [Procs -> SUBSET Ids]
    BY <1>3, <1>6 DEF ReplayUnsettled
  <2>4. UNCHANGED <<lines, torn, current, step, snap, called, owed, done, used>>
    BY <1>6 DEF ReplayUnsettled, fileVars, compactVars, historyVars
  <2> QED BY <2>2, <2>3, <2>4
<1>7. CASE CompactRead(i, ok)
  <2>1. /\ chain' \in [Procs -> Seq(GoodOp)] /\ snap' \in [Procs -> Seq(Entry)]
        /\ step' \in [Procs -> {"none", "read", "open"}]
    BY <1>2, <1>3, <1>7 DEF CompactRead, Dequeue, compactVars
  <2>2. UNCHANGED <<lines, torn, current, mem, called, owed, done, used>>
    BY <1>7 DEF CompactRead, fileVars, historyVars
  <2> QED BY <2>1, <2>2
<1>8. ASSUME CompactDone(i)
      PROVE  /\ chain' \in [Procs -> Seq(GoodOp)] /\ snap' \in [Procs -> Seq(Entry)]
             /\ step' \in [Procs -> {"none", "read", "open"}]
  BY <1>2, <1>4, <1>8 DEF CompactDone, Dequeue
<1>9. CASE CompactOpen(i, ok)
  <2>1. /\ chain' \in [Procs -> Seq(GoodOp)] /\ snap' \in [Procs -> Seq(Entry)]
        /\ step' \in [Procs -> {"none", "read", "open"}]
        /\ lines' \in Seq(GoodLine) /\ torn' \in BOOLEAN /\ (torn' => lines' # << >>)
    BY <1>4, <1>8, <1>9 DEF CompactOpen, fileVars
  <2>2. UNCHANGED <<current, mem, called, owed, done, used>>
    BY <1>9 DEF CompactOpen, historyVars
  <2> QED BY <2>1, <2>2
<1>10. CASE CompactWrite(i)
  <2>1. lines' \in Seq(GoodLine) /\ torn' \in BOOLEAN /\ (torn' => lines' # << >>)
    <3>1. PICK s \in Seq(GoodLine) : s = snap[i]
      BY <1>5
    <3> HIDE DEF JournalTypes
    <3>2. Append(s, Corrupt) \in Seq(GoodLine) /\ Append(s, Corrupt) # << >>
      <4>1. Len(Append(s, Corrupt)) = Len(s) + 1 /\ Len(s) \in Nat /\ Append(s, Corrupt) \in Seq(GoodLine)
        BY CorruptIs, Appending
      <4> QED BY <4>1
    <3>3. \/ UNCHANGED <<lines, torn>>
          \/ /\ s # << >> /\ lines' \in {s, Append(s, Corrupt)}
             /\ torn' = (torn /\ lines' # s)
      <4>1. \/ UNCHANGED <<lines, torn>>
            \/ /\ s # << >> /\ torn' = (torn /\ lines' # s)
               /\ lines' \in {s} \cup (IF lines = << >> THEN {} ELSE {Append(s, Corrupt)})
        BY <1>10, <3>1 DEF CompactWrite, fileVars
      <4>2. {s} \cup (IF lines = << >> THEN {} ELSE {Append(s, Corrupt)}) \subseteq {s, Append(s, Corrupt)}
        OBVIOUS
      <4> QED BY <4>1, <4>2
    <3>4. lines \in Seq(GoodLine) /\ torn \in BOOLEAN /\ (torn => lines # << >>)
      BY DEF JournalTypes
    <3>5. CASE UNCHANGED <<lines, torn>>
      BY <3>4, <3>5
    <3>6. CASE /\ s # << >> /\ lines' \in {s, Append(s, Corrupt)}
               /\ torn' = (torn /\ lines' # s)
      <4>1. lines' \in Seq(GoodLine)
        BY <3>2, <3>6
      <4>2. torn' \in BOOLEAN /\ (torn' => lines' # s)
        BY <3>6, Zenon
      <4>3. lines' # << >>
        BY <3>2, <3>6
      <4> QED BY <4>1, <4>2, <4>3, Zenon
    <3> QED BY <3>3, <3>5, <3>6, Zenon
  <2>2. UNCHANGED <<current, mem, called, owed, done, used>> /\ CompactDone(i)
    BY <1>10 DEF CompactWrite, historyVars
  <2> QED BY <1>8, <2>1, <2>2
<1>11. CASE CompactWriteFailed(i)
  <2>1. PICK k \in 0..(Len(snap[i]) - 1), cut \in BOOLEAN :
          /\ lines' = SubSeq(snap[i], 1, k) \o IF cut THEN <<Corrupt>> ELSE << >>
          /\ torn' = cut
    BY <1>11 DEF CompactWriteFailed
  <2>2. SubSeq(snap[i], 1, k) \in Seq(GoodLine)
    <3>1. Len(snap[i]) \in Nat
      BY <1>5
    <3>2. k = 0 \/ k \in 1..Len(snap[i])
      BY <3>1
    <3>3. k = 0 => SubSeq(snap[i], 1, k) = << >>
      OBVIOUS
    <3> QED BY <1>4, <1>5, <3>1, <3>2, <3>3
  <2>3. lines' \in Seq(GoodLine) /\ torn' \in BOOLEAN /\ (torn' => lines' # << >>)
    <3>1. <<Corrupt>> \in Seq(GoodLine) /\ <<Corrupt>> # << >>
      BY CorruptIs
    <3>2. CASE cut
      <4>1. lines' = SubSeq(snap[i], 1, k) \o <<Corrupt>>
        BY <2>1, <3>2
      <4>2. SubSeq(snap[i], 1, k) \o <<Corrupt>> # << >>
        BY <2>2, <3>1
      <4> QED BY <2>1, <2>2, <3>1, <4>1, <4>2
    <3>3. CASE ~cut
      BY <1>4, <2>1, <2>2, <3>3
    <3> QED BY <3>2, <3>3
  <2>4. used' \in [Budgets -> Nat]
    BY <1>11, Spending DEF CompactWriteFailed, Budgets
  <2>5. UNCHANGED <<current, mem, called, owed, done>> /\ CompactDone(i)
    BY <1>11 DEF CompactWriteFailed, historyVars
  <2> QED BY <1>8, <2>3, <2>4, <2>5
<1>12. CASE Discard(i, ok)
  <2>1. lines' \in Seq(GoodLine) /\ torn' \in BOOLEAN /\ (torn' => lines' # << >>) /\ owed' \subseteq Ids
    BY <1>4, <1>12 DEF Discard, fileVars
  <2>2. chain' \in [Procs -> Seq(GoodOp)]
    BY <1>2, <1>12 DEF Discard, Dequeue
  <2>3. UNCHANGED <<current, step, snap, mem, called, done, used>>
    BY <1>12 DEF Discard, compactVars
  <2> QED BY <2>1, <2>2, <2>3
<1> QED BY <1>6, <1>7, <1>9, <1>10, <1>11, <1>12

\* A crash.
LEMMA CrashTypes == ASSUME JournalTypes, Crash PROVE JournalTypes'
<1> USE DEF JournalTypes
<1>1. /\ chain' = [i \in Procs |-> << >>] /\ step' = [i \in Procs |-> "none"]
      /\ snap' = [i \in Procs |-> << >>] /\ mem' = [i \in Procs |-> {}]
      /\ UNCHANGED <<current, called, owed, done>>
  BY DEF Crash, historyVars
<1>2. used' \in [Budgets -> Nat]
  <2>1. {"crashes", "faults", "tears"} \subseteq Budgets /\ used \in [Budgets -> Nat]
    BY DEF Budgets
  <2>2. \/ Spend("crashes")
        \/ \E b \in {"faults", "tears"} : used' = [used EXCEPT !["crashes"] = @ + 1, ![b] = @ + 1]
    BY DEF Crash
  <2>3. CASE Spend("crashes")
    BY <2>1, <2>3, Spending
  <2>4. CASE \E b \in {"faults", "tears"} : used' = [used EXCEPT !["crashes"] = @ + 1, ![b] = @ + 1]
    BY <2>1, <2>4
  <2> QED BY <2>2, <2>3, <2>4
<1>3. lines' \in Seq(GoodLine) /\ torn' \in BOOLEAN /\ (torn' => lines' # << >>)
  <2>1. CASE UNCHANGED <<lines, torn>>
    BY <2>1
  <2>2. CASE \E i \in Procs :
               /\ chain[i] # << >> /\ Head(chain[i]).op \in {"admitted", "settled"}
               /\ TornOff([rec |-> Head(chain[i]).op, id |-> Head(chain[i]).id])
    BY <2>2, RecordIs, WritesLines
  <2> QED BY <2>1, <2>2 DEF Crash, fileVars
<1> QED BY <1>1, <1>2, <1>3

\* Every step.
LEMMA TypesNext == ASSUME JournalTypes, [Next]_vars PROVE JournalTypes'
<1>1. CASE \E i \in Procs : CallAdmit(i) \/ \E id \in Ids : CallSettle(i, id)
  BY <1>1, CallTypes
<1>2. CASE CallReplay \/ CallDiscard
  BY <1>2, CallTypes DEF JournalTypes
<1>3. CASE \E i \in Procs : \E ok \in WriteResults : Appended(i, ok)
  BY <1>3, AppendedTypes
<1>4. CASE \E i \in Procs :
             \/ \E ok \in ReadResults : ReplayUnsettled(i, ok)
             \/ \E ok \in ReadResults : CompactRead(i, ok)
             \/ \E ok \in WriteResults : CompactOpen(i, ok)
             \/ CompactWrite(i)
             \/ CompactWriteFailed(i)
             \/ \E ok \in WriteResults : Discard(i, ok)
  BY <1>4, HeadTypes
<1>5. CASE Replace
  BY <1>5, JournalAssumption DEF Replace, JournalTypes, Procs, fileVars, compactVars, historyVars
<1>6. CASE Crash
  BY <1>6, CrashTypes
<1>7. CASE UNCHANGED vars
  BY <1>7 DEF vars, fileVars, compactVars, historyVars, JournalTypes
<1> QED BY <1>1, <1>2, <1>3, <1>4, <1>5, <1>6, <1>7 DEF Next

\* The journal starts empty.
LEMMA TypesInit == Init => JournalTypes
<1> SUFFICES ASSUME Init PROVE JournalTypes
  OBVIOUS
<1>1. 1 \in Procs /\ 0 \in 0..Turns
  BY JournalAssumption DEF Procs
<1>2. lines = << >> /\ torn = FALSE /\ current = 1 /\ called = 0 /\ owed = {} /\ done = {}
  BY DEF Init
<1>3. << >> \in Seq(GoodLine) /\ << >> \in Seq(GoodOp) /\ << >> \in Seq(Entry)
  OBVIOUS
<1>4. /\ chain \in [Procs -> Seq(GoodOp)] /\ step \in [Procs -> {"none", "read", "open"}]
      /\ snap \in [Procs -> Seq(Entry)] /\ mem \in [Procs -> SUBSET Ids]
      /\ used \in [Budgets -> Nat]
  BY <1>3 DEF Init
<1> QED BY <1>1, <1>2, <1>3, <1>4 DEF JournalTypes

\* Every variable of the journal keeps its type (journal.ts).
THEOREM JournalTyped == Spec => []TypeOK
<1>1. JournalTypes => TypeOK
  <2> SUFFICES ASSUME JournalTypes PROVE TypeOK
    OBVIOUS
  <2>1. /\ GoodLine \subseteq Line /\ GoodOp \subseteq JournalOp
        /\ Entry \subseteq {r \in Line : r.rec = "admitted"}
    BY DEF GoodLine, GoodOp, Entry
  <2>2. /\ lines \in Seq(Line) /\ chain \in [Procs -> Seq(JournalOp)]
        /\ snap \in [Procs -> Seq({r \in Line : r.rec = "admitted"})]
    BY <2>1 DEF JournalTypes
  <2> QED BY <2>2 DEF JournalTypes, TypeOK
<1> QED BY <1>1, TypesInit, TypesNext, PTL DEF Spec

-----------------------------------------------------------------------------
(***************************************************************************)
(* One instance.  Until /new the others are idle; a turn whose admission   *)
(* waits in the chain is newer than every other, so that the file, and     *)
(* what a compaction has read of it, are in the order of admission.        *)
(***************************************************************************)
Idle == \A i \in Procs \ {1} : chain[i] = << >> /\ step[i] = "none" /\ mem[i] = {}

Busy == step[1] # "none" => HeadIs(1, "compact")

Ordered ==
  /\ Rising(lines) /\ Rising(snap[1])
  /\ step[1] = "open" => lines = << >> /\ torn = FALSE
  /\ step[1] = "read" => IdsOf(snap[1]) = Live(lines, Len(lines))

\* The turns that were admitted, and those that will be after the first p - 1
\* operations of the chain; x is newer.
Seen == {0} \cup IdsOf(lines) \cup mem[1] \cup owed \cup done \cup IdsOf(snap[1])

Newer(x, p) ==
  /\ \A y \in Seen : y < x
  /\ \A q \in 1..Len(chain[1]) :
       chain[1][q].op = "settled" \/ (chain[1][q].op = "admitted" /\ q < p) => chain[1][q].id < x

Newest ==
  /\ Newer(called + 1, Len(chain[1]) + 1)
  /\ \A p \in 1..Len(chain[1]) : chain[1][p].op = "admitted" => Newer(chain[1][p].id, p)

One == current = 1 => Idle /\ Busy /\ Ordered /\ Newest

\* An append keeps the order of the file.
LEMMA WritesInOrder ==
  ASSUME lines \in Seq(GoodLine), torn \in BOOLEAN, torn => lines # << >>, Rising(lines),
         NEW r \in GoodLine,
         r.rec = "admitted" => \A i \in 1..Len(lines) : lines[i].id < r.id,
         Written(r) \/ TornOff(r)
  PROVE  Rising(lines') /\ IdsOf(lines') \subseteq IdsOf(lines) \cup {0, r.id}
<1>1. Corrupt \in GoodLine /\ Corrupt.rec = "corrupt" /\ Corrupt.id = 0
  BY CorruptIs DEF Corrupt
<1> HIDE DEF Corrupt
<1>2. ASSUME NEW x \in GoodLine, x = r \/ x = Corrupt, lines' = Append(lines, x)
      PROVE  Rising(lines') /\ IdsOf(lines') \subseteq IdsOf(lines) \cup {0, r.id}
  <2>1. /\ Len(lines') = Len(lines) + 1 /\ Len(lines) \in Nat
        /\ \A i \in 1..Len(lines) : lines'[i] = lines[i]
        /\ lines'[Len(lines) + 1] = x
        /\ \A i \in 1..Len(lines') : i \in 1..Len(lines) \/ i = Len(lines) + 1
        /\ DOMAIN lines' = 1..Len(lines') /\ DOMAIN lines = 1..Len(lines)
    BY <1>2, Appending
  <2>2. IdsOf(lines') \subseteq IdsOf(lines) \cup {0, r.id}
    BY <1>1, <1>2, <2>1 DEF IdsOf
  <2>3. ASSUME NEW i \in 1..Len(lines'), NEW j \in 1..Len(lines'), i < j,
               lines'[i].rec = "admitted", lines'[j].rec = "admitted"
        PROVE  lines'[i].id < lines'[j].id
    <3>1. i \in 1..Len(lines) /\ lines'[i] = lines[i]
      BY <2>1, <2>3
    <3>2. CASE j \in 1..Len(lines)
      BY <2>1, <2>3, <3>1, <3>2 DEF Rising
    <3>3. CASE j = Len(lines) + 1
      <4>1. lines'[j] = x /\ x = r
        BY <1>1, <1>2, <2>1, <2>3, <3>3
      <4> QED BY <2>3, <3>1, <4>1
    <3> QED BY <2>1, <3>2, <3>3
  <2> QED BY <2>2, <2>3 DEF Rising
<1>3. ASSUME lines # << >>, lines' = [lines EXCEPT ![Len(lines)] = Corrupt]
      PROVE  Rising(lines') /\ IdsOf(lines') \subseteq IdsOf(lines) \cup {0, r.id}
  <2>1. /\ Len(lines') = Len(lines) /\ Len(lines) \in Nat
        /\ DOMAIN lines' = 1..Len(lines) /\ DOMAIN lines = 1..Len(lines)
        /\ \A i \in 1..Len(lines) : lines'[i] = lines[i] \/ lines'[i] = Corrupt
    BY <1>3
  <2> QED BY <1>1, <2>1 DEF Rising, IdsOf
<1> QED BY <1>1, <1>2, <1>3 DEF Written, TornOff

\* What a replay returns has been seen.
LEMMA UnsettledSeen ==
  ASSUME NEW s \in Seq(GoodLine)
  PROVE  IdsOf(Unsettled(s)) \subseteq IdsOf(s)
<1>1. DOMAIN s = 1..Len(s)
  OBVIOUS
<1>2. Live(s, Len(s)) \subseteq IdsOf(s)
  BY <1>1 DEF Live, Has, IdsOf
<1> QED BY <1>2, UnsettledIs

\* The head of the chain is taken, with nothing new seen but its turn.
LEMMA NewestAfterHead ==
  ASSUME JournalTypes, Newest, chain[1] # << >>, called' = called,
         NEW o \in GoodOp, o.op \notin {"admitted", "settled"},
         chain'[1] = Tail(chain[1]) \/ chain'[1] = Append(Tail(chain[1]), o),
         \A y \in Seen' : \/ y \in Seen
                          \/ Head(chain[1]).op \in {"admitted", "settled"} /\ y = Head(chain[1]).id
  PROVE  Newest'
<1> DEFINE rest == Tail(chain[1])
<1>0. 1 \in Procs
  BY JournalAssumption DEF Procs
<1>1. PICK c \in Seq(GoodOp) : c = chain[1]
  BY <1>0 DEF JournalTypes
<1>2. /\ Head(c) = c[1] /\ 1 \in 1..Len(c) /\ Tail(c) \in Seq(GoodOp) /\ Len(Tail(c)) = Len(c) - 1
      /\ \A i \in 1..Len(Tail(c)) : Tail(c)[i] = c[i + 1] /\ i + 1 \in 1..Len(c)
  BY <1>1, Removing
<1>t. PICK t \in Seq(GoodOp) : t = Tail(c)
  BY <1>2
<1>a. /\ Append(t, o) \in Seq(GoodOp) /\ Len(Append(t, o)) = Len(t) + 1
      /\ \A i \in 1..Len(t) : Append(t, o)[i] = t[i]
      /\ Append(t, o)[Len(t) + 1] = o
      /\ \A i \in 1..Len(Append(t, o)) : i \in 1..Len(t) \/ i = Len(t) + 1
  BY Appending
<1>3. PICK d \in Seq(GoodOp) : d = chain'[1]
  BY <1>1, <1>t, <1>a
<1>4. /\ Len(c) \in Nat /\ Len(d) \in Nat /\ Len(d) >= Len(c) - 1
      /\ \A q \in 1..Len(d) : \/ q + 1 \in 1..Len(c) /\ d[q] = c[q + 1]
                              \/ d[q] = o
  <2>1. CASE chain'[1] = Tail(chain[1])
    BY <1>1, <1>2, <1>3, <2>1
  <2>2. CASE chain'[1] = Append(Tail(chain[1]), o)
    <3>1. /\ Len(d) = Len(t) + 1 /\ Len(t) \in Nat
          /\ \A i \in 1..Len(t) : d[i] = t[i]
          /\ d[Len(t) + 1] = o
          /\ \A i \in 1..Len(d) : i \in 1..Len(t) \/ i = Len(t) + 1
      BY <1>1, <1>t, <1>a, <1>3, <2>2
    <3>2. /\ Len(t) = Len(c) - 1
          /\ \A i \in 1..Len(t) : t[i] = c[i + 1] /\ i + 1 \in 1..Len(c)
      BY <1>2, <1>t
    <3>3. Len(c) \in Nat
      OBVIOUS
    <3> QED BY <3>1, <3>2, <3>3
  <2> QED BY <2>1, <2>2
<1>5. /\ \A y \in Seen : y < called + 1
      /\ \A q \in 1..Len(c) : c[q].op \in {"admitted", "settled"} => c[q].id < called + 1
      /\ \A p \in 1..Len(c) : c[p].op = "admitted" =>
           /\ \A y \in Seen : y < c[p].id
           /\ \A q \in 1..Len(c) :
                c[q].op = "settled" \/ (c[q].op = "admitted" /\ q < p) => c[q].id < c[p].id
  <2>1. \A q \in 1..Len(c) : q < Len(c) + 1
    BY <1>4
  <2> QED BY <1>1, <2>1 DEF Newest, Newer
<1>6. \A y \in Seen' : y < called + 1
  BY <1>1, <1>2, <1>5
<1>7. \A q \in 1..Len(d) : d[q].op \in {"admitted", "settled"} => d[q].id < called + 1
  BY <1>4, <1>5
<1>8. ASSUME NEW p \in 1..Len(d), d[p].op = "admitted"
      PROVE  /\ \A y \in Seen' : y < d[p].id
             /\ \A q \in 1..Len(d) :
                  d[q].op = "settled" \/ (d[q].op = "admitted" /\ q < p) => d[q].id < d[p].id
  <2>1. p + 1 \in 1..Len(c) /\ d[p] = c[p + 1] /\ c[p + 1].op = "admitted" /\ 1 < p + 1
    BY <1>4, <1>8
  <2>2. \A y \in Seen : y < d[p].id
    BY <1>5, <2>1
  <2>3. \A q \in 1..Len(c) :
          c[q].op = "settled" \/ (c[q].op = "admitted" /\ q < p + 1) => c[q].id < d[p].id
    BY <1>5, <2>1
  <2>4. \A y \in Seen' : y < d[p].id
    BY <1>1, <1>2, <2>1, <2>2, <2>3
  <2>5. \A q \in 1..Len(d) :
          d[q].op = "settled" \/ (d[q].op = "admitted" /\ q < p) => d[q].id < d[p].id
    <3> SUFFICES ASSUME NEW q \in 1..Len(d),
                        d[q].op = "settled" \/ (d[q].op = "admitted" /\ q < p)
                 PROVE  d[q].id < d[p].id
      OBVIOUS
    <3>1. q + 1 \in 1..Len(c) /\ d[q] = c[q + 1]
      BY <1>4
    <3>2. q < p => q + 1 < p + 1
      OBVIOUS
    <3> QED BY <2>3, <3>1, <3>2
  <2> QED BY <2>4, <2>5
<1>9. Newest'
  <2>1. \A q \in 1..Len(d) : q < Len(d) + 1
    BY <1>4
  <2> QED BY <1>3, <1>6, <1>7, <1>8, <2>1 DEF Newest, Newer
<1> QED BY <1>9

\* An operation is called that admits nothing.
LEMMA NewestAfterCall ==
  ASSUME JournalTypes, Newest, called' = called,
         NEW o \in GoodOp, o.op # "admitted", o.op = "settled" => o.id \in Seen,
         chain'[1] = Append(chain[1], o), \A y \in Seen' : y \in Seen
  PROVE  Newest'
<1>0. 1 \in Procs
  BY JournalAssumption DEF Procs
<1>1. PICK c \in Seq(GoodOp) : c = chain[1]
  BY <1>0 DEF JournalTypes
<1>2. PICK d : d = chain'[1] /\ d = Append(c, o)
  BY <1>1
<1>3. /\ Len(d) = Len(c) + 1 /\ Len(c) \in Nat
      /\ \A q \in 1..Len(d) : (q \in 1..Len(c) /\ d[q] = c[q]) \/ d[q] = o
  BY <1>2, Appending
<1>4. /\ \A y \in Seen : y < called + 1
      /\ \A q \in 1..Len(c) : c[q].op \in {"admitted", "settled"} => c[q].id < called + 1
      /\ \A p \in 1..Len(c) : c[p].op = "admitted" =>
           /\ \A y \in Seen : y < c[p].id
           /\ \A q \in 1..Len(c) :
                c[q].op = "settled" \/ (c[q].op = "admitted" /\ q < p) => c[q].id < c[p].id
  <2>1. \A q \in 1..Len(c) : q < Len(c) + 1
    BY <1>3
  <2> QED BY <1>1, <2>1 DEF Newest, Newer
<1>5. \A q \in 1..Len(d) : d[q].op \in {"admitted", "settled"} => d[q].id < called + 1
  BY <1>3, <1>4
<1>6. ASSUME NEW p \in 1..Len(d), d[p].op = "admitted"
      PROVE  /\ \A y \in Seen' : y < d[p].id
             /\ \A q \in 1..Len(d) :
                  d[q].op = "settled" \/ (d[q].op = "admitted" /\ q < p) => d[q].id < d[p].id
  <2>1. p \in 1..Len(c) /\ d[p] = c[p]
    BY <1>3, <1>6
  <2>2. \A y \in Seen : y < d[p].id
    BY <1>4, <1>6, <2>1
  <2>3. \A q \in 1..Len(c) :
          c[q].op = "settled" \/ (c[q].op = "admitted" /\ q < p) => c[q].id < d[p].id
    BY <1>4, <1>6, <2>1
  <2> QED BY <1>3, <2>2, <2>3
<1>7. Newest'
  <2>1. \A q \in 1..Len(d) : q < Len(d) + 1
    BY <1>3
  <2> QED BY <1>2, <1>4, <1>5, <1>6, <2>1 DEF Newest, Newer
<1> QED BY <1>7

\* A turn is admitted: it is newer.
LEMMA NewestAfterAdmit ==
  ASSUME JournalTypes, Newest, called' = called + 1,
         chain'[1] = Append(chain[1], Op("admitted", called + 1)), Op("admitted", called + 1) \in GoodOp,
         \A y \in Seen' : y \in Seen
  PROVE  Newest'
<1> DEFINE o == Op("admitted", called + 1)
<1>0. 1 \in Procs /\ called \in Nat
  BY JournalAssumption DEF Procs, JournalTypes
<1>1. PICK c \in Seq(GoodOp) : c = chain[1]
  BY <1>0 DEF JournalTypes
<1>a. o.op = "admitted" /\ o.id = called + 1 /\ o \in GoodOp
  BY DEF Op
<1> HIDE DEF o
<1>2. PICK d : d = chain'[1] /\ d = Append(c, o)
  BY <1>1 DEF o
<1>3. /\ Len(d) = Len(c) + 1 /\ Len(c) \in Nat /\ d[Len(c) + 1] = o
      /\ \A q \in 1..Len(d) : (q \in 1..Len(c) /\ d[q] = c[q]) \/ (q = Len(c) + 1 /\ d[q] = o)
  BY <1>a, <1>2, Appending
<1>4. /\ \A y \in Seen : y < called + 1
      /\ \A q \in 1..Len(c) : c[q].op \in {"admitted", "settled"} => c[q].id < called + 1
      /\ \A p \in 1..Len(c) : c[p].op = "admitted" =>
           /\ \A y \in Seen : y < c[p].id
           /\ \A q \in 1..Len(c) :
                c[q].op = "settled" \/ (c[q].op = "admitted" /\ q < p) => c[q].id < c[p].id
  <2>1. \A q \in 1..Len(c) : q < Len(c) + 1
    BY <1>3
  <2> QED BY <1>1, <2>1 DEF Newest, Newer
<1>5. \A q \in 1..Len(c) : c[q].op \in {"admitted", "settled"} => c[q].id \in Nat
  <2>1. \A q \in 1..Len(c) : c[q] \in GoodOp
    OBVIOUS
  <2> QED BY <2>1 DEF GoodOp, JournalOp
<1>6. \A y \in Seen : y \in Nat
  <2>1. \A s \in Seq(GoodLine) : \A y \in IdsOf(s) : y \in Nat
    <3>1. \A r \in GoodLine : r.id \in Nat
      BY DEF GoodLine, Line
    <3> QED BY <3>1 DEF IdsOf
  <2>2. snap[1] \in Seq(GoodLine)
    <3>1. Entry \subseteq GoodLine /\ snap[1] \in Seq(Entry)
      BY <1>0 DEF Entry, GoodLine, JournalTypes
    <3> QED BY <3>1
  <2>3. Ids \subseteq Nat
    BY JournalAssumption DEF Ids
  <2> QED BY <1>0, <2>1, <2>2, <2>3 DEF Seen, JournalTypes
<1>7. \A q \in 1..Len(d) : d[q].op \in {"admitted", "settled"} => d[q].id < called + 2
  BY <1>0, <1>a, <1>3, <1>4, <1>5
<1>8. \A y \in Seen' : y < called + 2
  BY <1>0, <1>4, <1>6
<1>9. ASSUME NEW p \in 1..Len(d), d[p].op = "admitted"
      PROVE  /\ \A y \in Seen' : y < d[p].id
             /\ \A q \in 1..Len(d) :
                  d[q].op = "settled" \/ (d[q].op = "admitted" /\ q < p) => d[q].id < d[p].id
  <2>1. CASE p \in 1..Len(c) /\ d[p] = c[p]
    <3>1. \A y \in Seen : y < d[p].id
      BY <1>4, <1>9, <2>1
    <3>2. \A q \in 1..Len(c) :
            c[q].op = "settled" \/ (c[q].op = "admitted" /\ q < p) => c[q].id < d[p].id
      BY <1>4, <1>9, <2>1
    <3>3. \A q \in 1..Len(d) : q = Len(c) + 1 => ~(q < p)
      BY <1>3, <2>1
    <3> QED BY <1>a, <1>3, <3>1, <3>2, <3>3
  <2>2. CASE p = Len(c) + 1 /\ d[p] = o
    <3>1. \A y \in Seen' : y < d[p].id
      BY <1>a, <1>4, <2>2
    <3>2. \A q \in 1..Len(d) :
            d[q].op = "settled" \/ (d[q].op = "admitted" /\ q < p) => d[q].id < d[p].id
      <4> SUFFICES ASSUME NEW q \in 1..Len(d),
                          d[q].op = "settled" \/ (d[q].op = "admitted" /\ q < p)
                   PROVE  d[q].id < d[p].id
        OBVIOUS
      <4>1. q \in 1..Len(c) /\ d[q] = c[q]
        BY <1>a, <1>3, <2>2
      <4> QED BY <1>a, <1>4, <2>2, <4>1
    <3> QED BY <3>1, <3>2
  <2> QED BY <1>3, <2>1, <2>2
<1>10. Newest'
  <2>1. \A q \in 1..Len(d) : q < Len(d) + 1
    BY <1>3
  <2>2. called' + 1 = called + 2
    BY <1>0
  <2> QED BY <1>2, <1>7, <1>8, <1>9, <2>1, <2>2 DEF Newest, Newer
<1> QED BY <1>10

\* The chain stays, and nothing new is seen.
LEMMA NewestStays ==
  ASSUME Newest, called' = called, chain'[1] = chain[1], \A y \in Seen' : y \in Seen
  PROVE  Newest'
<1> DEFINE n == called + 1
<1>1. PICK c : c = chain[1]
  OBVIOUS
<1>2. /\ \A y \in Seen : y < n
      /\ \A q \in 1..Len(c) :
           c[q].op = "settled" \/ (c[q].op = "admitted" /\ q < Len(c) + 1) => c[q].id < n
      /\ \A p \in 1..Len(c) : c[p].op = "admitted" =>
           /\ \A y \in Seen : y < c[p].id
           /\ \A q \in 1..Len(c) :
                c[q].op = "settled" \/ (c[q].op = "admitted" /\ q < p) => c[q].id < c[p].id
  BY <1>1 DEF Newest, Newer
<1> HIDE DEF n
<1>3. called' + 1 = n /\ chain'[1] = c
  BY <1>1 DEF n
<1>4. \A y \in Seen' : y < n
  BY <1>2
<1>5. \A p \in 1..Len(c) : c[p].op = "admitted" => \A y \in Seen' : y < c[p].id
  BY <1>2
<1>6. Newer(called + 1, Len(chain[1]) + 1)'
  BY <1>2, <1>3, <1>4 DEF Newer
<1>7. (\A p \in 1..Len(chain[1]) : chain[1][p].op = "admitted" => Newer(chain[1][p].id, p))'
  BY <1>2, <1>3, <1>5 DEF Newer
<1> QED BY <1>6, <1>7 DEF Newest

\* Only the chain, the step and the turns of the first instance change.
OthersStay == \A j \in Procs \ {1} : chain'[j] = chain[j] /\ step'[j] = step[j] /\ mem'[j] = mem[j]

\* Who is at work is the first instance.
LEMMA OnlyFirst ==
  ASSUME JournalTypes, One, current = 1, NEW i \in Procs, chain[i] # << >> \/ mem[i] # {}
  PROVE  i = 1
  BY DEF One, Idle

\* The others stay idle.
LEMMA IdleStays == ASSUME Idle, OthersStay PROVE Idle'
  BY DEF Idle, OthersStay

\* The calls keep it.
LEMMA OneCalls ==
  ASSUME JournalTypes, One, current = 1, NEW i \in Procs,
         CallAdmit(i) \/ (\E id \in Ids : CallSettle(i, id)) \/ CallReplay \/ CallDiscard
  PROVE  One'
<1>0. 1 \in Procs /\ current = 1
  BY JournalAssumption DEF Procs
<1>1. /\ \A id \in Ids : Op("admitted", id) \in GoodOp /\ Op("settled", id) \in GoodOp
      /\ Op("replay", 0) \in GoodOp /\ Op("discard", 0) \in GoodOp
  BY JournalAssumption DEF Op, GoodOp, JournalOp, Ids
<1>2. Idle /\ Busy /\ Ordered /\ Newest
  BY DEF One
<1>3. UNCHANGED <<lines, torn, step, snap, owed, done>>
  BY DEF CallAdmit, CallSettle, CallReplay, CallDiscard, fileVars, compactVars, historyVars
<1>4. PICK o \in GoodOp : chain' = [chain EXCEPT ![1] = Append(@, o)] /\ OthersStay /\ Newest'
  <2>1. CASE CallAdmit(i)
    <3>1. i = 1 /\ called + 1 \in Ids
      BY <1>0, <2>1, JournalAssumption DEF CallAdmit, JournalTypes, Procs, Ids
    <3>2. /\ chain' = [chain EXCEPT ![1] = Append(@, Op("admitted", called + 1))]
          /\ mem' = mem /\ called' = called + 1
      BY <2>1, <3>1 DEF CallAdmit, Enqueue
    <3>3. chain'[1] = Append(chain[1], Op("admitted", called + 1))
      BY <1>0, <3>2 DEF JournalTypes
    <3>4. Newest'
      <4>1. \A y \in Seen' : y \in Seen
        BY <1>3, <3>2 DEF Seen
      <4> QED BY <1>1, <1>2, <3>1, <3>2, <3>3, <4>1, NewestAfterAdmit
    <3>5. OthersStay
      BY <1>3, <3>2 DEF OthersStay, JournalTypes
    <3> QED BY <1>1, <3>1, <3>2, <3>4, <3>5
  <2>2. ASSUME NEW id \in Ids, CallSettle(i, id)
        PROVE  \E o \in GoodOp : chain' = [chain EXCEPT ![1] = Append(@, o)] /\ OthersStay /\ Newest'
    <3>1. i = 1 /\ id \in mem[1]
      BY <2>2, OnlyFirst DEF CallSettle
    <3>2. /\ chain' = [chain EXCEPT ![1] = Append(@, Op("settled", id))]
          /\ mem' = [mem EXCEPT ![1] = @ \ {id}] /\ called' = called
      BY <2>2, <3>1 DEF CallSettle, Enqueue, historyVars
    <3>3. chain'[1] = Append(chain[1], Op("settled", id)) /\ mem'[1] = mem[1] \ {id}
      BY <1>0, <3>2 DEF JournalTypes
    <3>4. Newest'
      <4>1. \A y \in Seen' : y \in Seen
        BY <1>3, <3>3 DEF Seen
      <4>2. Op("settled", id).op = "settled" /\ Op("settled", id).id = id /\ id \in Seen
        BY <3>1 DEF Op, Seen
      <4>3. PICK o \in GoodOp : o = Op("settled", id)
        BY <1>1
      <4>4. o.op # "admitted" /\ (o.op = "settled" => o.id \in Seen) /\ chain'[1] = Append(chain[1], o)
        BY <3>3, <4>2, <4>3
      <4> QED BY <1>2, <3>2, <4>1, <4>4, NewestAfterCall
    <3>5. OthersStay
      BY <1>3, <3>2 DEF OthersStay, JournalTypes
    <3> QED BY <1>1, <3>2, <3>4, <3>5
  <2>3. CASE CallReplay \/ CallDiscard
    <3>1. PICK o \in GoodOp : /\ o.op \in {"replay", "discard"}
                              /\ chain' = [chain EXCEPT ![1] = Append(@, o)]
      <4>1. Op("replay", 0).op = "replay" /\ Op("discard", 0).op = "discard"
        BY DEF Op
      <4>2. \/ chain' = [chain EXCEPT ![1] = Append(@, Op("replay", 0))]
            \/ chain' = [chain EXCEPT ![1] = Append(@, Op("discard", 0))]
        BY <1>0, <2>3 DEF CallReplay, CallDiscard, Enqueue
      <4> QED BY <1>1, <4>1, <4>2
    <3>2. mem' = mem /\ called' = called
      BY <2>3 DEF CallReplay, CallDiscard, historyVars
    <3>3. chain'[1] = Append(chain[1], o)
      BY <1>0, <3>1 DEF JournalTypes
    <3>4. Newest'
      <4>1. \A y \in Seen' : y \in Seen
        BY <1>3, <3>2 DEF Seen
      <4>2. o.op # "admitted" /\ o.op # "settled"
        BY <3>1
      <4> QED BY <1>2, <3>2, <3>3, <4>1, <4>2, NewestAfterCall
    <3>5. OthersStay
      BY <1>3, <3>1, <3>2 DEF OthersStay, JournalTypes
    <3> QED BY <3>1, <3>4, <3>5
  <2> QED BY <2>1, <2>2, <2>3
<1>5. Idle'
  BY <1>2, <1>4, IdleStays
<1>6. Busy'
  <2>1. ASSUME step'[1] # "none" PROVE HeadIs(1, "compact")'
    <3>1. PICK c \in Seq(GoodOp) : c = chain[1]
      BY <1>0 DEF JournalTypes
    <3>2. c # << >> /\ Head(c).op = "compact"
      BY <1>2, <1>3, <2>1, <3>1 DEF Busy, HeadIs
    <3>3. chain'[1] = Append(c, o)
      BY <1>0, <1>4, <3>1 DEF JournalTypes
    <3>4. Append(c, o) # << >> /\ Head(Append(c, o)) = Head(c)
      BY <3>2
    <3> QED BY <3>2, <3>3, <3>4 DEF HeadIs
  <2> QED BY <2>1 DEF Busy
<1>7. Ordered'
  BY <1>2, <1>3 DEF Ordered
<1> QED BY <1>4, <1>5, <1>6, <1>7 DEF One

\* An append keeps it.
LEMMA OneAppended ==
  ASSUME JournalTypes, One, current = 1, NEW i \in Procs, NEW ok \in WriteResults, Appended(i, ok)
  PROVE  One'
<1> DEFINE r == [rec |-> Head(chain[1]).op, id |-> Head(chain[1]).id]
<1>0. 1 \in Procs
  BY JournalAssumption DEF Procs
<1>1. Idle /\ Busy /\ Ordered /\ Newest
  BY DEF One
<1>2. i = 1 /\ chain[1] # << >>
  BY OnlyFirst DEF Appended
<1>3. /\ Head(chain[1]).op \in {"admitted", "settled"}
      /\ chain' = [chain EXCEPT ![1] = Tail(@)]
      /\ UNCHANGED <<current, step, snap, called>>
  BY <1>2 DEF Appended, Dequeue, compactVars
<1>4. Written(r) \/ TornOff(r) \/ UNCHANGED <<lines, torn>>
  BY <1>2 DEF Appended, fileVars
<1>5. /\ \A j \in Procs \ {1} : mem'[j] = mem[j]
      /\ mem'[1] \subseteq mem[1] \cup {r.id}
      /\ owed' \subseteq owed \cup {r.id} /\ done' \subseteq done \cup {r.id}
  BY <1>0, <1>2 DEF Appended, JournalTypes
<1> HIDE DEF r
<1>6. r \in GoodLine /\ r.rec = Head(chain[1]).op /\ r.id = Head(chain[1]).id
  BY <1>0, <1>2, <1>3, RecordIs DEF r
<1>7. r.rec = "admitted" => \A j \in 1..Len(lines) : lines[j].id < r.id
  <2>1. PICK c \in Seq(GoodOp) : c = chain[1]
    BY <1>0 DEF JournalTypes
  <2>2. 1 \in 1..Len(c) /\ Head(c) = c[1]
    BY <1>2, <2>1, Removing
  <2>3. r.rec = "admitted" => \A y \in Seen : y < r.id
    BY <1>1, <1>6, <2>1, <2>2 DEF Newest, Newer
  <2>4. \A j \in 1..Len(lines) : lines[j].id \in Seen
    BY DEF Seen, IdsOf, JournalTypes
  <2> QED BY <2>3, <2>4
<1>8. Rising(lines') /\ IdsOf(lines') \subseteq IdsOf(lines) \cup {0, r.id}
  <2>1. CASE Written(r) \/ TornOff(r)
    BY <1>1, <1>6, <1>7, <2>1, WritesInOrder DEF JournalTypes, Ordered
  <2>2. CASE UNCHANGED <<lines, torn>>
    BY <1>1, <2>2 DEF Ordered
  <2> QED BY <1>4, <2>1, <2>2
<1>9. step[1] = "none"
  BY <1>1, <1>2, <1>3 DEF Busy, HeadIs
<1>10. Ordered' /\ Busy'
  BY <1>1, <1>3, <1>8, <1>9 DEF Ordered, Busy
<1>11. Idle'
  <2>1. OthersStay
    BY <1>3, <1>5 DEF OthersStay, JournalTypes
  <2> QED BY <1>1, <2>1, IdleStays
<1>12. Newest'
  <2>1. \A y \in Seen' : y \in Seen \/ y = Head(chain[1]).id
    BY <1>3, <1>5, <1>6, <1>8 DEF Seen
  <2>2. chain'[1] = Tail(chain[1])
    BY <1>0, <1>3 DEF JournalTypes
  <2>3. PICK o \in GoodOp : o.op = "compact"
    <3>1. Op("compact", 0) \in GoodOp /\ Op("compact", 0).op = "compact"
      BY JournalAssumption DEF Op, GoodOp, JournalOp
    <3> QED BY <3>1
  <2>4. o.op \notin {"admitted", "settled"}
    BY <2>3
  <2> QED BY <1>1, <1>2, <1>3, <2>1, <2>2, <2>4, NewestAfterHead
<1> QED BY <1>10, <1>11, <1>12 DEF One

\* The other operations at the head of the chain keep it.
LEMMA OneHead ==
  ASSUME JournalTypes, One, current = 1, NEW i \in Procs, NEW ok,
         \/ ReplayUnsettled(i, ok) \/ CompactRead(i, ok) \/ CompactOpen(i, ok)
         \/ CompactWrite(i) \/ CompactWriteFailed(i) \/ Discard(i, ok)
  PROVE  One'
<1>0. 1 \in Procs
  BY JournalAssumption DEF Procs
<1>1. Idle /\ Busy /\ Ordered /\ Newest
  BY DEF One
<1>2. i = 1 /\ chain[1] # << >> /\ chain[1] \in Seq(GoodOp)
  <2>1. chain[i] # << >>
    BY DEF ReplayUnsettled, CompactRead, CompactOpen, CompactWrite, CompactWriteFailed, Discard, HeadIs
  <2> QED BY <1>0, <2>1, OnlyFirst DEF JournalTypes
<1>3. UNCHANGED <<called, done>> /\ owed' \subseteq owed
  BY DEF ReplayUnsettled, CompactRead, CompactOpen, CompactWrite, CompactWriteFailed, Discard, historyVars
<1>4. OthersStay
  BY <1>2 DEF ReplayUnsettled, CompactRead, CompactOpen, CompactWrite, CompactWriteFailed, CompactDone,
     Discard, Dequeue, historyVars, compactVars, OthersStay, JournalTypes
<1>5. Idle'
  BY <1>1, <1>4, IdleStays
<1>6. PICK o \in GoodOp : o.op = "compact" /\ o = Op("compact", 0)
  <2>1. Op("compact", 0) \in GoodOp /\ Op("compact", 0).op = "compact"
    BY JournalAssumption DEF Op, GoodOp, JournalOp
  <2> QED BY <2>1
<1>7. ASSUME chain'[1] = Tail(chain[1]) \/ chain'[1] = Append(Tail(chain[1]), o),
             \A y \in Seen' : y \in Seen
      PROVE  Newest'
  <2>1. o.op \notin {"admitted", "settled"}
    BY <1>6
  <2> QED BY <1>1, <1>2, <1>3, <1>7, <2>1, NewestAfterHead
<1>8. Tail(chain[1]) \in Seq(GoodOp)
  BY <1>2, Removing
<1>9. /\ snap[1] \in Seq(Entry) /\ snap[1] \in Seq(GoodLine) /\ lines \in Seq(GoodLine)
      /\ Unsettled(lines) \in Seq(Entry) /\ IdsOf(Unsettled(lines)) \subseteq IdsOf(lines)
      /\ IdsOf(Unsettled(lines)) = Live(lines, Len(lines)) /\ Rising(Unsettled(lines))
  <2>1. Entry \subseteq GoodLine
    BY DEF Entry, GoodLine
  <2>2. snap[1] \in Seq(Entry) /\ lines \in Seq(GoodLine)
    BY <1>0 DEF JournalTypes
  <2> QED BY <1>1, <2>1, <2>2, UnsettledIs, UnsettledSeen DEF Ordered
<1>10. Rising(<< >>) /\ IdsOf(<< >>) = {}
  BY DEF Rising, IdsOf
<1>11. CASE ReplayUnsettled(i, ok)
  <2>1. /\ Head(chain[1]).op = "replay" /\ UNCHANGED <<lines, torn, current, step, snap>>
        /\ chain' = [chain EXCEPT ![1] = Append(Tail(@), o)]
    BY <1>2, <1>6, <1>11 DEF ReplayUnsettled, HeadIs, fileVars, compactVars
  <2>2. step[1] = "none"
    BY <1>1, <2>1 DEF Busy, HeadIs
  <2>3. mem'[1] \subseteq mem[1] \cup IdsOf(lines) /\ owed' = owed
    BY <1>0, <1>2, <1>9, <1>11 DEF ReplayUnsettled, JournalTypes, historyVars
  <2>4. \A y \in Seen' : y \in Seen
    BY <1>3, <2>1, <2>3 DEF Seen
  <2>5. chain'[1] = Append(Tail(chain[1]), o)
    BY <1>0, <2>1 DEF JournalTypes
  <2> QED BY <1>1, <1>5, <1>7, <2>1, <2>2, <2>4, <2>5 DEF One, Busy, Ordered
<1>12. CASE CompactRead(i, ok) /\ ok
  <2>1. /\ chain' = chain /\ snap'[1] = Unsettled(lines) /\ step'[1] = "read"
        /\ UNCHANGED <<lines, torn, current, mem, owed>> /\ HeadIs(1, "compact")
    BY <1>0, <1>2, <1>12 DEF CompactRead, JournalTypes, fileVars, historyVars
  <2>2. \A y \in Seen' : y \in Seen
    BY <1>3, <1>9, <2>1 DEF Seen
  <2>3. Newest'
    BY <1>1, <1>3, <2>1, <2>2, NewestStays
  <2>4. Busy' /\ Ordered'
    BY <1>1, <1>9, <2>1 DEF Busy, Ordered, HeadIs
  <2> QED BY <1>5, <2>3, <2>4 DEF One
<1>13. CASE CompactRead(i, ok) /\ ~ok
  <2>1. /\ chain'[1] = Tail(chain[1]) /\ step[1] = "none"
        /\ UNCHANGED <<lines, torn, current, mem, owed, step, snap>>
    BY <1>0, <1>2, <1>13 DEF CompactRead, Dequeue, JournalTypes, fileVars, historyVars, compactVars
  <2>2. Newest'
    <3>1. \A y \in Seen' : y \in Seen
      BY <1>3, <2>1 DEF Seen
    <3> QED BY <1>7, <2>1, <3>1
  <2> QED BY <1>1, <1>5, <2>1, <2>2 DEF One, Busy, Ordered
<1>14. ASSUME CompactDone(1), Rising(lines'), mem' = mem,
              IdsOf(lines') \subseteq {0} \cup IdsOf(lines) \cup IdsOf(snap[1])
       PROVE  One'
  <2>1. chain'[1] = Tail(chain[1]) /\ step'[1] = "none" /\ snap'[1] = << >>
    BY <1>0, <1>14 DEF CompactDone, Dequeue, JournalTypes
  <2>2. \A y \in Seen' : y \in Seen
    BY <1>3, <1>10, <1>14, <2>1 DEF Seen
  <2> QED BY <1>5, <1>7, <1>10, <1>14, <2>1, <2>2 DEF One, Busy, Ordered
<1>15. CASE CompactOpen(i, ok) /\ ok
  <2>1. /\ lines' = << >> /\ torn' = FALSE /\ step'[1] = "open"
        /\ UNCHANGED <<chain, snap, current, mem, owed>> /\ HeadIs(1, "compact")
    BY <1>0, <1>2, <1>15 DEF CompactOpen, JournalTypes, historyVars
  <2>2. \A y \in Seen' : y \in Seen
    BY <1>3, <1>10, <2>1 DEF Seen
  <2>3. Newest'
    BY <1>1, <1>3, <2>1, <2>2, NewestStays
  <2>4. Busy' /\ Ordered'
    BY <1>1, <1>10, <2>1 DEF Busy, Ordered, HeadIs
  <2> QED BY <1>5, <2>3, <2>4 DEF One
<1>16. CASE CompactOpen(i, ok) /\ ~ok
  <2>1. CompactDone(1) /\ lines' = lines /\ mem' = mem
    BY <1>2, <1>16 DEF CompactOpen, fileVars
  <2> QED BY <1>1, <1>14, <2>1 DEF Ordered
<1>17. CASE CompactWrite(i)
  <2>1. lines = << >> /\ step[1] = "open"
    BY <1>1, <1>2, <1>17 DEF CompactWrite, Ordered
  <2>2. CompactDone(1) /\ (lines' = lines \/ lines' = snap[1]) /\ mem' = mem
    BY <1>2, <1>17, <2>1 DEF CompactWrite, fileVars
  <2>3. Rising(lines')
    BY <1>1, <2>2 DEF Ordered
  <2>4. IdsOf(lines') \subseteq {0} \cup IdsOf(lines) \cup IdsOf(snap[1])
    BY <2>2
  <2> QED BY <1>14, <2>2, <2>3, <2>4
<1>18. CASE CompactWriteFailed(i)
  <2>1. PICK k \in 0..(Len(snap[1]) - 1), cut \in BOOLEAN :
          lines' = SubSeq(snap[1], 1, k) \o IF cut THEN <<Corrupt>> ELSE << >>
    BY <1>2, <1>18 DEF CompactWriteFailed
  <2>2. PICK s \in Seq(GoodLine) : s = snap[1] /\ s \in Seq(Entry) /\ Rising(s)
    BY <1>1, <1>9 DEF Ordered
  <2>3. Corrupt \in GoodLine /\ Corrupt.rec = "corrupt" /\ Corrupt.id = 0
    BY CorruptIs DEF Corrupt
  <2> HIDE DEF Corrupt
  <2>4. PICK p \in Seq(GoodLine) :
          /\ p = SubSeq(s, 1, k) /\ Len(p) = k /\ k \in Nat /\ k <= Len(s)
          /\ \A j \in 1..k : p[j] = s[j]
    <3>1. k \in Nat /\ k <= Len(s) /\ Len(s) \in Nat
      BY <2>2
    <3>2. /\ SubSeq(s, 1, k) \in Seq(GoodLine) /\ Len(SubSeq(s, 1, k)) = k
          /\ \A j \in 1..k : SubSeq(s, 1, k)[j] = s[j]
      BY <3>1
    <3> QED BY <3>1, <3>2
  <2>5. PICK q : /\ q = lines'
                 /\ \A j \in DOMAIN q : (j \in 1..k /\ q[j] = s[j]) \/ (j = k + 1 /\ q[j] = Corrupt)
                 /\ q \in Seq(GoodLine)
    <3>1. CASE cut
      <4>1. lines' = p \o <<Corrupt>>
        BY <2>1, <2>2, <2>4, <3>1
      <4>2. p \o <<Corrupt>> \in Seq(GoodLine) /\ Len(p \o <<Corrupt>>) = k + 1
        BY <2>3, <2>4
      <4>3. \A j \in 1..k : (p \o <<Corrupt>>)[j] = p[j]
        BY <2>4
      <4>4. (p \o <<Corrupt>>)[k + 1] = Corrupt
        BY <2>4
      <4>5. \A j \in DOMAIN (p \o <<Corrupt>>) : j \in 1..k \/ j = k + 1
        BY <2>4, <4>2
      <4> QED BY <2>4, <4>1, <4>2, <4>3, <4>4, <4>5
    <3>2. CASE ~cut
      <4>1. lines' = p \o << >>
        BY <2>1, <2>2, <2>4, <3>2
      <4>2. p \o << >> = p /\ DOMAIN p = 1..k
        BY <2>4
      <4> QED BY <2>4, <4>1, <4>2
    <3> QED BY <3>1, <3>2
  <2>6. Rising(lines')
    <3> SUFFICES ASSUME NEW j \in 1..Len(q), NEW l \in 1..Len(q), j < l,
                        q[j].rec = "admitted", q[l].rec = "admitted"
                 PROVE  q[j].id < q[l].id
      BY <2>5 DEF Rising
    <3>1. DOMAIN q = 1..Len(q)
      BY <2>5
    <3>2. j \in 1..k /\ l \in 1..k /\ q[j] = s[j] /\ q[l] = s[l]
      BY <2>3, <2>5, <3>1
    <3>3. j \in 1..Len(s) /\ l \in 1..Len(s)
      BY <2>4, <3>2
    <3> QED BY <2>2, <3>2, <3>3 DEF Rising
  <2>7. IdsOf(lines') \subseteq {0} \cup IdsOf(lines) \cup IdsOf(snap[1])
    <3>1. \A j \in 1..k : j \in DOMAIN s
      BY <2>4
    <3> QED BY <2>2, <2>3, <2>5, <3>1 DEF IdsOf
  <2>8. CompactDone(1) /\ mem' = mem
    BY <1>2, <1>18 DEF CompactWriteFailed
  <2> QED BY <1>14, <2>6, <2>7, <2>8
<1>19. CASE Discard(i, ok)
  <2>1. /\ Head(chain[1]).op = "discard" /\ chain'[1] = Tail(chain[1])
        /\ (lines' = << >>) \/ lines' = lines
        /\ UNCHANGED <<step, snap, mem>>
    BY <1>0, <1>2, <1>19 DEF Discard, HeadIs, Dequeue, JournalTypes, fileVars, compactVars
  <2>2. step[1] = "none"
    BY <1>1, <2>1 DEF Busy, HeadIs
  <2>3. \A y \in Seen' : y \in Seen
    BY <1>3, <1>10, <2>1 DEF Seen
  <2> QED BY <1>1, <1>5, <1>7, <1>10, <2>1, <2>2, <2>3 DEF One, Busy, Ordered
<1> QED BY <1>11, <1>12, <1>13, <1>15, <1>16, <1>17, <1>18, <1>19

\* A crash keeps it.
LEMMA OneCrash ==
  ASSUME JournalTypes, One, current = 1, Crash
  PROVE  One'
<1>0. 1 \in Procs
  BY JournalAssumption DEF Procs
<1>1. Idle /\ Busy /\ Ordered /\ Newest
  BY DEF One
<1>2. /\ chain' = [i \in Procs |-> << >>] /\ step' = [i \in Procs |-> "none"]
      /\ snap' = [i \in Procs |-> << >>] /\ mem' = [i \in Procs |-> {}]
      /\ UNCHANGED <<current, called, owed, done>>
  BY DEF Crash, historyVars
<1>3. Rising(<< >>) /\ IdsOf(<< >>) = {} /\ Len(<< >>) = 0
  BY DEF Rising, IdsOf
<1>4. PICK c \in Seq(GoodOp) : c = chain[1]
  BY <1>0 DEF JournalTypes
<1>5. /\ Rising(lines')
      /\ \A y \in IdsOf(lines') :
           y \in Seen \/ (c # << >> /\ Head(c).op \in {"admitted", "settled"} /\ y = Head(c).id)
  <2>1. CASE UNCHANGED <<lines, torn>>
    BY <1>1, <2>1 DEF Ordered, Seen
  <2>2. ASSUME NEW i \in Procs, chain[i] # << >>, Head(chain[i]).op \in {"admitted", "settled"},
               TornOff([rec |-> Head(chain[i]).op, id |-> Head(chain[i]).id])
        PROVE  /\ Rising(lines')
               /\ \A y \in IdsOf(lines') :
                    y \in Seen \/ (c # << >> /\ Head(c).op \in {"admitted", "settled"} /\ y = Head(c).id)
    <3> DEFINE r == [rec |-> Head(chain[i]).op, id |-> Head(chain[i]).id]
    <3>1. i = 1
      BY <2>2, OnlyFirst
    <3> HIDE DEF r
    <3>2. r \in GoodLine /\ r.rec = Head(c).op /\ r.id = Head(c).id
      BY <1>4, <2>2, <3>1, RecordIs DEF r
    <3>3. r.rec = "admitted" => \A j \in 1..Len(lines) : lines[j].id < r.id
      <4>1. 1 \in 1..Len(c) /\ Head(c) = c[1]
        BY <1>4, <2>2, <3>1, Removing
      <4>2. r.rec = "admitted" => \A y \in Seen : y < r.id
        BY <1>1, <1>4, <3>2, <4>1 DEF Newest, Newer
      <4>3. \A j \in 1..Len(lines) : lines[j].id \in Seen
        BY DEF Seen, IdsOf, JournalTypes
      <4> QED BY <4>2, <4>3
    <3>4. TornOff(r)
      BY <2>2 DEF r
    <3>5. Rising(lines') /\ IdsOf(lines') \subseteq IdsOf(lines) \cup {0, r.id}
      BY <1>1, <3>2, <3>3, <3>4, WritesInOrder DEF JournalTypes, Ordered
    <3> QED BY <1>4, <2>2, <3>1, <3>2, <3>5 DEF Seen
  <2> QED BY <2>1, <2>2 DEF Crash, fileVars
<1>6. Newest'
  <2>1. \A y \in Seen : y < called + 1
    BY <1>1 DEF Newest, Newer
  <2>2. c # << >> /\ Head(c).op \in {"admitted", "settled"} => Head(c).id < called + 1
    <3>1. ASSUME c # << >> PROVE 1 \in 1..Len(c) /\ Head(c) = c[1] /\ 1 < Len(c) + 1
      BY <3>1
    <3> QED BY <1>1, <1>4, <3>1 DEF Newest, Newer
  <2>3. \A y \in Seen' : y < called + 1
    <3>1. \A y \in Seen' : y \in Seen \/ y \in IdsOf(lines')
      BY <1>0, <1>2, <1>3 DEF Seen
    <3> QED BY <1>5, <2>1, <2>2, <3>1
  <2>4. chain'[1] = << >> /\ called' = called
    BY <1>0, <1>2
  <2> QED BY <1>3, <2>3, <2>4 DEF Newest, Newer
<1>7. Idle' /\ Busy' /\ Ordered'
  BY <1>0, <1>2, <1>3, <1>5 DEF Idle, Busy, Ordered
<1> QED BY <1>6, <1>7 DEF One

\* Every step keeps it.
LEMMA OneNext == ASSUME JournalTypes, One, [Next]_vars PROVE One'
<1> SUFFICES ASSUME current' = 1 PROVE One'
  BY DEF One
<1>1. CASE Replace
  BY <1>1 DEF Replace, JournalTypes, Procs
<1>2. current = 1 \/ Replace
  BY DEF Next, CallAdmit, CallSettle, Appended, ReplayUnsettled, CompactRead, CompactOpen, CompactWrite,
     CompactWriteFailed, Discard, CallReplay, CallDiscard, Crash, vars
<1> SUFFICES ASSUME current = 1 PROVE One'
  BY <1>1, <1>2
<1>3. CASE \E i \in Procs : CallAdmit(i) \/ \E id \in Ids : CallSettle(i, id)
  BY <1>3, OneCalls
<1>4. CASE CallReplay \/ CallDiscard
  BY <1>4, OneCalls DEF JournalTypes
<1>5. CASE \E i \in Procs : \E ok \in WriteResults : Appended(i, ok)
  BY <1>5, OneAppended
<1>6. CASE \E i \in Procs :
             \/ \E ok \in ReadResults : ReplayUnsettled(i, ok)
             \/ \E ok \in ReadResults : CompactRead(i, ok)
             \/ \E ok \in WriteResults : CompactOpen(i, ok)
             \/ CompactWrite(i)
             \/ CompactWriteFailed(i)
             \/ \E ok \in WriteResults : Discard(i, ok)
  BY <1>6, OneHead
<1>7. CASE Crash
  BY <1>7, OneCrash
<1>8. CASE UNCHANGED vars
  <2>1. UNCHANGED <<lines, torn, chain, step, snap, mem, called, owed, done, current>>
    BY <1>8 DEF vars, fileVars, compactVars, historyVars
  <2>2. \A y \in Seen' : y \in Seen
    BY <2>1 DEF Seen
  <2>3. Newest'
    BY <2>1, <2>2, NewestStays DEF One
  <2> QED BY <2>1, <2>3 DEF One, Idle, Busy, Ordered, HeadIs
<1> QED BY <1>1, <1>3, <1>4, <1>5, <1>6, <1>7, <1>8 DEF Next

\* At the start nothing was seen.
LEMMA OneInit == Init => One
<1> SUFFICES ASSUME Init PROVE One
  OBVIOUS
<1>0. 1 \in Procs
  BY JournalAssumption DEF Procs
<1>1. /\ lines = << >> /\ torn = FALSE /\ called = 0 /\ owed = {} /\ done = {}
      /\ chain[1] = << >> /\ snap[1] = << >> /\ mem[1] = {} /\ step[1] = "none"
      /\ Idle
  BY <1>0 DEF Init, Idle
<1>2. Rising(<< >>) /\ IdsOf(<< >>) = {} /\ Len(<< >>) = 0
  BY DEF Rising, IdsOf
<1>3. Seen = {0}
  BY <1>1, <1>2 DEF Seen
<1>4. Newest
  BY <1>1, <1>2, <1>3 DEF Newest, Newer
<1> QED BY <1>1, <1>2, <1>4 DEF One, Busy, Ordered

\* While one instance is at work, a replay returns the turns in the order of
\* their admission (replayUnsettledFromLines, adr/0011).
THEOREM ReplaysInOrder == Spec => []OrderKept
<1>1. JournalTypes /\ One => OrderKept
  <2> SUFFICES ASSUME JournalTypes, One, current = 1,
                      NEW i \in DOMAIN Unsettled(lines), NEW j \in DOMAIN Unsettled(lines), i < j
               PROVE  Unsettled(lines)[i].id < Unsettled(lines)[j].id
    BY DEF OrderKept
  <2>1. PICK s \in Seq(Entry) : s = Unsettled(lines) /\ Rising(s)
    BY UnsettledIs DEF JournalTypes, One, Ordered
  <2>2. i \in 1..Len(s) /\ j \in 1..Len(s) /\ s[i] \in Entry /\ s[j] \in Entry
    BY <2>1
  <2> QED BY <2>1, <2>2 DEF Rising, Entry
<1>2. Init => JournalTypes /\ One
  BY TypesInit, OneInit
<1>3. JournalTypes /\ One /\ [Next]_vars => (JournalTypes /\ One)'
  BY TypesNext, OneNext
<1> QED BY <1>1, <1>2, <1>3, PTL DEF Spec

-----------------------------------------------------------------------------
(***************************************************************************)
(* What a torn line costs.  Cost counts the turns that are lost and the    *)
(* settled ones that would be back.  While a line is torn the lines before *)
(* it count, and one tear is not spent yet.                                *)
(***************************************************************************)
Cost(kept) == Cardinality(owed \ kept) + Cardinality(done \cap kept)

Bounded == Intact =>
  /\ step[1] = "open" => Cost(IdsOf(snap[1])) <= used["tears"]
  /\ step[1] # "open" /\ torn => Cost(Live(lines, Len(lines) - 1)) < used["tears"]
  /\ step[1] # "open" /\ ~torn => Cost(Live(lines, Len(lines))) <= used["tears"]

\* Sums of the sizes of two sets of turns.
LEMMA Sums ==
  ASSUME NEW A \in SUBSET Ids, NEW B \in SUBSET Ids, NEW A2 \in SUBSET Ids, NEW B2 \in SUBSET Ids,
         NEW x \in Ids
  PROVE  /\ Cardinality(A) + Cardinality(B) \in Nat
         /\ A2 \subseteq A /\ B2 \subseteq B =>
              Cardinality(A2) + Cardinality(B2) <= Cardinality(A) + Cardinality(B)
         /\ A2 \subseteq A \cup {x} /\ B2 \subseteq B =>
              Cardinality(A2) + Cardinality(B2) <= Cardinality(A) + Cardinality(B) + 1
         /\ A2 \subseteq A /\ B2 \subseteq B \cup {x} =>
              Cardinality(A2) + Cardinality(B2) <= Cardinality(A) + Cardinality(B) + 1
<1>1. IsFiniteSet(Ids)
  BY FS_Interval, JournalAssumption DEF Ids
<1>2. \A X \in SUBSET Ids : IsFiniteSet(X) /\ Cardinality(X) \in Nat
  BY <1>1, FS_Subset, FS_CardinalityType
<1>3. \A X, Y \in SUBSET Ids : X \subseteq Y => Cardinality(X) <= Cardinality(Y)
  BY <1>2, FS_Subset
<1>4. \A X, Y \in SUBSET Ids : X \subseteq Y \cup {x} => Cardinality(X) <= Cardinality(Y) + 1
  <2> SUFFICES ASSUME NEW X \in SUBSET Ids, NEW Y \in SUBSET Ids, X \subseteq Y \cup {x}
               PROVE  Cardinality(X) <= Cardinality(Y) + 1
    OBVIOUS
  <2>1. Y \cup {x} \in SUBSET Ids
    OBVIOUS
  <2>2. Cardinality(Y \cup {x}) <= Cardinality(Y) + 1
    <3>1. IsFiniteSet(Y) /\ Cardinality(Y) \in Nat
      BY <1>2
    <3> QED BY <3>1, FS_AddElement
  <2>3. Cardinality(X) <= Cardinality(Y \cup {x})
    BY <1>3, <2>1
  <2>4. /\ Cardinality(X) \in Nat /\ Cardinality(Y) \in Nat
        /\ Cardinality(Y \cup {x}) \in Nat
    BY <1>2, <2>1
  <2> QED BY <2>2, <2>3, <2>4
<1>5. /\ Cardinality(A) \in Nat /\ Cardinality(B) \in Nat
      /\ Cardinality(A2) \in Nat /\ Cardinality(B2) \in Nat
  BY <1>2
<1>6. ASSUME A2 \subseteq A, B2 \subseteq B
      PROVE  Cardinality(A2) + Cardinality(B2) <= Cardinality(A) + Cardinality(B)
  <2>1. Cardinality(A2) <= Cardinality(A) /\ Cardinality(B2) <= Cardinality(B)
    BY <1>3, <1>6
  <2> QED BY <1>5, <2>1
<1>7. ASSUME A2 \subseteq A \cup {x}, B2 \subseteq B
      PROVE  Cardinality(A2) + Cardinality(B2) <= Cardinality(A) + Cardinality(B) + 1
  <2>1. Cardinality(A2) <= Cardinality(A) + 1 /\ Cardinality(B2) <= Cardinality(B)
    BY <1>3, <1>4, <1>7
  <2> QED BY <1>5, <2>1
<1>8. ASSUME A2 \subseteq A, B2 \subseteq B \cup {x}
      PROVE  Cardinality(A2) + Cardinality(B2) <= Cardinality(A) + Cardinality(B) + 1
  <2>1. Cardinality(A2) <= Cardinality(A) /\ Cardinality(B2) <= Cardinality(B) + 1
    BY <1>3, <1>4, <1>8
  <2> QED BY <1>5, <2>1
<1> QED BY <1>5, <1>6, <1>7, <1>8

\* The live turns depend on the lines that count, and the next line admits or
\* settles one.
LEMMA LiveSame ==
  ASSUME NEW s, NEW t, NEW n \in Nat, \A j \in 1..n : s[j] = t[j]
  PROVE  Live(s, n) = Live(t, n)
  BY DEF Live, Has

\* One more line.
LEMMA LiveNext ==
  ASSUME NEW s, NEW n \in Nat
  PROVE  /\ s[n + 1].rec = "corrupt" => Live(s, n + 1) = Live(s, n)
         /\ s[n + 1].rec = "settled" => Live(s, n + 1) = Live(s, n) \ {s[n + 1].id}
         /\ s[n + 1].rec = "admitted" =>
              /\ Live(s, n + 1) \subseteq Live(s, n) \cup {s[n + 1].id}
              /\ Live(s, n) \subseteq Live(s, n + 1)
         /\ s[n + 1].rec = "admitted" /\ s[n + 1].id \in Ids /\ ~Has(s, n, "settled", s[n + 1].id) =>
              Live(s, n + 1) = Live(s, n) \cup {s[n + 1].id}
<1>1. \A rec, x : Has(s, n + 1, rec, x) <=> Has(s, n, rec, x) \/ (s[n + 1].rec = rec /\ s[n + 1].id = x)
  <2>1. \A i : i \in 1..(n + 1) <=> i \in 1..n \/ i = n + 1
    OBVIOUS
  <2> QED BY <2>1 DEF Has
<1> QED BY <1>1 DEF Live

\* The live turns of entries.
LEMMA LiveOfEntries ==
  ASSUME NEW s \in Seq(Entry)
  PROVE  Live(s, Len(s)) = IdsOf(s)
<1>1. \A i \in 1..Len(s) : s[i].rec = "admitted" /\ s[i].id \in Ids
  BY DEF Entry
<1>2. DOMAIN s = 1..Len(s)
  OBVIOUS
<1> QED BY <1>1, <1>2 DEF Live, Has, IdsOf

\* What an append does to them: nothing when it is torn or follows a torn line.
LEMMA LiveAfter ==
  ASSUME lines \in Seq(GoodLine), torn \in BOOLEAN, torn => lines # << >>, NEW r \in GoodLine
  PROVE  /\ torn /\ Written(r) => Live(lines', Len(lines')) = Live(lines, Len(lines) - 1) /\ ~torn'
         /\ torn /\ TornOff(r) => Live(lines', Len(lines') - 1) = Live(lines, Len(lines) - 1) /\ torn'
         /\ ~torn /\ TornOff(r) => Live(lines', Len(lines') - 1) = Live(lines, Len(lines)) /\ torn'
         /\ ~torn /\ Written(r) /\ r.rec = "settled" =>
              Live(lines', Len(lines')) = Live(lines, Len(lines)) \ {r.id} /\ ~torn'
         /\ /\ ~torn /\ Written(r) /\ r.rec = "admitted" /\ r.id \in Ids
            /\ \A j \in 1..Len(lines) : lines[j].id # r.id
            => Live(lines', Len(lines')) = Live(lines, Len(lines)) \cup {r.id} /\ ~torn'
<1>1. Corrupt \in GoodLine /\ Corrupt.rec = "corrupt"
  BY CorruptIs
<1> HIDE DEF Corrupt
<1> DEFINE n == Len(lines)
<1>2. n \in Nat
  OBVIOUS
<1>3. ASSUME torn, lines' = [lines EXCEPT ![n] = Corrupt]
      PROVE  /\ Live(lines', Len(lines')) = Live(lines, n - 1)
             /\ Live(lines', Len(lines') - 1) = Live(lines, n - 1)
  <2>1. n \in 1..n /\ n - 1 \in Nat /\ (n - 1) + 1 = n
    BY <1>3
  <2>2. Len(lines') = n /\ lines'[n] = Corrupt /\ \A j \in 1..(n - 1) : lines'[j] = lines[j]
    <3>1. DOMAIN lines = 1..n /\ DOMAIN lines' = 1..n /\ Len(lines') = n
      BY <1>3
    <3>2. lines'[n] = Corrupt
      BY <1>3, <2>1, <3>1
    <3>3. \A j \in 1..(n - 1) : j \in 1..n /\ j # n
      BY <1>2
    <3> QED BY <1>3, <3>1, <3>2, <3>3
  <2> HIDE DEF n
  <2>3. Live(lines', n - 1) = Live(lines, n - 1)
    BY <2>1, <2>2, LiveSame
  <2>4. Live(lines', n) = Live(lines', n - 1)
    <3> DEFINE m == n - 1
    <3>1. m \in Nat /\ m + 1 = n /\ lines'[m + 1].rec = "corrupt"
      BY <1>1, <2>1, <2>2
    <3> HIDE DEF m
    <3>2. Live(lines', m + 1) = Live(lines', m)
      BY <3>1, LiveNext
    <3> QED BY <3>1, <3>2 DEF m
  <2> QED BY <2>2, <2>3, <2>4
<1>4. ASSUME NEW x \in GoodLine, lines' = Append(lines, x)
      PROVE  /\ Len(lines') = n + 1 /\ lines'[n + 1] = x /\ Len(lines') - 1 = n
             /\ \A j \in 1..n : lines'[j] = lines[j]
             /\ Live(lines', n) = Live(lines, n)
  <2>1. Len(lines') = n + 1 /\ lines'[n + 1] = x /\ \A j \in 1..n : lines'[j] = lines[j]
    BY <1>4, Appending
  <2> HIDE DEF n
  <2>2. Live(lines', n) = Live(lines, n)
    BY <1>2, <2>1, LiveSame
  <2> QED BY <1>2, <2>1, <2>2
<1>5. torn /\ Written(r) => Live(lines', Len(lines')) = Live(lines, Len(lines) - 1) /\ ~torn'
  BY <1>3 DEF Written
<1>6. torn /\ TornOff(r) => Live(lines', Len(lines') - 1) = Live(lines, Len(lines) - 1) /\ torn'
  BY <1>3 DEF TornOff
<1>7. ~torn /\ TornOff(r) => Live(lines', Len(lines') - 1) = Live(lines, Len(lines)) /\ torn'
  <2> SUFFICES ASSUME ~torn, TornOff(r) PROVE Live(lines', Len(lines') - 1) = Live(lines, Len(lines)) /\ torn'
    OBVIOUS
  <2>1. PICK x \in GoodLine : lines' = Append(lines, x)
    BY <1>1 DEF TornOff
  <2> QED BY <1>4, <2>1 DEF TornOff
<1>8. ~torn /\ Written(r) => lines' = Append(lines, r) /\ ~torn'
  BY DEF Written
<1>9. ~torn /\ Written(r) /\ r.rec = "settled" =>
        Live(lines', Len(lines')) = Live(lines, Len(lines)) \ {r.id} /\ ~torn'
  <2> SUFFICES ASSUME ~torn, Written(r), r.rec = "settled"
               PROVE  Live(lines', n + 1) = Live(lines, n) \ {r.id} /\ ~torn' /\ Len(lines') = n + 1
    OBVIOUS
  <2>1. /\ Len(lines') = n + 1 /\ lines'[n + 1] = r /\ Live(lines', n) = Live(lines, n) /\ ~torn'
    BY <1>4, <1>8
  <2> HIDE DEF n
  <2>2. PICK t : t = lines'
    OBVIOUS
  <2>3. t[n + 1].rec = "settled" /\ t[n + 1].id = r.id
    BY <2>1, <2>2
  <2>4. Live(t, n + 1) = Live(t, n) \ {t[n + 1].id}
    BY <1>2, <2>3, LiveNext
  <2> QED BY <2>1, <2>2, <2>3, <2>4
<1>10. /\ ~torn /\ Written(r) /\ r.rec = "admitted" /\ r.id \in Ids
       /\ \A j \in 1..Len(lines) : lines[j].id # r.id
       => Live(lines', Len(lines')) = Live(lines, Len(lines)) \cup {r.id} /\ ~torn'
  <2> SUFFICES ASSUME ~torn, Written(r), r.rec = "admitted", r.id \in Ids,
                      \A j \in 1..n : lines[j].id # r.id
               PROVE  Live(lines', n + 1) = Live(lines, n) \cup {r.id} /\ ~torn' /\ Len(lines') = n + 1
    OBVIOUS
  <2>1. /\ Len(lines') = n + 1 /\ lines'[n + 1] = r /\ Live(lines', n) = Live(lines, n) /\ ~torn'
        /\ \A j \in 1..n : lines'[j] = lines[j]
    BY <1>4, <1>8
  <2> HIDE DEF n
  <2>2. ~Has(lines', n, "settled", r.id)
    BY <2>1 DEF Has
  <2>3. PICK t : t = lines'
    OBVIOUS
  <2>4. t[n + 1].rec = "admitted" /\ t[n + 1].id = r.id /\ ~Has(t, n, "settled", t[n + 1].id)
    BY <2>1, <2>2, <2>3
  <2>5. Live(t, n + 1) = Live(t, n) \cup {t[n + 1].id}
    BY <1>2, <2>4, LiveNext
  <2> QED BY <2>1, <2>3, <2>4, <2>5
<1> QED BY <1>5, <1>6, <1>7, <1>9, <1>10

\* No more is counted when no more is lost and no more is back, and one more
\* when that holds but for a turn.
LEMMA CostOf ==
  ASSUME owed \subseteq Ids, done \subseteq Ids, owed' \subseteq Ids, done' \subseteq Ids,
         NEW kept, NEW now, NEW x \in Ids
  PROVE  /\ Cost(kept) \in Nat
         /\ owed' \ now \subseteq owed \ kept /\ done' \cap now \subseteq done \cap kept =>
              Cardinality(owed' \ now) + Cardinality(done' \cap now) <= Cost(kept)
         /\ owed' \ now \subseteq (owed \ kept) \cup {x} /\ done' \cap now \subseteq done \cap kept =>
              Cardinality(owed' \ now) + Cardinality(done' \cap now) <= Cost(kept) + 1
         /\ owed' \ now \subseteq owed \ kept /\ done' \cap now \subseteq (done \cap kept) \cup {x} =>
              Cardinality(owed' \ now) + Cardinality(done' \cap now) <= Cost(kept) + 1
<1> DEFINE A == owed \ kept
           B == done \cap kept
           A2 == owed' \ now
           B2 == done' \cap now
<1>1. A \in SUBSET Ids /\ B \in SUBSET Ids /\ A2 \in SUBSET Ids /\ B2 \in SUBSET Ids
  OBVIOUS
<1>2. Cost(kept) = Cardinality(A) + Cardinality(B)
  BY DEF Cost
<1> HIDE DEF A, B, A2, B2
<1>3. /\ Cost(kept) \in Nat
      /\ A2 \subseteq A /\ B2 \subseteq B => Cardinality(A2) + Cardinality(B2) <= Cost(kept)
      /\ A2 \subseteq A \cup {x} /\ B2 \subseteq B => Cardinality(A2) + Cardinality(B2) <= Cost(kept) + 1
      /\ A2 \subseteq A /\ B2 \subseteq B \cup {x} => Cardinality(A2) + Cardinality(B2) <= Cost(kept) + 1
  BY <1>1, <1>2, Sums
<1> QED BY <1>3 DEF A, B, A2, B2

\* An append keeps the bound: a whole line makes up for what it says, behind a
\* torn one it is lost, and a torn one spends a tear.
LEMMA BoundedAppended ==
  ASSUME JournalTypes, One, Bounded, Intact, JournalTypes', NEW i \in Procs, NEW ok \in WriteResults,
         Appended(i, ok)
  PROVE  Bounded'
<1> DEFINE r == [rec |-> Head(chain[1]).op, id |-> Head(chain[1]).id]
           cost(now) == Cardinality(owed' \ now) + Cardinality(done' \cap now)
<1>0. 1 \in Procs /\ current = 1 /\ used["tears"] \in Nat
  BY JournalAssumption DEF Procs, Intact, JournalTypes, Budgets
<1>1. i = 1 /\ chain[1] # << >>
  BY <1>0, OnlyFirst DEF Appended
<1>2. Head(chain[1]).op \in {"admitted", "settled"} /\ step' = step /\ step[1] = "none"
  BY <1>0, <1>1 DEF Appended, compactVars, One, Busy, HeadIs
<1>3. /\ \/ ok /\ Written(r) /\ used' = used
         \/ ~ok /\ UNCHANGED <<lines, torn, used>>
         \/ ~ok /\ used["tears"] < Tears /\ Spend("tears") /\ TornOff(r)
      /\ r.rec = "admitted" => /\ owed' = IF ok THEN owed \cup {r.id} ELSE owed
                               /\ done' = done
      /\ r.rec # "admitted" => /\ owed' = owed \ {r.id}
                               /\ done' = IF ok THEN done \cup {r.id} ELSE done
  BY <1>1 DEF Appended, fileVars
<1> HIDE DEF r
<1>4. /\ r \in GoodLine /\ r.id \in Ids /\ r.rec \in {"admitted", "settled"}
      /\ r.rec = Head(chain[1]).op /\ r.id = Head(chain[1]).id
  BY <1>0, <1>1, <1>2, RecordIs DEF r
<1>5. r.rec = "admitted" => /\ \A j \in 1..Len(lines) : lines[j].id # r.id
                            /\ r.id \notin done
  <2>1. PICK c \in Seq(GoodOp) : c = chain[1]
    BY <1>0 DEF JournalTypes
  <2>2. 1 \in 1..Len(c) /\ Head(c) = c[1]
    BY <1>1, <2>1, Removing
  <2>3. r.rec = "admitted" => \A y \in Seen : y < r.id
    BY <1>0, <1>4, <2>1, <2>2 DEF One, Newest, Newer
  <2>4. (\A j \in 1..Len(lines) : lines[j].id \in Seen) /\ done \subseteq Seen
    <3>1. IdsOf(lines) \subseteq Seen /\ done \subseteq Seen
      BY DEF Seen
    <3>2. \A j \in 1..Len(lines) : lines[j].id \in IdsOf(lines)
      BY DEF IdsOf, JournalTypes
    <3> QED BY <3>1, <3>2
  <2>5. r.id \in Nat /\ ~(r.id < r.id)
    BY <1>4, JournalAssumption DEF Ids
  <2> QED BY <2>3, <2>4, <2>5
<1>6. owed \subseteq Ids /\ done \subseteq Ids /\ owed' \subseteq Ids /\ done' \subseteq Ids
  BY DEF JournalTypes
<1>7. \A kept :
        /\ Cost(kept) \in Nat
        /\ \A now :
             /\ owed' \ now \subseteq owed \ kept /\ done' \cap now \subseteq done \cap kept =>
                  cost(now) <= Cost(kept)
             /\ owed' \ now \subseteq (owed \ kept) \cup {r.id} /\ done' \cap now \subseteq done \cap kept =>
                  cost(now) <= Cost(kept) + 1
             /\ owed' \ now \subseteq owed \ kept /\ done' \cap now \subseteq (done \cap kept) \cup {r.id} =>
                  cost(now) <= Cost(kept) + 1
             /\ cost(now) \in Nat
  <2>1. \A now : cost(now) \in Nat
    <3> SUFFICES ASSUME NEW now PROVE cost(now) \in Nat
      OBVIOUS
    <3>1. IsFiniteSet(Ids)
      BY FS_Interval, JournalAssumption DEF Ids
    <3>2. owed' \ now \in SUBSET Ids /\ done' \cap now \in SUBSET Ids
      BY <1>6
    <3>3. Cardinality(owed' \ now) \in Nat /\ Cardinality(done' \cap now) \in Nat
      BY <3>1, <3>2, FS_Subset, FS_CardinalityType
    <3> QED BY <3>3
  <2> QED BY <1>4, <1>6, <2>1, CostOf
<1>8. lines \in Seq(GoodLine) /\ torn \in BOOLEAN /\ (torn => lines # << >>)
  BY DEF JournalTypes
<1>9. /\ torn => Cost(Live(lines, Len(lines) - 1)) < used["tears"]
      /\ ~torn => Cost(Live(lines, Len(lines))) <= used["tears"]
  BY <1>2 DEF Bounded
<1>10. /\ torn' /\ cost(Live(lines', Len(lines') - 1)) < used'["tears"] => Bounded'
       /\ ~torn' /\ cost(Live(lines', Len(lines'))) <= used'["tears"] => Bounded'
  BY <1>2 DEF Bounded, Cost
<1>11. PICK S : S = IF torn THEN Live(lines, Len(lines) - 1) ELSE Live(lines, Len(lines))
  OBVIOUS
<1>12. /\ torn => Cost(S) + 1 <= used["tears"]
       /\ ~torn => Cost(S) <= used["tears"]
       /\ Cost(S) \in Nat
  BY <1>0, <1>7, <1>9, <1>11
<1> HIDE DEF cost
<1>13. CASE ok /\ Written(r) /\ used' = used
  <2>1. CASE torn
    <3>1. Live(lines', Len(lines')) = S /\ ~torn'
      BY <1>4, <1>8, <1>11, <1>13, <2>1, LiveAfter
    <3>2. cost(S) <= Cost(S) + 1 /\ cost(S) \in Nat
      <4>1. CASE r.rec = "admitted"
        <5>1. owed' = owed \cup {r.id} /\ done' = done
          BY <1>3, <1>13, <4>1
        <5>2. owed' \ S \subseteq (owed \ S) \cup {r.id} /\ done' \cap S \subseteq done \cap S
          BY <5>1
        <5> QED BY <1>7, <5>2
      <4>2. CASE r.rec # "admitted"
        <5>1. owed' = owed \ {r.id} /\ done' = done \cup {r.id}
          BY <1>3, <1>13, <4>2
        <5>2. owed' \ S \subseteq owed \ S /\ done' \cap S \subseteq (done \cap S) \cup {r.id}
          BY <5>1
        <5> QED BY <1>7, <5>2
      <4> QED BY <4>1, <4>2
    <3>3. cost(S) <= used'["tears"]
      BY <1>0, <1>12, <1>13, <2>1, <3>2
    <3> QED BY <1>10, <3>1, <3>3
  <2>2. CASE ~torn
    <3>1. PICK now : now = Live(lines', Len(lines'))
      OBVIOUS
    <3>2. ~torn' /\ cost(now) <= Cost(S) /\ cost(now) \in Nat
      <4>1. CASE r.rec = "admitted"
        <5>1. owed' = owed \cup {r.id} /\ done' = done
          BY <1>3, <1>13, <4>1
        <5>2. now = S \cup {r.id} /\ ~torn'
          BY <1>4, <1>5, <1>8, <1>11, <1>13, <2>2, <3>1, <4>1, LiveAfter
        <5>3. owed' \ now \subseteq owed \ S /\ done' \cap now \subseteq done \cap S
          BY <1>5, <4>1, <5>1, <5>2
        <5> QED BY <1>7, <5>2, <5>3
      <4>2. CASE r.rec # "admitted"
        <5>1. owed' = owed \ {r.id} /\ done' = done \cup {r.id}
          BY <1>3, <1>13, <4>2
        <5>2. now = S \ {r.id} /\ ~torn'
          BY <1>4, <1>8, <1>11, <1>13, <2>2, <3>1, <4>2, LiveAfter
        <5>3. owed' \ now \subseteq owed \ S /\ done' \cap now \subseteq done \cap S
          BY <5>1, <5>2
        <5> QED BY <1>7, <5>2, <5>3
      <4> QED BY <4>1, <4>2
    <3>3. cost(now) <= used'["tears"]
      BY <1>0, <1>12, <1>13, <2>2, <3>2
    <3> QED BY <1>10, <3>1, <3>2, <3>3
  <2> QED BY <2>1, <2>2
<1>14. ~ok => owed' \subseteq owed /\ done' = done
  BY <1>3
<1>15. ~ok => cost(S) <= Cost(S) /\ cost(S) \in Nat
  <2>1. ~ok => owed' \ S \subseteq owed \ S /\ done' \cap S \subseteq done \cap S
    BY <1>14
  <2> QED BY <1>7, <2>1
<1>16. CASE ~ok /\ UNCHANGED <<lines, torn, used>>
  <2>1. CASE torn
    <3>1. torn' /\ Live(lines', Len(lines') - 1) = S
      BY <1>11, <1>16, <2>1
    <3>2. cost(S) < used'["tears"]
      BY <1>0, <1>12, <1>15, <1>16, <2>1
    <3> QED BY <1>10, <3>1, <3>2
  <2>2. CASE ~torn
    <3>1. ~torn' /\ Live(lines', Len(lines')) = S
      BY <1>11, <1>16, <2>2
    <3>2. cost(S) <= used'["tears"]
      BY <1>0, <1>12, <1>15, <1>16, <2>2
    <3> QED BY <1>10, <3>1, <3>2
  <2> QED BY <2>1, <2>2
<1>17. CASE ~ok /\ Spend("tears") /\ TornOff(r)
  <2>1. used'["tears"] = used["tears"] + 1
    BY <1>17 DEF Spend, JournalTypes, Budgets
  <2>2. torn' /\ Live(lines', Len(lines') - 1) = S
    <3>1. CASE torn
      BY <1>4, <1>8, <1>11, <1>17, <3>1, LiveAfter
    <3>2. CASE ~torn
      BY <1>4, <1>8, <1>11, <1>17, <3>2, LiveAfter
    <3> QED BY <3>1, <3>2
  <2>3. cost(S) < used'["tears"]
    BY <1>0, <1>12, <1>15, <1>17, <2>1
  <2> QED BY <1>10, <2>2, <2>3
<1> QED BY <1>3, <1>13, <1>16, <1>17

\* Where nothing is confirmed, lines and tears stay, the bound stays.
LEMMA BoundedStays ==
  ASSUME JournalTypes, Bounded, Intact, step[1] # "open", step'[1] # "open",
         used'["tears"] = used["tears"], UNCHANGED <<lines, torn, owed, done>>
  PROVE  Bounded'
<1>1. /\ torn => Cost(Live(lines, Len(lines) - 1)) < used["tears"]
      /\ ~torn => Cost(Live(lines, Len(lines))) <= used["tears"]
  BY DEF Bounded
<1>2. /\ torn => Cost(Live(lines, Len(lines) - 1))' < used'["tears"]
      /\ ~torn => Cost(Live(lines, Len(lines)))' <= used'["tears"]
  BY <1>1 DEF Cost
<1> QED BY <1>2 DEF Bounded

\* An emptied file.
LEMMA LiveOfNone == Len(<< >>) = 0 /\ Live(<< >>, 0) = {} /\ IdsOf(<< >>) = {}
  BY DEF Live, Has, IdsOf

\* The last line counts for one at most.
LEMMA TornCosts ==
  ASSUME JournalTypes, torn, NEW m \in Nat, Cost(Live(lines, Len(lines) - 1)) < m
  PROVE  Cost(Live(lines, Len(lines))) <= m
<1> DEFINE n == Len(lines) - 1
           x == lines[n + 1].id
           A == Live(lines, n)
           B == Live(lines, n + 1)
<1>1. n \in Nat /\ n + 1 = Len(lines) /\ n + 1 \in 1..Len(lines) /\ lines[n + 1] \in GoodLine
  BY DEF JournalTypes
<1>2. Cost(A) < m /\ A \subseteq Ids /\ B \subseteq Ids
  BY DEF Live
<1> HIDE DEF n
<1>3. lines[n + 1].rec \in {"admitted", "settled", "corrupt"}
  BY <1>1 DEF GoodLine, Line
<1>4. \/ B = A
      \/ B \subseteq A \cup {x} /\ A \subseteq B
      \/ B = A \ {x}
  BY <1>1, <1>3, LiveNext
<1> HIDE DEF x, A, B
<1>5. CASE x \notin Ids
  <2>1. B = A
    BY <1>2, <1>4, <1>5
  <2>2. IsFiniteSet(Ids)
    BY FS_Interval, JournalAssumption DEF Ids
  <2>3. owed \ A \in SUBSET Ids /\ done \cap A \in SUBSET Ids
    BY DEF JournalTypes
  <2>4. Cardinality(owed \ A) \in Nat /\ Cardinality(done \cap A) \in Nat
    BY <2>2, <2>3, FS_Subset, FS_CardinalityType
  <2>5. Cost(B) <= m
    BY <1>2, <2>1, <2>4 DEF Cost
  <2> QED BY <1>1, <2>5 DEF B
<1>6. CASE x \in Ids
  <2>1. /\ owed \ A \in SUBSET Ids /\ done \cap A \in SUBSET Ids
        /\ owed \ B \in SUBSET Ids /\ done \cap B \in SUBSET Ids
    BY DEF JournalTypes
  <2>2. \/ owed \ B \subseteq owed \ A /\ done \cap B \subseteq (done \cap A) \cup {x}
        \/ owed \ B \subseteq (owed \ A) \cup {x} /\ done \cap B \subseteq done \cap A
    BY <1>4
  <2>3. /\ Cardinality(owed \ B) + Cardinality(done \cap B)
             <= Cardinality(owed \ A) + Cardinality(done \cap A) + 1
        /\ Cardinality(owed \ A) + Cardinality(done \cap A) \in Nat
        /\ Cardinality(owed \ B) + Cardinality(done \cap B) \in Nat
    BY <1>6, <2>1, <2>2, Sums
  <2>4. Cost(B) <= m
    BY <1>2, <2>3 DEF Cost
  <2> QED BY <1>1, <2>4 DEF B
<1> QED BY <1>5, <1>6

\* The calls and the operations at the head of the chain keep the bound.
LEMMA BoundedHead ==
  ASSUME JournalTypes, One, Bounded, Intact, JournalTypes', Intact', NEW i \in Procs, NEW ok,
         \/ CallAdmit(i) \/ (\E id \in Ids : CallSettle(i, id)) \/ CallReplay \/ CallDiscard
         \/ ReplayUnsettled(i, ok) \/ CompactRead(i, ok) \/ CompactOpen(i, ok)
         \/ CompactWrite(i) \/ CompactWriteFailed(i) \/ Discard(i, ok)
  PROVE  Bounded'
<1>0. 1 \in Procs /\ current = 1 /\ used["tears"] \in Nat /\ used["faults"] = 0 /\ used'["faults"] = 0
  BY JournalAssumption DEF Procs, Intact, JournalTypes, Budgets
<1>1. Idle /\ Busy /\ Ordered
  BY <1>0 DEF One
<1>2. CASE CallAdmit(i) \/ (\E id \in Ids : CallSettle(i, id)) \/ CallReplay \/ CallDiscard
  <2>1. UNCHANGED <<lines, torn, step, snap, owed, done>>
    BY <1>2 DEF CallAdmit, CallSettle, CallReplay, CallDiscard, fileVars, compactVars, historyVars
  <2>2. used'["tears"] = used["tears"]
    BY <1>2 DEF CallAdmit, CallSettle, CallReplay, CallDiscard, Spend, JournalTypes, Budgets
  <2>3. CASE step[1] = "open"
    <3>1. Cost(IdsOf(snap[1]))' <= used'["tears"]
      <4>1. Cost(IdsOf(snap[1])) <= used["tears"]
        BY <2>3 DEF Bounded
      <4> QED BY <2>1, <2>2, <4>1 DEF Cost
    <3> QED BY <2>1, <2>3, <3>1 DEF Bounded
  <2>4. CASE step[1] # "open"
    BY <2>1, <2>2, <2>4, BoundedStays
  <2> QED BY <2>3, <2>4
<1>3. ASSUME chain[i] # << >> PROVE i = 1
  BY <1>0, <1>3, OnlyFirst
<1>4. CASE ReplayUnsettled(i, ok)
  <2>1. /\ HeadIs(1, "replay") /\ UNCHANGED <<lines, torn, owed, done, used, step>>
    BY <1>3, <1>4 DEF ReplayUnsettled, HeadIs, fileVars, compactVars, historyVars
  <2>2. step[1] = "none"
    BY <1>1, <2>1 DEF Busy, HeadIs
  <2> QED BY <2>1, <2>2, BoundedStays
<1>5. CASE CompactRead(i, ok)
  <2>1. UNCHANGED <<lines, torn, owed, done, used>> /\ step[1] = "none"
    BY <1>3, <1>5 DEF CompactRead, HeadIs, fileVars, historyVars
  <2>2. step'[1] # "open"
    BY <1>0, <1>3, <1>5, <2>1 DEF CompactRead, HeadIs, compactVars, JournalTypes
  <2> QED BY <2>1, <2>2, BoundedStays
<1>6. CASE CompactOpen(i, ok) /\ ok
  <2>1. /\ step'[1] = "open" /\ step[1] = "read" /\ UNCHANGED <<snap, owed, done, used>>
    BY <1>0, <1>3, <1>6 DEF CompactOpen, HeadIs, historyVars, JournalTypes
  <2>2. Cost(Live(lines, Len(lines))) <= used["tears"]
    <3>1. CASE torn
      BY <1>0, <2>1, <3>1, TornCosts DEF Bounded
    <3>2. CASE ~torn
      BY <2>1, <3>2 DEF Bounded
    <3> QED BY <3>1, <3>2
  <2>3. Cost(IdsOf(snap[1])) <= used["tears"]
    BY <1>1, <2>1, <2>2 DEF Ordered
  <2>4. Cost(IdsOf(snap[1]))' <= used'["tears"]
    BY <2>1, <2>3 DEF Cost
  <2> QED BY <2>1, <2>4 DEF Bounded
<1>7. CASE CompactOpen(i, ok) /\ ~ok
  <2>1. /\ step'[1] = "none" /\ step[1] = "read" /\ UNCHANGED <<lines, torn, owed, done, used>>
    BY <1>0, <1>3, <1>7 DEF CompactOpen, CompactDone, HeadIs, fileVars, historyVars, JournalTypes
  <2> QED BY <2>1, BoundedStays
<1>8. CASE CompactWrite(i)
  <2>1. /\ step'[1] = "none" /\ step[1] = "open" /\ UNCHANGED <<owed, done, used>>
    BY <1>0, <1>3, <1>8 DEF CompactWrite, CompactDone, HeadIs, historyVars, JournalTypes
  <2>2. lines = << >> /\ torn = FALSE
    BY <1>1, <2>1 DEF Ordered
  <2>3. lines' = snap[1] /\ ~torn'
    BY <1>3, <1>8, <2>2 DEF CompactWrite, HeadIs, fileVars
  <2>4. Live(lines', Len(lines')) = IdsOf(snap[1])
    BY <1>0, <2>3, LiveOfEntries DEF JournalTypes
  <2>5. Cost(IdsOf(snap[1])) <= used["tears"]
    BY <2>1 DEF Bounded
  <2>6. Cost(Live(lines, Len(lines)))' <= used'["tears"]
    BY <2>1, <2>4, <2>5 DEF Cost
  <2> QED BY <2>1, <2>3, <2>6 DEF Bounded
<1>9. CASE CompactWriteFailed(i)
  <2>1. used'["faults"] = used["faults"] + 1
    BY <1>9 DEF CompactWriteFailed, Spend, JournalTypes, Budgets
  <2> QED BY <1>0, <2>1
<1>10. CASE Discard(i, ok)
  <2>1. /\ HeadIs(1, "discard") /\ UNCHANGED <<done, used, step>>
    BY <1>3, <1>10 DEF Discard, HeadIs, compactVars
  <2>2. step[1] = "none"
    BY <1>1, <2>1 DEF Busy, HeadIs
  <2>3. CASE ok
    <3>1. lines' = << >> /\ torn' = FALSE /\ owed' = {}
      BY <1>10, <2>3 DEF Discard
    <3>2. Live(lines', Len(lines')) = {}
      BY <3>1, LiveOfNone
    <3>3. Cost(Live(lines, Len(lines)))' = 0
      <4>1. owed' \ Live(lines', Len(lines')) = {} /\ done' \cap Live(lines', Len(lines')) = {}
        BY <3>1, <3>2
      <4>2. Cost(Live(lines, Len(lines)))' = Cardinality({}) + Cardinality({})
        BY <4>1, Zenon DEF Cost
      <4> QED BY <4>2, FS_EmptySet
    <3> QED BY <1>0, <2>1, <2>2, <3>1, <3>3 DEF Bounded
  <2>4. CASE ~ok
    <3>1. UNCHANGED <<lines, torn, owed>>
      BY <1>10, <2>4 DEF Discard, fileVars
    <3> QED BY <2>1, <2>2, <3>1, BoundedStays
  <2> QED BY <2>3, <2>4
<1> QED BY <1>2, <1>4, <1>5, <1>6, <1>7, <1>8, <1>9, <1>10

\* A crash keeps the bound.
LEMMA BoundedCrash ==
  ASSUME JournalTypes, One, Bounded, Intact, Intact', Crash
  PROVE  Bounded'
<1>0. 1 \in Procs /\ current = 1 /\ used["tears"] \in Nat /\ used["faults"] = 0 /\ used'["faults"] = 0
  BY JournalAssumption DEF Procs, Intact, JournalTypes, Budgets
<1>1. step'[1] = "none" /\ UNCHANGED <<owed, done>>
  BY <1>0 DEF Crash, historyVars
<1>2. CASE (\A i \in Procs : step[i] # "open") /\ Spend("crashes") /\ UNCHANGED fileVars
  <2>1. used'["tears"] = used["tears"]
    BY <1>2 DEF Spend, JournalTypes, Budgets
  <2> QED BY <1>0, <1>1, <1>2, <2>1, BoundedStays DEF fileVars
<1>3. CASE used' = [used EXCEPT !["crashes"] = @ + 1, !["faults"] = @ + 1]
  BY <1>0, <1>3 DEF JournalTypes, Budgets
<1>4. ASSUME \A i \in Procs : step[i] # "open",
             used' = [used EXCEPT !["crashes"] = @ + 1, !["tears"] = @ + 1],
             NEW i \in Procs, chain[i] # << >>, Head(chain[i]).op \in {"admitted", "settled"},
             TornOff([rec |-> Head(chain[i]).op, id |-> Head(chain[i]).id])
      PROVE  Bounded'
  <2> DEFINE r == [rec |-> Head(chain[i]).op, id |-> Head(chain[i]).id]
  <2>1. used'["tears"] = used["tears"] + 1
    BY <1>4 DEF JournalTypes, Budgets
  <2>2. TornOff(r)
    BY <1>4
  <2> HIDE DEF r
  <2>3. r \in GoodLine
    BY <1>4, RecordIs DEF r
  <2>4. lines \in Seq(GoodLine) /\ torn \in BOOLEAN /\ (torn => lines # << >>)
    BY DEF JournalTypes
  <2>5. PICK S : S = IF torn THEN Live(lines, Len(lines) - 1) ELSE Live(lines, Len(lines))
    OBVIOUS
  <2>6. torn' /\ Live(lines', Len(lines') - 1) = S
    <3>1. CASE torn
      BY <2>2, <2>3, <2>4, <2>5, <3>1, LiveAfter
    <3>2. CASE ~torn
      BY <2>2, <2>3, <2>4, <2>5, <3>2, LiveAfter
    <3> QED BY <3>1, <3>2
  <2>7. Cost(S) \in Nat /\ Cost(S) <= used["tears"]
    <3>1. /\ torn => Cost(S) < used["tears"]
          /\ ~torn => Cost(S) <= used["tears"]
      BY <1>0, <1>4, <2>5 DEF Bounded
    <3>2. Cost(S) \in Nat
      <4>1. IsFiniteSet(Ids)
        BY FS_Interval, JournalAssumption DEF Ids
      <4>2. owed \ S \in SUBSET Ids /\ done \cap S \in SUBSET Ids
        BY DEF JournalTypes
      <4>3. Cardinality(owed \ S) \in Nat /\ Cardinality(done \cap S) \in Nat
        BY <4>1, <4>2, FS_Subset, FS_CardinalityType
      <4> QED BY <4>3 DEF Cost
    <3> QED BY <1>0, <3>1, <3>2
  <2>8. Cost(Live(lines, Len(lines) - 1))' < used'["tears"]
    <3>1. Cost(S) < used'["tears"]
      BY <1>0, <2>1, <2>7
    <3>2. Cost(Live(lines, Len(lines) - 1))' = Cost(S)
      BY <1>1, <2>6 DEF Cost
    <3> QED BY <3>1, <3>2
  <2> QED BY <1>1, <2>6, <2>8 DEF Bounded
<1> QED BY <1>2, <1>3, <1>4 DEF Crash

\* Every step.
LEMMA BoundedNext ==
  ASSUME JournalTypes, One, Bounded, [Next]_vars, JournalTypes'
  PROVE  Bounded'
<1> SUFFICES ASSUME Intact' PROVE Bounded'
  BY DEF Bounded
<1>1. Intact
  <2>1. /\ used["faults"] \in Nat /\ used'["faults"] = 0 /\ current' = 1 /\ current \in Procs
    BY DEF Intact, JournalTypes, Budgets
  <2>2. \/ used' = used
        \/ \E b \in Budgets : Spend(b)
        \/ \E b \in {"faults", "tears"} : used' = [used EXCEPT !["crashes"] = @ + 1, ![b] = @ + 1]
    BY DEF Next, CallAdmit, CallSettle, Appended, ReplayUnsettled, CompactRead, CompactOpen, CompactWrite,
       CompactWriteFailed, Discard, CallReplay, CallDiscard, Crash, Replace, vars, Budgets
  <2>3. used'["faults"] >= used["faults"]
    <3>1. used \in [Budgets -> Nat] /\ "faults" \in Budgets /\ "crashes" \in Budgets
      BY DEF JournalTypes, Budgets
    <3>2. ASSUME NEW b \in Budgets, Spend(b) PROVE used'["faults"] >= used["faults"]
      BY <3>1, <3>2 DEF Spend
    <3>3. CASE used' = [used EXCEPT !["crashes"] = @ + 1, !["faults"] = @ + 1]
      BY <3>1, <3>3
    <3>4. CASE used' = [used EXCEPT !["crashes"] = @ + 1, !["tears"] = @ + 1]
      BY <3>1, <3>4
    <3>5. CASE used' = used
      BY <2>1, <3>5
    <3> QED BY <2>2, <3>2, <3>3, <3>4, <3>5
  <2>4. current' = current \/ Replace
    BY DEF Next, CallAdmit, CallSettle, Appended, ReplayUnsettled, CompactRead, CompactOpen, CompactWrite,
       CompactWriteFailed, Discard, CallReplay, CallDiscard, Crash, vars
  <2>5. current = 1
    BY <2>1, <2>4 DEF Replace, Procs
  <2> QED BY <2>1, <2>3, <2>5 DEF Intact
<1>2. CASE \E i \in Procs : CallAdmit(i) \/ \E id \in Ids : CallSettle(i, id)
  BY <1>1, <1>2, BoundedHead
<1>3. CASE CallReplay \/ CallDiscard
  BY <1>1, <1>3, BoundedHead DEF JournalTypes
<1>4. CASE \E i \in Procs : \E ok \in WriteResults : Appended(i, ok)
  BY <1>1, <1>4, BoundedAppended
<1>5. CASE \E i \in Procs :
             \/ \E ok \in ReadResults : ReplayUnsettled(i, ok)
             \/ \E ok \in ReadResults : CompactRead(i, ok)
             \/ \E ok \in WriteResults : CompactOpen(i, ok)
             \/ CompactWrite(i)
             \/ CompactWriteFailed(i)
             \/ \E ok \in WriteResults : Discard(i, ok)
  BY <1>1, <1>5, BoundedHead
<1>6. CASE Replace
  BY <1>6 DEF Replace, Intact, JournalTypes, Procs
<1>7. CASE Crash
  BY <1>1, <1>7, BoundedCrash
<1>8. CASE UNCHANGED vars
  BY <1>8 DEF vars, fileVars, compactVars, historyVars, Bounded, Intact, Cost
<1> QED BY <1>2, <1>3, <1>4, <1>5, <1>6, <1>7, <1>8 DEF Next

\* At the start nothing is counted.
LEMMA BoundedInit == Init => Bounded
<1> SUFFICES ASSUME Init PROVE Bounded
  OBVIOUS
<1>1. /\ lines = << >> /\ torn = FALSE /\ owed = {} /\ done = {} /\ used["tears"] = 0 /\ step[1] # "open"
  BY JournalAssumption DEF Init, Procs, Budgets
<1>2. Cost(Live(lines, Len(lines))) = 0
  <2>1. owed \ Live(lines, Len(lines)) = {} /\ done \cap Live(lines, Len(lines)) = {}
    BY <1>1
  <2>2. Cost(Live(lines, Len(lines))) = Cardinality({}) + Cardinality({})
    BY <2>1, Zenon DEF Cost
  <2> QED BY <2>2, FS_EmptySet
<1> QED BY <1>1, <1>2 DEF Bounded

\* What the bound says of the entries that are kept.
LEMMA CostOfKept ==
  ASSUME JournalTypes, One, Bounded, Intact
  PROVE  Cost(KeptIds) <= used["tears"]
<1>0. 1 \in Procs /\ current = 1 /\ used["tears"] \in Nat
  BY JournalAssumption DEF Procs, Intact, JournalTypes, Budgets
<1>1. Idle
  BY <1>0 DEF One
<1>2. CASE step[1] = "open"
  <2>1. {p \in Procs : step[p] = "open"} = {1}
    BY <1>0, <1>1, <1>2 DEF Idle
  <2>2. Kept = RangeOf(snap[1])
    BY <1>0, <1>2, <2>1 DEF Kept
  <2>3. KeptIds = IdsOf(snap[1])
    BY <2>2 DEF KeptIds, RangeOf, IdsOf
  <2> QED BY <1>2, <2>3 DEF Bounded
<1>3. CASE step[1] # "open"
  <2>1. ~\E p \in Procs : step[p] = "open"
    BY <1>1, <1>3 DEF Idle
  <2>2. KeptIds = IdsOf(Unsettled(lines))
    BY <2>1 DEF KeptIds, Kept, RangeOf, IdsOf
  <2>3. KeptIds = Live(lines, Len(lines))
    BY <2>2, UnsettledIs DEF JournalTypes
  <2>4. CASE ~torn
    BY <1>3, <2>3, <2>4 DEF Bounded
  <2>5. CASE torn
    BY <1>0, <1>3, <2>3, <2>5, TornCosts DEF Bounded
  <2> QED BY <2>4, <2>5 DEF JournalTypes
<1> QED BY <1>2, <1>3

\* A torn line costs at most one confirmed record: while one instance is at
\* work and no write of a compaction is cut off, the turns that are lost and
\* the settled ones that would be replayed are no more than the appends that
\* were torn (journal.ts, appendFile and compact).
THEOREM TornLineCostsOne == Spec => []LossBounded
<1>1. JournalTypes /\ One /\ Bounded => LossBounded
  BY CostOfKept DEF LossBounded, Cost
<1>2. Init => JournalTypes /\ One /\ Bounded
  BY TypesInit, OneInit, BoundedInit
<1>3. JournalTypes /\ One /\ Bounded /\ [Next]_vars => (JournalTypes /\ One /\ Bounded)'
  BY TypesNext, OneNext, BoundedNext
<1> QED BY <1>1, <1>2, <1>3, PTL DEF Spec

\* Without torn appends nothing that was confirmed is lost, whatever reads,
\* writes and the process do (adr/0011, "a reply is never lost").
THEOREM ConfirmedIsKept == Spec => []ConfirmedKept
<1>1. JournalTypes /\ One /\ Bounded => ConfirmedKept
  <2> SUFFICES ASSUME JournalTypes, One, Bounded, Intact, used["tears"] = 0 PROVE owed \subseteq KeptIds
    BY DEF ConfirmedKept, NothingLost
  <2>1. Cost(KeptIds) <= 0
    BY CostOfKept
  <2>2. IsFiniteSet(Ids)
    BY FS_Interval, JournalAssumption DEF Ids
  <2>3. owed \ KeptIds \in SUBSET Ids /\ done \cap KeptIds \in SUBSET Ids
    BY DEF JournalTypes
  <2>4. /\ IsFiniteSet(owed \ KeptIds)
        /\ Cardinality(owed \ KeptIds) \in Nat /\ Cardinality(done \cap KeptIds) \in Nat
    BY <2>2, <2>3, FS_Subset, FS_CardinalityType
  <2>5. Cardinality(owed \ KeptIds) = 0
    BY <2>1, <2>4 DEF Cost
  <2> QED BY <2>4, <2>5, FS_EmptySet
<1>2. Init => JournalTypes /\ One /\ Bounded
  BY TypesInit, OneInit, BoundedInit
<1>3. JournalTypes /\ One /\ Bounded /\ [Next]_vars => (JournalTypes /\ One /\ Bounded)'
  BY TypesNext, OneNext, BoundedNext
<1> QED BY <1>1, <1>2, <1>3, PTL DEF Spec

=============================================================================
