------------------------------- MODULE Journal ------------------------------
(***************************************************************************)
(* The file under the bridge's journal (pi-agent/src/journal.ts): one      *)
(* append-only file of lines, the operations of an instance serialized by  *)
(* its promise chain, and a compaction that reads and then overwrites.     *)
(* Module Bridge uses what Unsettled extracts from the file as its         *)
(* variable journal; here are the steps it treats as one.                  *)
(*                                                                         *)
(* The promise chain belongs to an instance of the extension.  /new        *)
(* replaces the instance without waiting for what is still in the chain of *)
(* the old one, so that two chains can work on the file.                   *)
(*                                                                         *)
(* A file that does not exist and an empty one behave alike and are both   *)
(* << >>.  Turns are numbered in the order in which admit is called: each  *)
(* has a fresh turnId.                                                     *)
(***************************************************************************)
EXTENDS Naturals, Sequences, FiniteSets

CONSTANTS
  Turns,          \* bound: turns admitted
  Instances,      \* bound: instances of the extension, one after the other
  Logins,         \* bound: successful logins
  Crashes,        \* bound: crashes of the process
  Tears,          \* bound: appends that leave part of their line in the file
  CompactFaults,  \* bound: writes of a compaction that fail or are cut off
  Expiries,       \* bound: session:expired events
  ReadResults,    \* {TRUE}, or {TRUE, FALSE} where readFile may fail
  WriteResults    \* {TRUE}, or {TRUE, FALSE} where opening to write may fail

ASSUME JournalAssumption ==
  /\ Turns \in Nat
  /\ Instances \in Nat \ {0}
  /\ {Logins, Crashes, Tears, CompactFaults, Expiries} \subseteq Nat
  /\ ReadResults \subseteq BOOLEAN
  /\ WriteResults \subseteq BOOLEAN

Ids == 1..Turns
Procs == 1..Instances

\* A line of the file; a line that does not parse is corrupt.
Line == [rec : {"admitted", "settled", "corrupt"}, id : 0..Turns]
Corrupt == [rec |-> "corrupt", id |-> 0]

JournalOp == [op : {"admitted", "settled", "replay", "compact", "discard"},
              id : 0..Turns]
Op(op, id) == [op |-> op, id |-> id]

VARIABLES
  lines,   \* the file
  torn,    \* its last line has no newline
  current, \* the instance in use
  chain,   \* operations of an instance that wait or are under way
  step,    \* how far the compaction at the head of a chain is
  snap,    \* the entries that compaction has read
  mem,     \* turns an instance works on and has not settled
  called,  \* number of turns admit was called for
  owed,    \* turns admit answered true for, not given to settle yet
  done,    \* turns settle answered true for
  used     \* the bounds used up

fileVars == <<lines, torn>>
compactVars == <<step, snap>>
historyVars == <<called, owed, done>>
vars == <<fileVars, current, chain, compactVars, mem, historyVars, used>>

Budgets == {"logins", "crashes", "tears", "faults", "expiries"}
Spend(b) == used' = [used EXCEPT ![b] = @ + 1]

-----------------------------------------------------------------------------
RangeOf(s) == {s[i] : i \in DOMAIN s}
IdsOf(s) == {s[i].id : i \in DOMAIN s}

\* The ids with a settled record in s.
SettledIds(s) == {r.id : r \in {x \in RangeOf(s) : x.rec = "settled"}}

\* Where s holds the first admitted record of an id without settled record.
UnsettledAt(s) ==
  {i \in DOMAIN s :
     /\ s[i].rec = "admitted"
     /\ s[i].id \notin SettledIds(s)
     /\ \A j \in 1..(i - 1) : s[j] # s[i]}

\* The elements of s at the positions I, in order.
Pick(s, I) ==
  [k \in 1..Cardinality(I) |->
     s[CHOOSE i \in I : Cardinality({j \in I : j <= i}) = k]]

\* Mutant of Unsettled: settled records are not looked at.
AllAdmitted(s) == Pick(s, {i \in DOMAIN s : s[i].rec = "admitted"})

\* Mutant of Unsettled: the newest entry comes first.
NewestFirst(s) ==
  LET I == UnsettledAt(s)
  IN [k \in 1..Cardinality(I) |->
        s[CHOOSE i \in I : Cardinality({j \in I : j >= i}) = k]]

\* replayUnsettledFromLines: corrupt lines are skipped.
Unsettled(s) == Pick(s, UnsettledAt(s))

\* appendFile of a whole line: after a torn line both end up in one line that
\* does not parse.
Written(r) ==
  /\ lines' = IF torn THEN [lines EXCEPT ![Len(lines)] = Corrupt]
                      ELSE Append(lines, r)
  /\ torn' = FALSE

\* appendFile that stops short, of the newline only or earlier.
TornOff(r) ==
  /\ \/ torn /\ lines' = [lines EXCEPT ![Len(lines)] = Corrupt]
     \/ ~torn /\ lines' \in {Append(lines, Corrupt), Append(lines, r)}
  /\ torn' = TRUE

-----------------------------------------------------------------------------
Init ==
  /\ lines = << >>
  /\ torn = FALSE
  /\ current = 1
  /\ chain = [i \in Procs |-> << >>]
  /\ step = [i \in Procs |-> "none"]
  /\ snap = [i \in Procs |-> << >>]
  /\ mem = [i \in Procs |-> {}]
  /\ called = 0
  /\ owed = {}
  /\ done = {}
  /\ used = [b \in Budgets |-> 0]

Enqueue(i, op) == chain' = [chain EXCEPT ![i] = Append(@, op)]
HeadIs(i, op) == chain[i] # << >> /\ Head(chain[i]).op = op
Dequeue(i) == chain' = [chain EXCEPT ![i] = Tail(@)]

\* The calls.  A message that came before /new may still be admitted by the
\* old instance, and a turn be settled by it.
CallAdmit(i) ==
  /\ i <= current /\ called < Turns
  /\ called' = called + 1
  /\ Enqueue(i, Op("admitted", called + 1))
  /\ UNCHANGED <<fileVars, current, compactVars, mem, owed, done, used>>

CallSettle(i, id) ==
  /\ id \in mem[i]
  /\ mem' = [mem EXCEPT ![i] = @ \ {id}]
  /\ Enqueue(i, Op("settled", id))
  /\ UNCHANGED <<fileVars, current, compactVars, historyVars, used>>

\* After a login the bridge replays the journal.
CallReplay ==
  /\ used["logins"] < Logins
  /\ Spend("logins")
  /\ Enqueue(current, Op("replay", 0))
  /\ UNCHANGED <<fileVars, current, compactVars, mem, historyVars>>

CallDiscard ==
  /\ used["expiries"] < Expiries
  /\ Spend("expiries")
  /\ Enqueue(current, Op("discard", 0))
  /\ UNCHANGED <<fileVars, current, compactVars, mem, historyVars>>

-----------------------------------------------------------------------------
\* admit and settle at the head of the chain, answering ok.
Appended(i, ok) ==
  /\ chain[i] # << >> /\ Head(chain[i]).op \in {"admitted", "settled"}
  /\ Dequeue(i)
  /\ LET r == [rec |-> Head(chain[i]).op, id |-> Head(chain[i]).id]
     IN /\ \/ ok /\ Written(r) /\ UNCHANGED used
           \/ ~ok /\ UNCHANGED <<fileVars, used>>
           \/ /\ ~ok /\ used["tears"] < Tears
              /\ Spend("tears")
              /\ TornOff(r)
        /\ IF r.rec = "admitted"
             THEN /\ mem' = [mem EXCEPT ![i] = @ \cup {r.id}]
                  /\ owed' = IF ok THEN owed \cup {r.id} ELSE owed
                  /\ UNCHANGED done
             ELSE /\ owed' = owed \ {r.id}
                  /\ done' = IF ok THEN done \cup {r.id} ELSE done
                  /\ UNCHANGED mem
  /\ UNCHANGED <<current, compactVars, called>>

\* replayUnsettled; the bridge queues what it gets and asks for compaction.
ReplayUnsettled(i, ok) ==
  /\ HeadIs(i, "replay")
  /\ chain' = [chain EXCEPT ![i] = Append(Tail(@), Op("compact", 0))]
  /\ mem' = IF ok THEN [mem EXCEPT ![i] = @ \cup IdsOf(Unsettled(lines))]
                  ELSE mem
  /\ UNCHANGED <<fileVars, current, compactVars, historyVars, used>>

\* Mutant of CompactRead: a file that cannot be read counts as empty.
CompactReadEmpty(i, ok) ==
  /\ HeadIs(i, "compact") /\ step[i] = "none"
  /\ step' = [step EXCEPT ![i] = "read"]
  /\ snap' = [snap EXCEPT ![i] = IF ok THEN Unsettled(lines) ELSE << >>]
  /\ UNCHANGED <<fileVars, current, chain, mem, historyVars, used>>

\* compact: readFile.  When it fails nothing is written.
CompactRead(i, ok) ==
  /\ HeadIs(i, "compact") /\ step[i] = "none"
  /\ IF ok
       THEN /\ step' = [step EXCEPT ![i] = "read"]
            /\ snap' = [snap EXCEPT ![i] = Unsettled(lines)]
            /\ UNCHANGED chain
       ELSE Dequeue(i) /\ UNCHANGED compactVars
  /\ UNCHANGED <<fileVars, current, mem, historyVars, used>>

CompactDone(i) ==
  /\ Dequeue(i)
  /\ step' = [step EXCEPT ![i] = "none"]
  /\ snap' = [snap EXCEPT ![i] = << >>]

\* compact: writeFile opens the file, which empties it, or cannot.
CompactOpen(i, ok) ==
  /\ HeadIs(i, "compact") /\ step[i] = "read"
  /\ IF ok
       THEN /\ lines' = << >>
            /\ torn' = FALSE
            /\ step' = [step EXCEPT ![i] = "open"]
            /\ UNCHANGED <<chain, snap>>
       ELSE CompactDone(i) /\ UNCHANGED fileVars
  /\ UNCHANGED <<current, mem, historyVars, used>>

\* compact: writeFile writes from the start of the file, over what another
\* instance has appended since it was emptied.
CompactWrite(i) ==
  /\ HeadIs(i, "compact") /\ step[i] = "open"
  /\ \/ snap[i] = << >> /\ UNCHANGED fileVars
     \/ /\ snap[i] # << >>
        /\ lines' \in {snap[i]} \cup
             (IF lines = << >> THEN {} ELSE {Append(snap[i], Corrupt)})
        /\ torn' = (torn /\ lines' # snap[i])
  /\ CompactDone(i)
  /\ UNCHANGED <<current, mem, historyVars, used>>

\* compact: writeFile fails (a full disk); what it wrote stays.
CompactWriteFailed(i) ==
  /\ HeadIs(i, "compact") /\ step[i] = "open" /\ snap[i] # << >>
  /\ used["faults"] < CompactFaults
  /\ Spend("faults")
  /\ \E k \in 0..(Len(snap[i]) - 1), cut \in BOOLEAN :
       /\ lines' = SubSeq(snap[i], 1, k) \o IF cut THEN <<Corrupt>> ELSE << >>
       /\ torn' = cut
  /\ CompactDone(i)
  /\ UNCHANGED <<current, mem, historyVars>>

\* discard: writeFile of nothing.
Discard(i, ok) ==
  /\ HeadIs(i, "discard")
  /\ Dequeue(i)
  /\ IF ok THEN lines' = << >> /\ torn' = FALSE /\ owed' = {}
           ELSE UNCHANGED <<fileVars, owed>>
  /\ UNCHANGED <<current, compactVars, mem, called, done, used>>

-----------------------------------------------------------------------------
\* /new: the new instance has a chain of its own.
Replace ==
  /\ current < Instances
  /\ current' = current + 1
  /\ UNCHANGED <<fileVars, chain, compactVars, mem, historyVars, used>>

\* The process dies, in a write of a compaction as a fault of it; an append
\* under way may leave part of its line.
Crash ==
  /\ used["crashes"] < Crashes
  /\ \/ /\ \A i \in Procs : step[i] # "open"
        /\ Spend("crashes")
        /\ UNCHANGED fileVars
     \/ /\ \E i \in Procs : step[i] = "open"
        /\ used["faults"] < CompactFaults
        /\ used' = [used EXCEPT !["crashes"] = @ + 1, !["faults"] = @ + 1]
        /\ UNCHANGED fileVars
     \/ /\ \A i \in Procs : step[i] # "open"
        /\ used["tears"] < Tears
        /\ used' = [used EXCEPT !["crashes"] = @ + 1, !["tears"] = @ + 1]
        /\ \E i \in Procs :
             /\ chain[i] # << >> /\ Head(chain[i]).op \in {"admitted", "settled"}
             /\ TornOff([rec |-> Head(chain[i]).op, id |-> Head(chain[i]).id])
  /\ chain' = [i \in Procs |-> << >>]
  /\ step' = [i \in Procs |-> "none"]
  /\ snap' = [i \in Procs |-> << >>]
  /\ mem' = [i \in Procs |-> {}]
  /\ UNCHANGED <<current, historyVars>>

Next ==
  \/ \E i \in Procs :
       \/ CallAdmit(i)
       \/ \E id \in Ids : CallSettle(i, id)
       \/ \E ok \in WriteResults : Appended(i, ok)
       \/ \E ok \in ReadResults : ReplayUnsettled(i, ok)
       \/ \E ok \in ReadResults : CompactRead(i, ok)
       \/ \E ok \in WriteResults : CompactOpen(i, ok)
       \/ CompactWrite(i)
       \/ CompactWriteFailed(i)
       \/ \E ok \in WriteResults : Discard(i, ok)
  \/ CallReplay
  \/ CallDiscard
  \/ Replace
  \/ Crash

Spec == Init /\ [][Next]_vars

-----------------------------------------------------------------------------
\* Every variable of the journal has its type; a corrupt line has no id.
TypeOK ==
  /\ lines \in Seq(Line)
  /\ torn \in BOOLEAN /\ (torn => lines # << >>)
  /\ current \in Procs
  /\ chain \in [Procs -> Seq(JournalOp)]
  /\ step \in [Procs -> {"none", "read", "open"}]
  /\ snap \in [Procs -> Seq({r \in Line : r.rec = "admitted"})]
  /\ mem \in [Procs -> SUBSET Ids]
  /\ called \in 0..Turns
  /\ owed \subseteq Ids
  /\ done \subseteq Ids
  /\ used \in [Budgets -> Nat]

\* The entries on disk; those a compaction under way has read and is about to
\* write count.
Kept == IF \E i \in Procs : step[i] = "open"
          THEN UNION {RangeOf(snap[i]) : i \in {p \in Procs : step[p] = "open"}}
          ELSE RangeOf(Unsettled(lines))
KeptIds == {r.id : r \in Kept}

\* adr/0011, "a reply is never lost": what admit has confirmed stays replayable
\* until it is given to settle or the session expires.
NothingLost == owed \subseteq KeptIds

\* One instance is at work and no write of a compaction was cut off.
Intact == current = 1 /\ used["faults"] = 0

\* Reads and writes that fail and crashes between two operations, or between
\* the read and the write of a compaction, lose nothing.
ConfirmedKept == Intact /\ used["tears"] = 0 => NothingLost

\* Whatever else fails, reads, writes and the process itself, a torn line costs
\* at most one confirmed record, the one appended behind it: either a turn is
\* lost or a settled one would be replayed again.
LossBounded ==
  Intact => Cardinality(owed \ KeptIds) + Cardinality(done \cap KeptIds)
              <= used["tears"]

\* A replay returns the turns in the order of their admission, however often
\* the file was compacted, also by a compaction that was cut off.
OrderKept ==
  current = 1 =>
    LET s == Unsettled(lines)
    IN \A i, j \in DOMAIN s : i < j => s[i].id < s[j].id

=============================================================================
