----------------------- MODULE ConcurrentIngestProofs -----------------------
(***************************************************************************)
(* The id of the source row keeps transactions apart, and so the commits   *)
(* come as if one process had made them all, for any number of processes,  *)
(* any documents, runs and crashes.                                        *)
(***************************************************************************)
EXTENDS ConcurrentIngest, SequenceTheorems, WellFoundedInduction, TLAPS

Statuses == {"RUNNING", "SUCCESS", "FAILED"}
Turns    == {"look", "compare", "number", "insert"}      \* rows are left to resolve
Idle     == {"idle", "start"}
Steps    == Turns \cup Idle \cup {"finish", "raise"}

RowIds(rows) == \A r \in rows : r.id \in Nat /\ r.run \in 1..Len(run)
WellTyped ==
  /\ run \in Seq(Statuses)
  /\ step \in [Procs -> Steps] /\ mine \in [Procs -> Nat] /\ doc \in [Procs -> Docs]
  /\ changed \in [Procs -> BOOLEAN] /\ ids \in [Procs -> Seq(Nat)] /\ next \in [Procs -> Nat]
  /\ DOMAIN own = Procs /\ own = [p \in Procs |-> own[p]]
  /\ RowIds(db) /\ \A p \in Procs : RowIds(own[p])
  /\ \A p \in Procs : /\ step[p] \in Turns => Len(ids[p]) < Len(Script(p))
                      /\ step[p] \notin Idle => mine[p] \in 1..Len(run)
                      /\ step[p] = "compare" => ids[p] = <<>>
Below(rows, b) == \A r \in rows : r.id <= b
Bounded == \E b \in Nat : Below(db, b) /\ \A p \in Procs : Below(own[p], b)

-----------------------------------------------------------------------------
(* The script of a document begins with its source and goes on without.    *)
LEMMA Scripted ==
  ASSUME NEW p \in Procs, doc[p] \in Docs, changed[p] \in BOOLEAN
  PROVE  /\ Len(Script(p)) \in Nat \ {0}
         /\ Script(p)[1] = [table |-> "source", name |-> doc[p], refs |-> <<>>]
         /\ \A i \in 2..Len(Script(p)) : Script(p)[i].table # "source"
<1>1. CASE changed[p]
  <2>1. Script(p) = <<Rows[doc[p]][1], ReviewRow>>
    BY <1>1 DEF Script
  <2> QED
    BY <2>1, RowsAssumption DEF ReviewRow
<1>2. CASE ~changed[p]
  <2>1. Script(p) = Rows[doc[p]]
    BY <1>2 DEF Script
  <2> QED
    BY <2>1, RowsAssumption
<1> QED
  BY <1>1, <1>2

(* The row that is wanted is the source if and only if it is the first.    *)
LEMMA SourceFirst ==
  ASSUME WellTyped, NEW p \in Procs, step[p] \in Turns
  PROVE  /\ (Wanted(p).table = "source") <=> (ids[p] = <<>>)
         /\ ids[p] = <<>> => Wanted(p) = [table |-> "source", name |-> doc[p], refs |-> <<>>]
<1>1. ids[p] \in Seq(Nat) /\ Len(ids[p]) \in Nat /\ Len(ids[p]) < Len(Script(p))
  BY LenProperties DEF WellTyped
<1>2. doc[p] \in Docs /\ changed[p] \in BOOLEAN
  BY DEF WellTyped
<1>3. ids[p] = <<>> <=> Len(ids[p]) = 0
  BY <1>1, EmptySeq
<1>4. CASE Len(ids[p]) = 0
  BY <1>2, <1>3, <1>4, Scripted DEF Wanted
<1>5. CASE Len(ids[p]) # 0
  <2>1. Len(ids[p]) + 1 \in 2..Len(Script(p))
    BY <1>1, <1>2, <1>5, Scripted
  <2> QED
    BY <1>2, <1>3, <1>5, <2>1, Scripted DEF Wanted
<1> QED
  BY <1>1, <1>4, <1>5

(* A bounded set of numbers has a greatest one.                            *)
LEMMA GreatestOf ==
  ASSUME NEW S \in SUBSET Nat, NEW b \in Nat, \A i \in S : i <= b
  PROVE  Greatest(S) \in S \cup {0} /\ \A i \in S : i <= Greatest(S)
<1> DEFINE T == {m \in Nat : \A i \in S : i <= m}
<1>1. T \subseteq Nat /\ b \in T
  OBVIOUS
<1>2. PICK m \in T : \A k \in T : ~(<<k, m>> \in OpToRel(<, Nat))
  BY <1>1, WFMin, NatLessThanWellFounded, Zenon
<1>3. \A k \in T : ~(k < m)
  BY <1>1, <1>2 DEF OpToRel
<1>4. m \in S \cup {0}
  <2>1. SUFFICES ASSUME m # 0, m \notin S PROVE FALSE
    OBVIOUS
  <2>2. m \in Nat /\ m - 1 \in Nat
    BY <1>1, <2>1
  <2>3. \A i \in S : i <= m - 1
    BY <2>1, <2>2
  <2>4. m - 1 \in T
    BY <2>2, <2>3
  <2> QED
    BY <1>3, <2>2, <2>4
<1>5. \A i \in S \cup {0} : i <= m
  BY <1>1
<1>6. \E g \in S \cup {0} : \A i \in S \cup {0} : i <= g
  BY <1>4, <1>5
<1> QED
  BY <1>6 DEF Greatest

(* The id chosen is above those of the table's visible rows.               *)
LEMMA Choosing ==
  ASSUME WellTyped, Bounded, NEW p \in Procs
  PROVE  /\ NextId(p) \in Nat
         /\ \A r \in Of(Visible(p), Wanted(p).table) : r.id < NextId(p)
<1> DEFINE S == {r.id : r \in Of(Visible(p), Wanted(p).table)}
<1>1. PICK b \in Nat : Below(db, b) /\ \A q \in Procs : Below(own[q], b)
  BY DEF Bounded
<1>2. S \in SUBSET Nat
  BY DEF WellTyped, RowIds, Of, Visible
<1>3. \A i \in S : i <= b
  BY <1>1 DEF Below, Of, Visible
<1>4. Greatest(S) \in S \cup {0} /\ \A i \in S : i <= Greatest(S)
  BY <1>2, <1>3, GreatestOf
<1>5. Greatest(S) \in Nat /\ NextId(p) = Greatest(S) + 1
  BY <1>2, <1>4 DEF NextId
<1>6. \A r \in Of(Visible(p), Wanted(p).table) : r.id \in S /\ r.id \in Nat
  BY <1>2
<1>7. \A i \in S : i <= Greatest(S)
  BY <1>4
<1>8. \A i \in S : i \in Nat => i < Greatest(S) + 1
  BY <1>5, <1>7
<1> HIDE DEF S
<1> QED
  BY <1>5, <1>6, <1>8

-----------------------------------------------------------------------------
(* A document exists, which Init chooses.                                  *)
LEMMA InitTyped == Init => WellTyped /\ Bounded
<1> SUFFICES ASSUME Init PROVE WellTyped /\ Bounded
  OBVIOUS
<1>1. (CHOOSE d \in Docs : TRUE) \in Docs
  BY DocsAssumption
<1>2. run \in Seq(Statuses) /\ <<>> \in Seq(Nat)
  BY EmptySeq DEF Init
<1>3. \A p \in Procs : own[p] = {} /\ step[p] = "idle"
  BY DEF Init
<1>4. WellTyped
  BY <1>1, <1>2, <1>3 DEF Init, WellTyped, RowIds, Steps, Idle, Turns
<1> QED
  BY <1>3, <1>4 DEF Init, Bounded, Below

(* What a step leaves alone: the script of a process whose document and    *)
(* verdict stay, and the typed rows when the runs only grow.               *)
LEMMA SameScript ==
  ASSUME NEW p \in Procs, doc'[p] = doc[p], changed'[p] = changed[p]
  PROVE  Script(p)' = Script(p)
BY DEF Script

LEMMA SameWanted ==
  ASSUME NEW p \in Procs, doc'[p] = doc[p], changed'[p] = changed[p], ids'[p] = ids[p]
  PROVE  Wanted(p)' = Wanted(p) /\ Key(p)' = Key(p)
BY SameScript DEF Wanted, Key

LEMMA EnrolTyped ==
  ASSUME WellTyped, NEW p \in Procs, Enrol(p)
  PROVE  WellTyped'
<1>1. Len(run) \in Nat
  BY LenProperties DEF WellTyped
<1>2. \A q \in Procs : Script(q)' = Script(q)
  BY SameScript DEF Enrol
<1>3. step' \in [Procs -> Steps] /\ next' \in [Procs -> Nat]
  BY <1>1 DEF WellTyped, Enrol, Goto, Steps, Idle
<1>4. \A q \in Procs : /\ step'[q] \in Turns => step'[q] = step[q]
                       /\ step'[q] \notin Idle => step'[q] = step[q]
                       /\ step'[q] = "compare" => step'[q] = step[q]
  BY DEF WellTyped, Enrol, Goto, Turns, Idle
<1>5. UNCHANGED <<run, mine, doc, changed, ids, own, db>>
  BY DEF Enrol
<1> QED
  BY <1>2, <1>3, <1>4, <1>5 DEF WellTyped, RowIds

LEMMA StartTyped ==
  ASSUME WellTyped, NEW p \in Procs, Start(p)
  PROVE  WellTyped'
<1>1. Len(run) \in Nat /\ run \in Seq(Statuses)
  BY LenProperties DEF WellTyped
<1>2. run' \in Seq(Statuses) /\ Len(run') = Len(run) + 1
  BY <1>1, AppendProperties DEF Start, Statuses
<1>3. \A q \in Procs : /\ q # p => /\ step'[q] = step[q] /\ mine'[q] = mine[q] /\ doc'[q] = doc[q]
                                  /\ changed'[q] = changed[q] /\ ids'[q] = ids[q]
                       /\ q = p => /\ step'[q] = "look" /\ mine'[q] = Len(run) + 1
                                   /\ doc'[q] \in Docs /\ changed'[q] = FALSE /\ ids'[q] = <<>>
  BY DEF WellTyped, Start, Goto
<1>4. /\ step' \in [Procs -> Steps] /\ mine' \in [Procs -> Nat] /\ doc' \in [Procs -> Docs]
      /\ changed' \in [Procs -> BOOLEAN] /\ ids' \in [Procs -> Seq(Nat)]
  <2>1. <<>> \in Seq(Nat) /\ "look" \in Steps
    BY EmptySeq DEF Steps, Turns
  <2> QED
    BY <1>1, <2>1 DEF WellTyped, Start, Goto
<1>5. UNCHANGED <<own, db, next>>
  BY DEF Start
<1>6. RowIds(db)' /\ \A q \in Procs : RowIds(own[q])'
  BY <1>1, <1>2, <1>5 DEF WellTyped, RowIds
<1>7. ASSUME NEW q \in Procs
      PROVE  /\ step'[q] \in Turns => Len(ids'[q]) < Len(Script(q)')
             /\ step'[q] \notin Idle => mine'[q] \in 1..Len(run')
             /\ step'[q] = "compare" => ids'[q] = <<>>
  <2>1. CASE q = p
    <3>1. doc'[q] \in Docs /\ changed'[q] \in BOOLEAN
      BY <1>3, <2>1
    <3>2. Len(Script(q)') \in Nat \ {0}
      <4>1. CASE changed'[q]
        BY <1>3, <2>1, <4>1
      <4>2. CASE ~changed'[q]
        BY <3>1, <4>2, RowsAssumption DEF Script
      <4> QED
        BY <4>1, <4>2
    <3>3. Len(ids'[q]) = 0
      BY <1>3, <2>1
    <3> QED
      BY <1>1, <1>2, <1>3, <2>1, <3>2, <3>3 DEF Turns
  <2>2. CASE q # p
    BY <1>1, <1>2, <1>3, <2>2, SameScript DEF WellTyped
  <2> QED
    BY <2>1, <2>2
<1> QED
  BY <1>2, <1>4, <1>5, <1>6, <1>7 DEF WellTyped

(* Steps that only move p on, within its turns or out of them.             *)
LEMMA MoveTyped ==
  ASSUME WellTyped, NEW p \in Procs, NEW s \in Steps, Goto(p, s),
         s \in Turns => step[p] \in Turns, s \notin Idle => step[p] \notin Idle,
         s = "compare" => ids[p] = <<>>,
         UNCHANGED <<run, mine, doc, changed, ids>>, next' \in [Procs -> Nat],
         DOMAIN own' = Procs, own' = [q \in Procs |-> own'[q]],
         RowIds(db'), \A q \in Procs : RowIds(own'[q])
  PROVE  WellTyped'
<1>1. step' \in [Procs -> Steps]
  BY DEF WellTyped, Goto
<1>2. \A q \in Procs : step'[q] = IF q = p THEN s ELSE step[q]
  BY DEF WellTyped, Goto
<1>3. \A q \in Procs : Script(q)' = Script(q)
  BY SameScript
<1>4. \A q \in Procs : /\ step'[q] \in Turns => Len(ids'[q]) < Len(Script(q)')
                       /\ step'[q] \notin Idle => mine'[q] \in 1..Len(run')
                       /\ step'[q] = "compare" => ids'[q] = <<>>
  BY <1>2, <1>3 DEF WellTyped
<1>5. RowIds(db)' /\ \A q \in Procs : RowIds(own[q])'
  BY DEF RowIds
<1> QED
  BY <1>1, <1>4, <1>5 DEF WellTyped

LEMMA ResolveTyped ==
  ASSUME WellTyped, NEW p \in Procs, step[p] \in Turns, NEW i \in Nat,
         Resolve(p, i, Script(p)), UNCHANGED <<run, mine, doc, changed, db, next>>,
         DOMAIN own' = Procs, own' = [q \in Procs |-> own'[q]],
         \A q \in Procs : RowIds(own'[q])
  PROVE  /\ WellTyped'
         /\ ids'[p] # <<>> /\ step'[p] \in {"look", "finish"}
         /\ \A q \in Procs \ {p} : ids'[q] = ids[q] /\ step'[q] = step[q]
<1>1. ids[p] \in Seq(Nat) /\ Len(ids[p]) \in Nat /\ Len(ids[p]) < Len(Script(p))
  BY LenProperties DEF WellTyped
<1>2. Len(Script(p)) \in Nat
  BY Scripted DEF WellTyped
<1>3. ids'[p] = Append(ids[p], i) /\ \A q \in Procs \ {p} : ids'[q] = ids[q]
  BY DEF WellTyped, Resolve
<1>4. ids'[p] \in Seq(Nat) /\ Len(ids'[p]) = Len(ids[p]) + 1
  BY <1>1, <1>3, AppendProperties
<1>5. ids' \in [Procs -> Seq(Nat)]
  BY <1>1, <1>3, <1>4 DEF WellTyped, Resolve
<1>6. step'[p] = (IF Len(ids[p]) + 1 = Len(Script(p)) THEN "finish" ELSE "look")
      /\ \A q \in Procs \ {p} : step'[q] = step[q]
  BY DEF WellTyped, Resolve, Goto
<1>7. step' \in [Procs -> Steps]
  BY DEF WellTyped, Resolve, Goto, Steps, Turns
<1>8. \A q \in Procs : Script(q)' = Script(q)
  BY SameScript
<1>9. ids'[p] # <<>>
  BY <1>1, <1>4
<1>10. ASSUME NEW q \in Procs
       PROVE  /\ step'[q] \in Turns => Len(ids'[q]) < Len(Script(q)')
              /\ step'[q] \notin Idle => mine'[q] \in 1..Len(run')
              /\ step'[q] = "compare" => ids'[q] = <<>>
  <2>1. CASE q = p
    <3>1. step'[p] \in Turns => Len(ids[p]) + 1 # Len(Script(p))
      BY <1>6 DEF Turns
    <3>2. step'[p] \in Turns => Len(ids'[p]) < Len(Script(p)')
      BY <1>1, <1>2, <1>4, <1>8, <3>1
    <3>3. mine[p] \in 1..Len(run)
      BY DEF WellTyped, Idle, Turns
    <3> QED
      BY <1>6, <2>1, <3>2, <3>3
  <2>2. CASE q # p
    BY <1>3, <1>6, <1>8, <2>2 DEF WellTyped
  <2> QED
    BY <2>1, <2>2
<1>11. RowIds(db)' /\ \A q \in Procs : RowIds(own[q])'
  BY DEF WellTyped, RowIds
<1> QED
  BY <1>3, <1>5, <1>6, <1>7, <1>9, <1>10, <1>11 DEF WellTyped

LEMMA LoseStartTyped ==
  ASSUME WellTyped, NEW p \in Procs, LoseStart(p)
  PROVE  WellTyped'
BY MoveTyped DEF LoseStart, WellTyped, local, Steps, Idle, Turns

LEMMA LookTyped ==
  ASSUME WellTyped, NEW p \in Procs, Look(p)
  PROVE  WellTyped'
<1>1. step[p] \in Turns /\ step[p] \notin Idle
  BY DEF Look, Turns, Idle
<1>2. UNCHANGED <<db, own, run, mine, doc, changed, next>>
  BY DEF Look
<1>3. /\ next' \in [Procs -> Nat] /\ DOMAIN own' = Procs /\ own' = [q \in Procs |-> own'[q]]
      /\ RowIds(db') /\ \A q \in Procs : RowIds(own'[q])
  BY <1>2 DEF WellTyped
<1>4. ASSUME NEW r \in Chosen(p), r.table = "source", Goto(p, "finish"), UNCHANGED ids
      PROVE  WellTyped'
  BY <1>1, <1>2, <1>3, <1>4, MoveTyped DEF Steps, Turns
<1>5. ASSUME NEW r \in Chosen(p), Resolve(p, r.id, Script(p))
      PROVE  WellTyped'
  <2>1. r.id \in Nat
    BY DEF Chosen, Matching, Of, Visible, WellTyped, RowIds
  <2> QED
    BY <1>1, <1>2, <1>3, <1>5, <2>1, ResolveTyped
<1>6. ASSUME Goto(p, IF Wanted(p).table = "source" THEN "compare" ELSE "number"), UNCHANGED ids
      PROVE  WellTyped'
  <2>1. CASE Wanted(p).table = "source"
    <3>1. ids[p] = <<>>
      BY <1>1, <2>1, SourceFirst
    <3> QED
      BY <1>1, <1>2, <1>3, <1>6, <2>1, <3>1, MoveTyped DEF Steps, Turns
  <2>2. CASE Wanted(p).table # "source"
    BY <1>1, <1>2, <1>3, <1>6, <2>2, MoveTyped DEF Steps, Turns
  <2> QED
    BY <2>1, <2>2
<1> QED
  BY <1>4, <1>5, <1>6 DEF Look

LEMMA CompareTyped ==
  ASSUME WellTyped, NEW p \in Procs, Compare(p)
  PROVE  WellTyped'
<1>1. UNCHANGED <<db, own, run, mine, doc, ids, next>>
  BY DEF Compare
<1>2. step' \in [Procs -> Steps] /\ changed' \in [Procs -> BOOLEAN]
  BY DEF WellTyped, Compare, Goto, Steps, Turns
<1>3. \A q \in Procs \ {p} : step'[q] = step[q] /\ changed'[q] = changed[q]
  BY DEF WellTyped, Compare, Goto
<1>4. step[p] = "compare" /\ step'[p] = "number" /\ ids'[p] = <<>>
  BY DEF WellTyped, Compare, Goto
<1>5. Len(ids'[p]) < Len(Script(p)')
  <2>1. doc'[p] \in Docs /\ changed'[p] \in BOOLEAN
    BY <1>1, <1>2 DEF WellTyped
  <2>2. Len(Script(p)') \in Nat \ {0}
    <3>1. CASE changed'[p]
      <4>1. Script(p)' = <<Rows[doc'[p]][1], ReviewRow>>
        BY <3>1 DEF Script, ReviewRow
      <4> QED
        BY <4>1
    <3>2. CASE ~changed'[p]
      BY <2>1, <3>2, RowsAssumption DEF Script
    <3> QED
      BY <3>1, <3>2
  <2>3. Len(ids'[p]) = 0
    BY <1>4
  <2> QED
    BY <2>2, <2>3
<1>6. \A q \in Procs \ {p} : Script(q)' = Script(q)
  BY <1>1, <1>3, SameScript
<1>7. \A q \in Procs : /\ step'[q] \in Turns => Len(ids'[q]) < Len(Script(q)')
                       /\ step'[q] \notin Idle => mine'[q] \in 1..Len(run')
                       /\ step'[q] = "compare" => ids'[q] = <<>>
  <2>1. mine[p] \in 1..Len(run)
    BY <1>4 DEF WellTyped, Idle
  <2> QED
    BY <1>1, <1>3, <1>4, <1>5, <1>6, <2>1 DEF WellTyped
<1> QED
  BY <1>1, <1>2, <1>7 DEF WellTyped, RowIds

LEMMA NumberTyped ==
  ASSUME WellTyped, Bounded, NEW p \in Procs, Number(p)
  PROVE  WellTyped'
<1>1. NextId(p) \in Nat
  BY Choosing
<1>2. next' \in [Procs -> Nat]
  BY <1>1 DEF Number, WellTyped
<1> QED
  BY <1>2, MoveTyped DEF Number, WellTyped, Steps, Idle, Turns

LEMMA CollideTyped ==
  ASSUME WellTyped, NEW p \in Procs, Collide(p)
  PROVE  WellTyped'
BY MoveTyped DEF Collide, WellTyped, local, Steps, Idle, Turns

(* What p has of its own is let go at the end of its transaction.          *)
LEMMA LetGo ==
  ASSUME WellTyped, NEW p \in Procs, own' = [own EXCEPT ![p] = {}]
  PROVE  /\ DOMAIN own' = Procs /\ own' = [q \in Procs |-> own'[q]]
         /\ own'[p] = {} /\ \A q \in Procs \ {p} : own'[q] = own[q]
         /\ \A q \in Procs : own'[q] = {} \/ own'[q] = own[q]
<1>1. own = [q \in Procs |-> own[q]]
  BY DEF WellTyped
<1> QED
  BY <1>1

LEMMA InsertTyped ==
  ASSUME WellTyped, NEW p \in Procs, Insert(p)
  PROVE  WellTyped'
<1> DEFINE row == [table |-> Wanted(p).table, id |-> next[p], key |-> Key(p), run |-> mine[p]]
<1>1. step[p] \in Turns /\ step[p] \notin Idle
  BY DEF Insert, Turns, Idle
<1>2. own' = [own EXCEPT ![p] = @ \cup {row}]
  BY DEF Insert
<1>3. own = [q \in Procs |-> own[q]]
  BY DEF WellTyped
<1>4. /\ DOMAIN own' = Procs /\ own' = [q \in Procs |-> own'[q]]
      /\ own'[p] = own[p] \cup {row} /\ \A q \in Procs \ {p} : own'[q] = own[q]
  BY <1>2, <1>3
<1>5. row.id \in Nat /\ row.run \in 1..Len(run)
  BY <1>1 DEF WellTyped
<1>6. UNCHANGED <<db, run, mine, doc, changed, next>>
  BY DEF Insert
<1>7. \A q \in Procs : RowIds(own'[q])
  BY <1>4, <1>5, <1>6 DEF WellTyped, RowIds
<1>8. Resolve(p, next[p], Script(p)) /\ next[p] \in Nat
  BY DEF Insert, WellTyped
<1> QED
  BY <1>1, <1>4, <1>6, <1>7, <1>8, ResolveTyped

(* A transaction that ends leaves the process idle and the run decided.    *)
LEMMA CloseTyped ==
  ASSUME WellTyped, NEW p \in Procs, NEW outcome \in Statuses, Close(p, outcome),
         step[p] \notin Idle, db' \in SUBSET (db \cup own[p]),
         UNCHANGED <<mine, doc, changed, ids, next>>
  PROVE  WellTyped' /\ Len(run') = Len(run)
<1>1. mine[p] \in 1..Len(run) /\ run \in Seq(Statuses)
  BY DEF WellTyped
<1>2. run' \in Seq(Statuses) /\ Len(run') = Len(run)
  BY <1>1, ExceptSeq DEF Close
<1>3. /\ DOMAIN own' = Procs /\ own' = [q \in Procs |-> own'[q]]
      /\ \A q \in Procs : own'[q] = {} \/ own'[q] = own[q]
  BY LetGo DEF Close
<1>4. RowIds(db)' /\ \A q \in Procs : RowIds(own[q])'
  BY <1>2, <1>3 DEF WellTyped, RowIds
<1>5. step' \in [Procs -> Steps]
  BY DEF WellTyped, Close, Goto, Steps, Idle
<1>6. \A q \in Procs : step'[q] = IF q = p THEN "idle" ELSE step[q]
  BY DEF WellTyped, Close, Goto
<1>7. \A q \in Procs : Script(q)' = Script(q)
  BY SameScript
<1>8. \A q \in Procs : /\ step'[q] \in Turns => Len(ids'[q]) < Len(Script(q)')
                       /\ step'[q] \notin Idle => mine'[q] \in 1..Len(run')
                       /\ step'[q] = "compare" => ids'[q] = <<>>
  BY <1>2, <1>6, <1>7 DEF WellTyped, Idle, Turns
<1> QED
  BY <1>2, <1>3, <1>4, <1>5, <1>8 DEF WellTyped

LEMMA FinishRunTyped ==
  ASSUME WellTyped, NEW p \in Procs, FinishRun(p)
  PROVE  WellTyped'
BY CloseTyped DEF FinishRun, local, Idle, Statuses

LEMMA FailRunTyped ==
  ASSUME WellTyped, NEW p \in Procs, FailRun(p)
  PROVE  WellTyped'
BY CloseTyped DEF FailRun, local, Idle, Statuses

LEMMA CrashTyped ==
  ASSUME WellTyped, NEW p \in Procs, Crash(p)
  PROVE  WellTyped'
<1>1. /\ Goto(p, "idle") /\ own' = [own EXCEPT ![p] = {}]
      /\ UNCHANGED <<db, run, mine, doc, changed, ids, next>>
  BY DEF Crash, local
<1>2. /\ DOMAIN own' = Procs /\ own' = [q \in Procs |-> own'[q]]
      /\ \A q \in Procs : own'[q] = {} \/ own'[q] = own[q]
  BY <1>1, LetGo
<1>3. RowIds(db') /\ \A q \in Procs : RowIds(own'[q])
  BY <1>1, <1>2 DEF WellTyped, RowIds
<1> QED
  BY <1>1, <1>2, <1>3, MoveTyped DEF WellTyped, Steps, Idle, Turns

-----------------------------------------------------------------------------
(* A step adds one row at most, and that one to the rows of one process.   *)
Grown(p) ==
  \/ db' \subseteq db \cup own[p] /\ \A q \in Procs : own'[q] \subseteq own[q]
  \/ db' = db /\ \E row : row.id \in Nat /\ \A q \in Procs : own'[q] \subseteq own[q] \cup {row}

LEMMA BoundedKept ==
  ASSUME WellTyped, Bounded, NEW p \in Procs, Grown(p)
  PROVE  Bounded'
<1>1. PICK b \in Nat : Below(db, b) /\ \A q \in Procs : Below(own[q], b)
  BY DEF Bounded
<1>2. CASE db' \subseteq db \cup own[p] /\ \A q \in Procs : own'[q] \subseteq own[q]
  BY <1>1, <1>2 DEF Bounded, Below
<1>3. ASSUME db' = db, NEW row, row.id \in Nat,
             \A q \in Procs : own'[q] \subseteq own[q] \cup {row}
      PROVE  Bounded'
  <2>1. row.id + b \in Nat /\ b <= row.id + b /\ row.id <= row.id + b
    BY <1>1, <1>3
  <2>2. \A i \in Nat : i <= b => i <= row.id + b
    BY <1>1, <1>3
  <2>3. Below(db', row.id + b) /\ \A q \in Procs : Below(own'[q], row.id + b)
    BY <1>1, <1>3, <2>1, <2>2 DEF Below, WellTyped, RowIds
  <2> QED
    BY <2>1, <2>3 DEF Bounded, Below
<1> QED
  BY <1>2, <1>3 DEF Grown

LEMMA StepGrows ==
  ASSUME WellTyped, NEW p \in Procs, Enrol(p) \/ Proceed(p) \/ Crash(p)
  PROVE  Grown(p)
<1>1. CASE UNCHANGED <<db, own>>
  BY <1>1 DEF Grown
<1>2. CASE Insert(p)
  <2> DEFINE row == [table |-> Wanted(p).table, id |-> next[p], key |-> Key(p), run |-> mine[p]]
  <2>1. own' = [own EXCEPT ![p] = @ \cup {row}] /\ db' = db
    BY <1>2 DEF Insert
  <2>2. own = [q \in Procs |-> own[q]]
    BY DEF WellTyped
  <2>3. \A q \in Procs : own'[q] \subseteq own[q] \cup {row}
    BY <2>1, <2>2
  <2>4. row.id \in Nat
    BY DEF WellTyped
  <2> QED
    BY <2>1, <2>3, <2>4 DEF Grown
<1>3. CASE FinishRun(p) \/ FailRun(p) \/ Crash(p)
  <2>1. own' = [own EXCEPT ![p] = {}] /\ db' \subseteq db \cup own[p]
    BY <1>3 DEF FinishRun, FailRun, Crash, Close
  <2>2. \A q \in Procs : own'[q] = {} \/ own'[q] = own[q]
    BY <2>1, LetGo
  <2> QED
    BY <2>1, <2>2 DEF Grown
<1>4. CASE Enrol(p) \/ Start(p) \/ LoseStart(p) \/ Look(p) \/ Compare(p) \/ Number(p) \/ Collide(p)
  BY <1>1, <1>4 DEF Enrol, Start, LoseStart, Look, Compare, Number, Collide
<1> QED
  BY <1>2, <1>3, <1>4 DEF Proceed

LEMMA StepTyped ==
  ASSUME WellTyped, Bounded, NEW p \in Procs, Enrol(p) \/ Proceed(p) \/ Crash(p)
  PROVE  WellTyped' /\ Bounded'
<1>1. Bounded'
  BY StepGrows, BoundedKept
<1>2. WellTyped'
  BY EnrolTyped, StartTyped, LoseStartTyped, LookTyped, CompareTyped, NumberTyped, InsertTyped,
     CollideTyped, FinishRunTyped, FailRunTyped, CrashTyped DEF Proceed
<1> QED
  BY <1>1, <1>2

LEMMA StutterTyped ==
  ASSUME WellTyped, Bounded, UNCHANGED vars
  PROVE  WellTyped' /\ Bounded'
<1>1. WellTyped'
  BY DEF vars, local, WellTyped, RowIds, Script
<1>2. Bounded'
  BY DEF vars, local, Bounded, Below
<1> QED
  BY <1>1, <1>2

-----------------------------------------------------------------------------
(* Committed sources are numbered 1..n, whoever has rows has the source    *)
(* n + 1 among them, and whoever is about to insert a source has chosen    *)
(* n + 1, or an id that is taken meanwhile.                                *)
SourceIds(rows) == {r.id : r \in Of(rows, "source")}
Held(p, n) ==
  /\ own[p] # {} => SourceIds(own[p]) = {n + 1}
  /\ own[p] # {} => step[p] \notin Idle /\ ids[p] # <<>>
  /\ step[p] \in Turns /\ ids[p] # <<>> => own[p] # {}
  /\ step[p] = "insert" /\ ids[p] = <<>> => next[p] \in 1..(n + 1)
Lock(n) ==
  /\ SourceIds(db) = 1..n
  /\ \A p \in Procs : Held(p, n)
  /\ OneWriterAtATime
Locked == \E n \in Nat : Lock(n)

LEMMA MoveLocked ==
  ASSUME NEW n \in Nat, Lock(n), NEW p \in Procs, UNCHANGED <<db, own>>,
         \A q \in Procs \ {p} : step'[q] = step[q] /\ ids'[q] = ids[q] /\ next'[q] = next[q],
         Held(p, n)'
  PROVE  Lock(n)'
<1>1. \A q \in Procs : Held(q, n)'
  BY DEF Lock, Held
<1> QED
  BY <1>1 DEF Lock, SourceIds, OneWriterAtATime

(* Steps that leave rows, ids and choices alone, and do not bring the      *)
(* process to its insert.                                                  *)
LEMMA GotoLocked ==
  ASSUME WellTyped, NEW n \in Nat, Lock(n), NEW p \in Procs, NEW s \in Steps, Goto(p, s),
         UNCHANGED <<db, own, ids>>, \A q \in Procs \ {p} : next'[q] = next[q],
         s \in Idle => own[p] = {}, s # "insert",
         s \in Turns => step[p] \in Turns
  PROVE  Lock(n)'
<1>1. step'[p] = s /\ \A q \in Procs \ {p} : step'[q] = step[q]
  BY DEF WellTyped, Goto
<1>2. Held(p, n)'
  BY <1>1 DEF Lock, Held
<1> QED
  BY <1>1, <1>2, MoveLocked

LEMMA EnrolLocked ==
  ASSUME WellTyped, NEW n \in Nat, Lock(n), NEW p \in Procs, Enrol(p)
  PROVE  Lock(n)'
<1>1. own[p] = {}
  BY DEF Enrol, Lock, Held, Idle
<1>2. \A q \in Procs \ {p} : next'[q] = next[q]
  BY DEF Enrol, WellTyped
<1> QED
  BY <1>1, <1>2, GotoLocked DEF Enrol, Steps, Idle, Turns

LEMMA LoseStartLocked ==
  ASSUME WellTyped, NEW n \in Nat, Lock(n), NEW p \in Procs, LoseStart(p)
  PROVE  Lock(n)'
<1>1. own[p] = {}
  BY DEF LoseStart, Lock, Held, Idle
<1> QED
  BY <1>1, GotoLocked DEF LoseStart, local, Steps, Idle, Turns

LEMMA CompareLocked ==
  ASSUME WellTyped, NEW n \in Nat, Lock(n), NEW p \in Procs, Compare(p)
  PROVE  Lock(n)'
BY GotoLocked DEF Compare, Steps, Idle, Turns

LEMMA CollideLocked ==
  ASSUME WellTyped, NEW n \in Nat, Lock(n), NEW p \in Procs, Collide(p)
  PROVE  Lock(n)'
BY GotoLocked DEF Collide, local, Steps, Idle, Turns

LEMMA StartLocked ==
  ASSUME WellTyped, NEW n \in Nat, Lock(n), NEW p \in Procs, Start(p)
  PROVE  Lock(n)'
<1>1. own[p] = {}
  BY DEF Start, Lock, Held, Idle
<1>2. UNCHANGED <<db, own, next>> /\ step'[p] = "look" /\ ids'[p] = <<>>
  BY DEF WellTyped, Start, Goto
<1>3. \A q \in Procs \ {p} : step'[q] = step[q] /\ ids'[q] = ids[q]
  BY DEF WellTyped, Start, Goto
<1>4. Held(p, n)'
  BY <1>1, <1>2 DEF Held
<1> QED
  BY <1>2, <1>3, <1>4, MoveLocked

LEMMA LookLocked ==
  ASSUME WellTyped, NEW n \in Nat, Lock(n), NEW p \in Procs, Look(p)
  PROVE  Lock(n)'
<1>1. step[p] \in Turns /\ UNCHANGED <<db, own, run, mine, doc, changed, next>>
  BY DEF Look, Turns
<1>2. CASE \E s \in Steps : s \notin Idle /\ s # "insert" /\ Goto(p, s) /\ UNCHANGED ids
  BY <1>1, <1>2, GotoLocked
<1>3. ASSUME NEW r \in Chosen(p), r.table # "source", Resolve(p, r.id, Script(p))
      PROVE  Lock(n)'
  <2>1. r.table = Wanted(p).table /\ r.id \in Nat
    BY DEF Chosen, Matching, Of, Visible, WellTyped, RowIds
  <2>2. ids[p] # <<>> /\ own[p] # {}
    BY <1>1, <1>3, <2>1, SourceFirst DEF Lock, Held
  <2>3. /\ DOMAIN own' = Procs /\ own' = [q \in Procs |-> own'[q]]
        /\ \A q \in Procs : RowIds(own'[q])
    BY <1>1 DEF WellTyped
  <2>4. /\ ids'[p] # <<>> /\ step'[p] \in {"look", "finish"}
        /\ \A q \in Procs \ {p} : ids'[q] = ids[q] /\ step'[q] = step[q]
    BY <1>1, <1>3, <2>1, <2>3, ResolveTyped
  <2>5. Held(p, n)'
    BY <1>1, <2>2, <2>4 DEF Lock, Held, Idle
  <2> QED
    BY <1>1, <2>4, <2>5, MoveLocked
<1>4. CASE \E r \in Chosen(p) : r.table = "source" /\ Goto(p, "finish") /\ UNCHANGED ids
  BY <1>2, <1>4 DEF Steps, Idle
<1>5. CASE Goto(p, IF Wanted(p).table = "source" THEN "compare" ELSE "number") /\ UNCHANGED ids
  BY <1>2, <1>5 DEF Steps, Turns, Idle
<1> QED
  BY <1>3, <1>4, <1>5 DEF Look

(* A process without rows sees what is committed alone, so that it chooses *)
(* an id of a source that is taken, or the first that is not.              *)
LEMMA NumberLocked ==
  ASSUME WellTyped, Bounded, NEW n \in Nat, Lock(n), NEW p \in Procs, Number(p)
  PROVE  Lock(n)'
<1>1. UNCHANGED <<db, own, ids>> /\ step[p] = "number" /\ step[p] \in Turns
  BY DEF Number, Turns
<1>2. step'[p] = "insert" /\ next'[p] = NextId(p)
      /\ \A q \in Procs \ {p} : step'[q] = step[q] /\ next'[q] = next[q]
  BY DEF WellTyped, Number, Goto
<1>3. ASSUME ids[p] = <<>> PROVE NextId(p) \in 1..(n + 1)
  <2>1. own[p] = {} /\ Wanted(p).table = "source"
    BY <1>1, <1>3, SourceFirst DEF Lock, Held
  <2>2. {r.id : r \in Of(Visible(p), Wanted(p).table)} = 1..n
    BY <2>1 DEF Lock, SourceIds, Visible, Of
  <2>3. Greatest(1..n) \in (1..n) \cup {0}
    <3>1. 1..n \in SUBSET Nat /\ \A i \in 1..n : i <= n
      OBVIOUS
    <3> QED
      BY <3>1, GreatestOf
  <2>4. NextId(p) = Greatest(1..n) + 1
    BY <2>2 DEF NextId
  <2> QED
    BY <2>3, <2>4
<1>4. Held(p, n)'
  BY <1>1, <1>2, <1>3 DEF Lock, Held, Idle
<1> QED
  BY <1>1, <1>2, <1>4, MoveLocked

(* The insert of a source goes through only if the id is not committed and *)
(* nobody else has rows, since they would have the source of that id.      *)
LEMMA InsertLocked ==
  ASSUME WellTyped, NEW n \in Nat, Lock(n), NEW p \in Procs, Insert(p)
  PROVE  Lock(n)'
<1> DEFINE row == [table |-> Wanted(p).table, id |-> next[p], key |-> Key(p), run |-> mine[p]]
<1>1. step[p] \in Turns /\ step[p] \notin Idle /\ next[p] \in Nat
  BY DEF Insert, Turns, Idle, WellTyped
<1>2. own' = [own EXCEPT ![p] = @ \cup {row}] /\ UNCHANGED <<db, run, mine, doc, changed, next>>
  BY DEF Insert
<1>3. own = [q \in Procs |-> own[q]]
  BY DEF WellTyped
<1>4. /\ DOMAIN own' = Procs /\ own' = [q \in Procs |-> own'[q]]
      /\ own'[p] = own[p] \cup {row} /\ \A q \in Procs \ {p} : own'[q] = own[q]
  BY <1>2, <1>3
<1>5. \A q \in Procs : RowIds(own'[q])
  <2>1. row.id \in Nat /\ row.run \in 1..Len(run)
    BY <1>1 DEF WellTyped
  <2> QED
    BY <1>2, <1>4, <2>1 DEF WellTyped, RowIds
<1>6. /\ ids'[p] # <<>> /\ step'[p] \in {"look", "finish"}
      /\ \A q \in Procs \ {p} : ids'[q] = ids[q] /\ step'[q] = step[q]
  BY <1>1, <1>2, <1>4, <1>5, ResolveTyped DEF Insert
<1>7. (row.table = "source") <=> (ids[p] = <<>>)
  BY <1>1, SourceFirst
<1>8. SourceIds(own'[p]) = {n + 1}
  <2>1. CASE ids[p] = <<>>
    <3>1. own[p] = {} /\ row.table = "source"
      BY <1>7, <2>1 DEF Lock, Held
    <3>2. SourceIds(own'[p]) = {next[p]}
      <4>1. own'[p] = {row} /\ row.id = next[p]
        BY <1>4, <3>1
      <4> HIDE DEF row
      <4> QED
        BY <3>1, <4>1 DEF SourceIds, Of
    <3>3. next[p] \notin 1..n
      BY <3>1 DEF Insert, Colliding, Lock, SourceIds, Of, Visible
    <3>4. next[p] = n + 1
      <4>1. next[p] \in 1..(n + 1)
        BY <2>1 DEF Insert, Lock, Held
      <4> QED
        BY <3>3, <4>1
    <3> QED
      BY <3>2, <3>4
  <2>2. CASE ids[p] # <<>>
    <3>1. own[p] # {} /\ row.table # "source"
      BY <1>1, <1>7, <2>2 DEF Lock, Held
    <3>2. SourceIds(own'[p]) = SourceIds(own[p])
      BY <1>4, <3>1 DEF SourceIds, Of
    <3> QED
      BY <3>1, <3>2 DEF Lock, Held
  <2> QED
    BY <2>1, <2>2
<1>9. \A q \in Procs \ {p} : own[q] = {}
  <2>1. SUFFICES ASSUME NEW q \in Procs \ {p}, own[q] # {} PROVE FALSE
    OBVIOUS
  <2>2. own[p] = {}
    BY <2>1 DEF Lock, OneWriterAtATime
  <2>3. ids[p] = <<>> /\ row.table = "source"
    BY <1>1, <1>7, <2>2 DEF Lock, Held
  <2>4. own'[p] = {row}
    BY <1>4, <2>2
  <2>5. next[p] = n + 1
    BY <1>8, <2>3, <2>4 DEF SourceIds, Of
  <2>6. PICK r \in Of(own[q], "source") : r.id = n + 1
    BY <2>1 DEF Lock, Held, SourceIds
  <2>7. r \in Colliding(p, own[q])
    BY <2>3, <2>5, <2>6 DEF Colliding, Of
  <2> QED
    BY <2>7 DEF Insert, Waits
<1>10. Held(p, n)'
  <2>1. own'[p] # {}
    BY <1>4
  <2> QED
    BY <1>6, <1>8, <2>1 DEF Held, Idle
<1>11. \A q \in Procs : Held(q, n)'
  <2>1. ASSUME NEW q \in Procs \ {p} PROVE Held(q, n)'
    BY <1>2, <1>4, <1>6 DEF Lock, Held
  <2> QED
    BY <1>10, <2>1
<1>12. OneWriterAtATime'
  BY <1>4, <1>9 DEF OneWriterAtATime
<1> QED
  BY <1>2, <1>11, <1>12 DEF Lock, SourceIds

(* A transaction that ends without a commit.                               *)
LEMMA AbandonLocked ==
  ASSUME WellTyped, NEW n \in Nat, Lock(n), NEW p \in Procs, Goto(p, "idle"),
         own' = [own EXCEPT ![p] = {}], UNCHANGED <<db, ids, next>>
  PROVE  Lock(n)'
<1>1. own'[p] = {} /\ \A q \in Procs \ {p} : own'[q] = own[q]
  BY LetGo
<1>2. step'[p] = "idle" /\ \A q \in Procs \ {p} : step'[q] = step[q]
  BY DEF WellTyped, Goto
<1>3. \A q \in Procs : Held(q, n)'
  BY <1>1, <1>2 DEF Lock, Held, Turns
<1>4. OneWriterAtATime'
  BY <1>1 DEF Lock, OneWriterAtATime
<1> QED
  BY <1>3, <1>4 DEF Lock, SourceIds

(* A commit brings the source n + 1, if it brings any row.                 *)
LEMMA FinishRunLocked ==
  ASSUME WellTyped, NEW n \in Nat, Lock(n), NEW p \in Procs, FinishRun(p)
  PROVE  Locked'
<1>1. /\ Goto(p, "idle") /\ own' = [own EXCEPT ![p] = {}] /\ db' = db \cup own[p]
      /\ UNCHANGED <<ids, next>>
  BY DEF FinishRun, Close, local
<1>2. CASE own[p] = {}
  <2>1. Lock(n)'
    BY <1>1, <1>2, AbandonLocked
  <2> QED
    BY <2>1 DEF Locked, Lock, Held, OneWriterAtATime, SourceIds
<1>3. CASE own[p] # {}
  <2>1. own'[p] = {} /\ \A q \in Procs \ {p} : own'[q] = own[q]
    BY <1>1, LetGo
  <2>2. \A q \in Procs : own'[q] = {}
    BY <1>3, <2>1 DEF Lock, OneWriterAtATime
  <2>3. step'[p] = "idle" /\ \A q \in Procs \ {p} : step'[q] = step[q]
    BY <1>1 DEF WellTyped, Goto
  <2>4. SourceIds(db') = SourceIds(db) \cup SourceIds(own[p])
    BY <1>1 DEF SourceIds, Of
  <2>5. SourceIds(db') = 1..(n + 1)
    <3>1. SourceIds(db) = 1..n /\ SourceIds(own[p]) = {n + 1}
      BY <1>3 DEF Lock, Held
    <3>2. (1..n) \cup {n + 1} = 1..(n + 1)
      OBVIOUS
    <3> QED
      BY <2>4, <3>1, <3>2
  <2>6. ASSUME NEW q \in Procs
        PROVE  /\ step'[q] \in Turns => ids'[q] = <<>>
               /\ step'[q] = "insert" => next'[q] \in 1..(n + 2)
    <3>1. CASE q = p
      BY <2>3, <3>1 DEF Turns
    <3>2. CASE q # p
      <4>1. own[q] = {} /\ step'[q] = step[q] /\ ids'[q] = ids[q] /\ next'[q] = next[q]
        BY <1>1, <1>3, <2>3, <3>2 DEF Lock, OneWriterAtATime
      <4>2. 1..(n + 1) \subseteq 1..(n + 2)
        OBVIOUS
      <4> QED
        BY <4>1, <4>2 DEF Lock, Held, Turns
    <3> QED
      BY <3>1, <3>2
  <2>7. n + 1 \in Nat /\ (n + 1) + 1 = n + 2
    OBVIOUS
  <2>8. Lock(n + 1)'
    BY <2>2, <2>5, <2>6, <2>7 DEF Lock, Held, SourceIds, OneWriterAtATime
  <2> QED
    BY <2>7, <2>8 DEF Locked, Lock, Held, OneWriterAtATime, SourceIds
<1> QED
  BY <1>2, <1>3

LEMMA StepLocked ==
  ASSUME WellTyped, Bounded, Locked, NEW p \in Procs, Enrol(p) \/ Proceed(p) \/ Crash(p)
  PROVE  Locked'
<1>1. PICK n \in Nat : Lock(n)
  BY DEF Locked
<1>2. Lock(n)' => Locked'
  BY DEF Locked, Lock, Held, OneWriterAtATime, SourceIds
<1>3. CASE FinishRun(p)
  BY <1>1, <1>3, FinishRunLocked
<1>4. CASE FailRun(p) \/ Crash(p)
  <2>1. /\ Goto(p, "idle") /\ own' = [own EXCEPT ![p] = {}] /\ UNCHANGED <<db, ids, next>>
    BY <1>4 DEF FailRun, Crash, Close, local
  <2> QED
    BY <1>1, <1>2, <2>1, AbandonLocked
<1>5. CASE Enrol(p) \/ Start(p) \/ LoseStart(p) \/ Look(p) \/ Compare(p)
  BY <1>1, <1>2, <1>5, EnrolLocked, StartLocked, LoseStartLocked, LookLocked, CompareLocked
<1>6. CASE Number(p) \/ Insert(p) \/ Collide(p)
  BY <1>1, <1>2, <1>6, NumberLocked, InsertLocked, CollideLocked
<1> QED
  BY <1>3, <1>4, <1>5, <1>6 DEF Proceed

LEMMA InitLocked == Init => Locked
<1> SUFFICES ASSUME Init PROVE Lock(0)
  BY DEF Locked
<1>1. SourceIds(db) = 1..0
  BY DEF Init, SourceIds, Of
<1> QED
  BY <1>1 DEF Init, Lock, Held, Turns, OneWriterAtATime

LEMMA StutterLocked ==
  ASSUME Locked, UNCHANGED vars
  PROVE  Locked'
BY DEF vars, local, Locked, Lock, Held, OneWriterAtATime, SourceIds

(* The invariant of every reachable state: typed rows, and the lock.       *)
Safe == WellTyped /\ Bounded /\ Locked

(* It is preserved by every step.                                          *)
THEOREM SafeInvariant == Spec => []Safe
<1>1. Init => Safe
  BY InitTyped, InitLocked DEF Safe
<1>2. Safe /\ [Next]_vars => Safe'
  <2>1. SUFFICES ASSUME Safe, [Next]_vars PROVE Safe'
    OBVIOUS
  <2>2. CASE UNCHANGED vars
    BY <2>1, <2>2, StutterTyped, StutterLocked DEF Safe
  <2>3. CASE Next
    BY <2>1, <2>3, StepTyped, StepLocked DEF Safe, Next
  <2> QED
    BY <2>1, <2>2, <2>3
<1> QED
  BY <1>1, <1>2, PTL DEF Spec

(* However many processes ingest at once, and wherever they crash, only    *)
(* one transaction has rows of its own.                                    *)
THEOREM OneWriter == Spec => []OneWriterAtATime
<1>1. Safe => OneWriterAtATime
  BY DEF Safe, Locked, Lock
<1> QED
  BY <1>1, SafeInvariant, PTL

-----------------------------------------------------------------------------
(* Natural keys are single among the rows that a session sees, and absent  *)
(* between its lookup and its insert.                                      *)
Single(rows) ==
  \A x, y \in rows : x.table = y.table /\ x.table # "source" /\ x.key = y.key => x = y
Absent(p) ==
  step[p] \in {"number", "insert"} /\ ids[p] # <<>> =>
    \A r \in Of(Visible(p), Wanted(p).table) : r.key # Key(p)
Keyed == Single(db) /\ \A p \in Procs : Single(Visible(p)) /\ Absent(p)

LEMMA MoveKeyed ==
  ASSUME Keyed, NEW p \in Procs, UNCHANGED <<db, own>>,
         \A q \in Procs \ {p} : /\ step'[q] = step[q] /\ ids'[q] = ids[q]
                                /\ doc'[q] = doc[q] /\ changed'[q] = changed[q],
         Absent(p)'
  PROVE  Keyed'
<1>1. ASSUME NEW q \in Procs \ {p} PROVE Absent(q)'
  <2>1. Wanted(q)' = Wanted(q) /\ Key(q)' = Key(q) /\ Visible(q)' = Visible(q)
    BY SameWanted DEF Visible
  <2> QED
    BY <2>1 DEF Keyed, Absent
<1>2. \A q \in Procs : Visible(q)' = Visible(q)
  BY DEF Visible
<1> QED
  BY <1>1, <1>2 DEF Keyed, Single

(* The lookup of a row that is not a source fails only if no row has its   *)
(* key, of a person too, since there is none or one.                       *)
LEMMA LookKeyed ==
  ASSUME WellTyped, Keyed, NEW p \in Procs, Look(p)
  PROVE  Keyed'
<1>1. step[p] \in Turns /\ UNCHANGED <<db, own, run, mine, doc, changed, next>>
  BY DEF Look, Turns
<1>2. \A q \in Procs \ {p} : step'[q] = step[q] /\ ids'[q] = ids[q]
  BY DEF Look, Resolve, Goto, WellTyped
<1>3. CASE step'[p] \notin {"number", "insert"}
  BY <1>1, <1>2, <1>3, MoveKeyed DEF Absent
<1>4. CASE step'[p] \in {"number", "insert"}
  <2>1. Chosen(p) = {} /\ ids' = ids
    BY <1>4 DEF Look, Resolve, Goto, WellTyped
  <2>2. ASSUME ids[p] # <<>>
        PROVE  \A r \in Of(Visible(p), Wanted(p).table) : r.key # Key(p)
    <3>1. Wanted(p).table # "source"
      BY <1>1, <2>2, SourceFirst
    <3>2. Matching(p) = {r \in Of(Visible(p), Wanted(p).table) : r.key = Key(p)}
      BY <3>1 DEF Matching
    <3>3. \A x, y \in Matching(p) : x = y
      BY <3>1, <3>2 DEF Keyed, Single, Of
    <3>4. Matching(p) = {}
      BY <2>1, <3>3 DEF Chosen
    <3> QED
      BY <3>2, <3>4
  <2>3. Wanted(p)' = Wanted(p) /\ Key(p)' = Key(p) /\ Visible(p)' = Visible(p)
    BY <1>1, <2>1, SameWanted DEF Visible
  <2>4. Absent(p)'
    BY <2>1, <2>2, <2>3 DEF Absent
  <2> QED
    BY <1>1, <1>2, <2>4, MoveKeyed
<1> QED
  BY <1>3, <1>4

LEMMA InsertKeyed ==
  ASSUME WellTyped, NEW n \in Nat, Lock(n), Keyed, NEW p \in Procs, Insert(p)
  PROVE  Keyed'
<1> DEFINE row == [table |-> Wanted(p).table, id |-> next[p], key |-> Key(p), run |-> mine[p]]
<1>1. step[p] = "insert" /\ step[p] \in Turns
  BY DEF Insert, Turns
<1>2. own' = [own EXCEPT ![p] = @ \cup {row}] /\ UNCHANGED <<db, run, mine, doc, changed, next>>
  BY DEF Insert
<1>3. own = [q \in Procs |-> own[q]]
  BY DEF WellTyped
<1>4. own'[p] = own[p] \cup {row} /\ \A q \in Procs \ {p} : own'[q] = own[q]
  BY <1>2, <1>3
<1>5. \A q \in Procs \ {p} : step'[q] = step[q] /\ ids'[q] = ids[q]
  BY DEF Insert, Resolve, Goto, WellTyped
<1>6. step'[p] \notin {"number", "insert"}
  BY DEF Insert, Resolve, Goto, WellTyped
<1>7. \A r \in Visible(p) : r.table = row.table /\ row.table # "source" => r.key # row.key
  BY <1>1, SourceFirst DEF Keyed, Absent, Of
<1>8. Visible(p)' = Visible(p) \cup {row}
  BY <1>2, <1>4 DEF Visible
<1>9. Single(Visible(p))'
  <2>1. Single(Visible(p))
    BY DEF Keyed
  <2> HIDE DEF row
  <2> QED
    BY <1>7, <1>8, <2>1 DEF Single
<1>10. ASSUME NEW q \in Procs \ {p} PROVE Single(Visible(q))' /\ Absent(q)'
  <2>1. Wanted(q)' = Wanted(q) /\ Key(q)' = Key(q) /\ Visible(q)' = Visible(q)
    BY <1>2, <1>4, <1>5, SameWanted DEF Visible
  <2>2. Single(Visible(q)) /\ Absent(q)
    BY DEF Keyed
  <2> QED
    BY <1>5, <2>1, <2>2 DEF Absent, Single
<1>11. Absent(p)'
  BY <1>6 DEF Absent
<1>12. Single(db)'
  BY <1>2 DEF Keyed, Single
<1> QED
  BY <1>9, <1>10, <1>11, <1>12 DEF Keyed

(* A commit changes what the others see, who have no rows of their own.    *)
LEMMA EndKeyed ==
  ASSUME WellTyped, NEW n \in Nat, Lock(n), Keyed, NEW p \in Procs, Goto(p, "idle"),
         own' = [own EXCEPT ![p] = {}], db' = db \/ db' = db \cup own[p],
         UNCHANGED <<doc, changed, ids>>
  PROVE  Keyed'
<1>1. own'[p] = {} /\ \A q \in Procs \ {p} : own'[q] = own[q]
  BY LetGo
<1>2. step'[p] = "idle" /\ \A q \in Procs \ {p} : step'[q] = step[q]
  BY DEF WellTyped, Goto
<1>3. Single(db) /\ Single(Visible(p)) /\ Visible(p) = db \cup own[p]
  BY DEF Keyed, Visible
<1>4. Single(db)' /\ Single(Visible(p))'
  <2>1. Visible(p)' = db'
    BY <1>1 DEF Visible
  <2>2. Single(db')
    BY <1>3
  <2> QED
    BY <2>1, <2>2 DEF Single
<1>5. Absent(p)'
  BY <1>2 DEF Absent
<1>6. ASSUME NEW q \in Procs \ {p} PROVE Single(Visible(q))' /\ Absent(q)'
  <2>1. CASE db' = db
    <3>1. Wanted(q)' = Wanted(q) /\ Key(q)' = Key(q) /\ Visible(q)' = Visible(q)
      BY <1>1, <2>1, SameWanted DEF Visible
    <3>2. Single(Visible(q)) /\ Absent(q)
      BY DEF Keyed
    <3> QED
      BY <1>2, <3>1, <3>2 DEF Absent, Single
  <2>2. CASE db' = db \cup own[p] /\ own[p] # {}
    <3>1. own[q] = {}
      BY <2>2 DEF Lock, OneWriterAtATime
    <3>2. Visible(q)' = Visible(p)
      BY <1>1, <2>2, <3>1 DEF Visible
    <3>3. step[q] \in Turns => ids[q] = <<>>
      BY <3>1 DEF Lock, Held
    <3>4. Absent(q)'
      BY <1>2, <3>3 DEF Absent, Turns
    <3> QED
      BY <1>3, <3>2, <3>4 DEF Single
  <2>3. CASE own[p] = {}
    BY <2>1, <2>3
  <2> QED
    BY <2>1, <2>2, <2>3
<1> QED
  BY <1>4, <1>5, <1>6 DEF Keyed

LEMMA StepKeyed ==
  ASSUME WellTyped, Locked, Keyed, NEW p \in Procs, Enrol(p) \/ Proceed(p) \/ Crash(p)
  PROVE  Keyed'
<1>1. PICK n \in Nat : Lock(n)
  BY DEF Locked
<1>2. CASE FinishRun(p) \/ FailRun(p) \/ Crash(p)
  <2>1. /\ Goto(p, "idle") /\ own' = [own EXCEPT ![p] = {}]
        /\ db' = db \/ db' = db \cup own[p]
        /\ UNCHANGED <<doc, changed, ids>>
    BY <1>2 DEF FinishRun, FailRun, Crash, Close, local
  <2> QED
    BY <1>1, <2>1, EndKeyed
<1>3. CASE Insert(p)
  BY <1>1, <1>3, InsertKeyed
<1>4. CASE Look(p)
  BY <1>4, LookKeyed
<1>5. CASE Enrol(p) \/ Start(p) \/ LoseStart(p) \/ Collide(p)
  <2>1. step'[p] \notin {"number", "insert"} /\ UNCHANGED <<db, own>>
    BY <1>5 DEF Enrol, Start, LoseStart, Collide, Goto, WellTyped
  <2>2. \A q \in Procs \ {p} : /\ step'[q] = step[q] /\ ids'[q] = ids[q]
                               /\ doc'[q] = doc[q] /\ changed'[q] = changed[q]
    BY <1>5 DEF Enrol, Start, LoseStart, Collide, Goto, WellTyped, local
  <2> QED
    BY <2>1, <2>2, MoveKeyed DEF Absent
<1>6. CASE Compare(p)
  <2>1. ids'[p] = <<>> /\ UNCHANGED <<db, own>>
    BY <1>6 DEF Compare, WellTyped
  <2>2. \A q \in Procs \ {p} : /\ step'[q] = step[q] /\ ids'[q] = ids[q]
                               /\ doc'[q] = doc[q] /\ changed'[q] = changed[q]
    BY <1>6 DEF Compare, Goto, WellTyped
  <2> QED
    BY <2>1, <2>2, MoveKeyed DEF Absent
<1>7. CASE Number(p)
  <2>1. UNCHANGED <<db, own, doc, changed, ids>> /\ step[p] = "number"
    BY <1>7 DEF Number
  <2>2. \A q \in Procs \ {p} : step'[q] = step[q]
    BY <1>7 DEF Number, Goto, WellTyped
  <2>3. Wanted(p)' = Wanted(p) /\ Key(p)' = Key(p) /\ Visible(p)' = Visible(p)
    BY <2>1, SameWanted DEF Visible
  <2>4. Absent(p)'
    BY <2>1, <2>3 DEF Keyed, Absent
  <2> QED
    BY <2>1, <2>2, <2>4, MoveKeyed
<1> QED
  BY <1>2, <1>3, <1>4, <1>5, <1>6, <1>7 DEF Proceed

LEMMA StutterKeyed ==
  ASSUME Keyed, UNCHANGED vars
  PROVE  Keyed'
<1>1. ASSUME NEW q \in Procs PROVE Single(Visible(q))' /\ Absent(q)'
  <2>1. Wanted(q)' = Wanted(q) /\ Key(q)' = Key(q) /\ Visible(q)' = Visible(q) /\ step' = step
    BY SameWanted DEF Visible, vars, local
  <2>2. Single(Visible(q)) /\ Absent(q) /\ ids' = ids
    BY DEF Keyed, vars, local
  <2> QED
    BY <2>1, <2>2 DEF Absent, Single
<1>2. Single(db)'
  BY DEF Keyed, Single, vars
<1> QED
  BY <1>1, <1>2 DEF Keyed

(* Keys stay single and absent in every reachable state.                   *)
THEOREM KeyedInvariant == Spec => []Keyed
<1>1. Init => Keyed
  BY DEF Init, Keyed, Single, Absent, Visible
<1>2. Safe /\ Keyed /\ [Next]_vars => Keyed'
  <2>1. SUFFICES ASSUME Safe, Keyed, [Next]_vars PROVE Keyed'
    OBVIOUS
  <2>2. CASE UNCHANGED vars
    BY <2>1, <2>2, StutterKeyed
  <2>3. CASE Next
    BY <2>1, <2>3, StepKeyed DEF Safe, Next
  <2> QED
    BY <2>1, <2>2, <2>3
<1> QED
  BY <1>1, <1>2, SafeInvariant, PTL DEF Spec

(* However many processes ingest at once, no table but that of the sources *)
(* has two rows with one natural key.                                      *)
THEOREM NaturalKeys == Spec => []NothingTwice
<1>1. Keyed => NothingTwice
  BY DEF Keyed, Single, NothingTwice
<1> QED
  BY <1>1, KeyedInvariant, PTL

-----------------------------------------------------------------------------
(* Why only races do harm.  Every process relates the committed sources to *)
(* its own document, as far as its run did not overlap with theirs.        *)
Overlap(a, b) == a # b /\ {a, b} \in met
Differs(x, p) == x.key.name.sha # doc[p].sha
Flagged(x, p) == x.key.name.url = doc[p].url => changed[p]
Writing(p) == own[p] # {} \/ (step[p] \in {"number", "insert"} /\ ids[p] = <<>>)

Fresh(p) ==
  /\ step[p] \notin Idle => \A x \in db : x.run # mine[p]
  /\ \A r \in own[p] : r.run = mine[p]
Compared(p) ==
  /\ step[p] = "compare" =>
       \A x \in Of(db, "source") : Overlap(x.run, mine[p]) \/ Differs(x, p)
  /\ Writing(p) =>
       \A x \in Of(db, "source") : Overlap(x.run, mine[p]) \/ (Differs(x, p) /\ Flagged(x, p))
Sourced(p) ==
  \A y \in Of(own[p], "source") : y.key.name = doc[p] /\ y.id = ids[p][1]
Reviewed(p) ==
  step[p] = "finish" /\ own[p] # {} /\ changed[p] =>
    \E r \in Of(Visible(p), "review") : r.key.refs = <<ids[p][1]>>
Blamed(p) == step[p] = "raise" => \E s \in 1..Len(run) : Overlap(s, mine[p])
Numbered(p) ==
  step[p] = "insert" =>
    \A x \in Of(Visible(p), Wanted(p).table) :
      x.id < next[p] \/ (ids[p] = <<>> /\ Overlap(x.run, mine[p]))
Careful(p) ==
  Fresh(p) /\ Compared(p) /\ Sourced(p) /\ Reviewed(p) /\ Blamed(p) /\ Numbered(p)

Paired ==
  \A p, q \in Procs :
    p # q /\ step[p] \notin Idle /\ step[q] \notin Idle => Overlap(mine[p], mine[q])
Explained == Paired /\ (\A p \in Procs : Careful(p)) /\ OnlyRacesHarm

LEMMA InitExplained == Init => Explained
BY DEF Init, Explained, Paired, Careful, Fresh, Compared, Writing, Sourced, Reviewed, Blamed,
       Numbered, OnlyRacesHarm, Of, Idle

(* What a process knows stays true while others move.                      *)
LEMMA OthersCareful ==
  ASSUME WellTyped, NEW q \in Procs, Careful(q), met \subseteq met', Len(run) <= Len(run'),
         Len(run') \in Nat, db' = db,
         step'[q] = step[q], mine'[q] = mine[q], doc'[q] = doc[q], changed'[q] = changed[q],
         ids'[q] = ids[q], next'[q] = next[q], own'[q] = own[q]
  PROVE  Careful(q)'
<1>1. \A a, b : Overlap(a, b) => Overlap(a, b)'
  BY DEF Overlap
<1>2. Visible(q)' = Visible(q) /\ Wanted(q)' = Wanted(q)
  BY SameWanted DEF Visible
<1>3. Fresh(q)' /\ Sourced(q)' /\ Reviewed(q)'
  BY <1>2 DEF Careful, Fresh, Sourced, Reviewed, Of
<1>4. Compared(q)'
  BY <1>1 DEF Careful, Compared, Writing, Differs, Flagged, Of
<1>5. Blamed(q)'
  <2>1. Len(run) \in Nat
    BY LenProperties DEF WellTyped
  <2>2. 1..Len(run) \subseteq 1..Len(run')
    BY <2>1
  <2> QED
    BY <1>1, <2>2 DEF Careful, Blamed
<1>6. Numbered(q)'
  BY <1>1, <1>2 DEF Careful, Numbered, Of
<1> QED
  BY <1>3, <1>4, <1>5, <1>6 DEF Careful

(* The rows that p commits are of a run that overlaps with that of q.      *)
LEMMA CommitCareful ==
  ASSUME WellTyped, NEW n \in Nat, Lock(n), Explained, NEW p \in Procs, NEW q \in Procs \ {p},
         own[p] # {}, db' = db \cup own[p], met' = met, Len(run') = Len(run),
         step'[q] = step[q], mine'[q] = mine[q], doc'[q] = doc[q], changed'[q] = changed[q],
         ids'[q] = ids[q], next'[q] = next[q], own'[q] = own[q]
  PROVE  Careful(q)'
<1>1. own[q] = {} /\ (step[q] \in Turns => ids[q] = <<>>)
  BY DEF Lock, OneWriterAtATime, Held
<1>2. \A a, b : Overlap(a, b)' = Overlap(a, b)
  BY DEF Overlap
<1>3. \A r \in own[p] : r.run = mine[p]
  BY DEF Explained, Careful, Fresh
<1>4. step[q] \notin Idle => mine[p] # mine[q] /\ Overlap(mine[p], mine[q])
  BY DEF Explained, Paired, Overlap, Lock, Held
<1>5. Careful(q)
  BY DEF Explained
<1>6. Fresh(q)'
  BY <1>1, <1>3, <1>4, <1>5 DEF Careful, Fresh
<1>7. Compared(q)'
  <2>1. step[q] = "compare" => \A x \in Of(db', "source") : Overlap(x.run, mine[q]) \/ Differs(x, q)
    BY <1>3, <1>4, <1>5 DEF Careful, Compared, Of, Idle
  <2>2. Writing(q) => \A x \in Of(db', "source") :
                        Overlap(x.run, mine[q]) \/ (Differs(x, q) /\ Flagged(x, q))
    BY <1>1, <1>3, <1>4, <1>5 DEF Careful, Compared, Writing, Of, Idle
  <2> QED
    BY <1>2, <2>1, <2>2 DEF Compared, Writing, Differs, Flagged, Of
<1>8. Sourced(q)' /\ Reviewed(q)'
  BY <1>1 DEF Sourced, Reviewed, Of
<1>9. Blamed(q)'
  BY <1>2, <1>5 DEF Careful, Blamed
<1>10. Numbered(q)'
  <2>1. Wanted(q)' = Wanted(q) /\ Visible(q)' = Visible(q) \cup own[p]
    BY <1>1, SameWanted DEF Visible
  <2>2. step[q] = "insert" => ids[q] = <<>> /\ step[q] \notin Idle
    BY <1>1 DEF Turns, Idle
  <2> QED
    BY <1>2, <1>3, <1>4, <1>5, <2>1, <2>2 DEF Careful, Numbered, Of
<1> QED
  BY <1>6, <1>7, <1>8, <1>9, <1>10 DEF Careful

LEMMA IdleCareful ==
  ASSUME NEW p \in Procs, step'[p] \in Idle, own'[p] = {}
  PROVE  Careful(p)'
BY DEF Careful, Fresh, Compared, Writing, Sourced, Reviewed, Blamed, Numbered, Of, Idle

(* Steps that neither commit nor close a run.                              *)
LEMMA HarmKept ==
  ASSUME WellTyped, OnlyRacesHarm, met \subseteq met', db' = db,
         Len(run') \in Nat, Len(run) <= Len(run'),
         \A r \in 1..Len(run') : run'[r] = "FAILED" => r \in 1..Len(run) /\ run[r] = "FAILED"
  PROVE  OnlyRacesHarm'
<1>1. Len(run) \in Nat
  BY LenProperties DEF WellTyped
<1>2. 1..Len(run) \subseteq 1..Len(run')
  BY <1>1
<1> QED
  BY <1>2 DEF OnlyRacesHarm, Of

(* The last row of a document whose source had changed is the review item. *)
LEMMA Reviewing ==
  ASSUME WellTyped, NEW p \in Procs, step[p] \in Turns, changed[p],
         Len(ids[p]) + 1 = Len(Script(p))
  PROVE  ids[p] # <<>> /\ Wanted(p).table = "review" /\ Key(p).refs = <<ids[p][1]>>
<1>1. Script(p) = <<Rows[doc[p]][1], ReviewRow>>
  BY DEF Script
<1>2. ids[p] \in Seq(Nat) /\ Len(ids[p]) \in Nat
  BY LenProperties DEF WellTyped
<1>3. Len(ids[p]) = 1
  <2>1. \A a, b : Len(<<a, b>>) = 2
    OBVIOUS
  <2>2. Len(Script(p)) = 2
    BY <1>1, <2>1, Zenon
  <2>3. Len(ids[p]) + 1 = 2
    BY <2>2, Zenon
  <2>4. \A n \in Nat : n + 1 = 2 => n = 1
    OBVIOUS
  <2> QED
    BY <1>2, <2>3, <2>4, Zenon
<1>4. Wanted(p) = ReviewRow
  BY <1>1, <1>3 DEF Wanted
<1>5. Key(p).refs = [k \in 1..Len(ReviewRow.refs) |-> ids[p][ReviewRow.refs[k]]]
  BY <1>4 DEF Key
<1>6. ReviewRow.refs = <<1>> /\ ReviewRow.table = "review"
  BY DEF ReviewRow
<1>7. Key(p).refs = [k \in 1..1 |-> ids[p][1]]
  <2>1. Len(<<1>>) = 1 /\ \A k \in 1..1 : <<1>>[k] = 1
    OBVIOUS
  <2> QED
    BY <1>5, <1>6, <2>1
<1>8. [k \in 1..1 |-> ids[p][1]] = <<ids[p][1]>>
  OBVIOUS
<1> QED
  BY <1>3, <1>4, <1>6, <1>7, <1>8

(* Steps of p that touch neither the tables nor the runs.                  *)
LEMMA MoveExplained ==
  ASSUME WellTyped, Explained, NEW p \in Procs, UNCHANGED <<db, own, run, mine, met>>,
         step'[p] \notin Idle => step[p] \notin Idle,
         \A q \in Procs \ {p} : /\ step'[q] = step[q] /\ ids'[q] = ids[q] /\ next'[q] = next[q]
                                /\ doc'[q] = doc[q] /\ changed'[q] = changed[q],
         Careful(p)'
  PROVE  Explained'
<1>1. Len(run) \in Nat
  BY LenProperties DEF WellTyped
<1>2. ASSUME NEW q \in Procs \ {p} PROVE Careful(q)'
  BY <1>1, OthersCareful DEF Explained
<1>3. Paired'
  BY DEF Explained, Paired, Overlap
<1>4. OnlyRacesHarm'
  BY <1>1, HarmKept DEF Explained
<1> QED
  BY <1>2, <1>3, <1>4 DEF Explained

LEMMA EnrolExplained ==
  ASSUME WellTyped, NEW n \in Nat, Lock(n), Explained, NEW p \in Procs, Enrol(p)
  PROVE  Explained'
<1>1. own'[p] = {} /\ step'[p] = "start" /\ step'[p] \in Idle
  BY DEF Enrol, Lock, Held, Idle, Goto, WellTyped
<1>2. Careful(p)'
  BY <1>1, IdleCareful
<1> QED
  BY <1>1, <1>2, MoveExplained DEF Enrol, Goto, WellTyped

LEMMA LoseStartExplained ==
  ASSUME WellTyped, NEW n \in Nat, Lock(n), Explained, NEW p \in Procs, LoseStart(p)
  PROVE  Explained'
<1>1. own'[p] = {} /\ step'[p] = "idle" /\ step'[p] \in Idle
  BY DEF LoseStart, Lock, Held, Idle, Goto, WellTyped
<1>2. Careful(p)'
  BY <1>1, IdleCareful
<1> QED
  BY <1>1, <1>2, MoveExplained DEF LoseStart, local, Goto, WellTyped

(* A run that begins has a new id, and overlaps with those under way.      *)
LEMMA StartExplained ==
  ASSUME WellTyped, NEW n \in Nat, Lock(n), Explained, NEW p \in Procs, Start(p)
  PROVE  Explained'
<1>1. Len(run) \in Nat /\ run \in Seq(Statuses)
  BY LenProperties DEF WellTyped
<1>2. /\ Len(run') = Len(run) + 1 /\ run'[Len(run) + 1] = "RUNNING"
      /\ \A r \in 1..Len(run) : run'[r] = run[r]
  BY <1>1, AppendProperties DEF Start, Statuses
<1>3. /\ step[p] \in Idle /\ step'[p] = "look" /\ mine'[p] = Len(run) + 1
      /\ UNCHANGED <<db, own, next>> /\ own[p] = {}
  BY DEF Start, Goto, WellTyped, Lock, Held, Idle
<1>4. \A q \in Procs \ {p} : /\ step'[q] = step[q] /\ mine'[q] = mine[q] /\ ids'[q] = ids[q]
                             /\ doc'[q] = doc[q] /\ changed'[q] = changed[q]
  BY DEF Start, Goto, WellTyped
<1>5. met \subseteq met' /\ \A q \in Procs : Active(q) => {Len(run) + 1, mine[q]} \in met'
  BY DEF Start
<1>6. \A q \in Procs : step[q] \notin Idle => Active(q) /\ mine[q] \in 1..Len(run)
  BY DEF Active, Idle, WellTyped, Steps, Turns
<1>7. Careful(p)'
  <2>1. \A x \in db : x.run # Len(run) + 1
    BY <1>1 DEF WellTyped, RowIds
  <2> QED
    BY <1>3, <2>1 DEF Careful, Fresh, Compared, Writing, Sourced, Reviewed, Blamed, Numbered, Of
<1>8. ASSUME NEW q \in Procs \ {p} PROVE Careful(q)'
  BY <1>1, <1>2, <1>3, <1>4, <1>5, OthersCareful DEF Explained
<1>9. Paired'
  <2>1. ASSUME NEW q \in Procs \ {p}, step[q] \notin Idle
        PROVE  Overlap(mine[p], mine[q])' /\ Overlap(mine[q], mine[p])'
    <3>1. mine'[q] = mine[q] /\ mine[q] \in 1..Len(run) /\ mine'[p] = Len(run) + 1
      BY <1>3, <1>4, <1>6, <2>1
    <3>2. mine'[p] # mine'[q]
      BY <1>1, <3>1
    <3>3. {mine'[p], mine'[q]} \in met'
      BY <1>5, <1>6, <2>1, <3>1
    <3>4. {mine'[q], mine'[p]} = {mine'[p], mine'[q]}
      OBVIOUS
    <3> QED
      BY <3>2, <3>3, <3>4 DEF Overlap
  <2>2. ASSUME NEW q \in Procs \ {p}, NEW r \in Procs \ {p}, q # r,
               step[q] \notin Idle, step[r] \notin Idle
        PROVE  Overlap(mine[q], mine[r])'
    BY <1>4, <1>5, <2>2 DEF Explained, Paired, Overlap
  <2> QED
    BY <1>4, <2>1, <2>2 DEF Paired
<1>10. OnlyRacesHarm'
  <2>1. \A r \in 1..Len(run') : run'[r] = "FAILED" => r \in 1..Len(run) /\ run[r] = "FAILED"
    BY <1>1, <1>2
  <2> QED
    BY <1>1, <1>2, <1>3, <1>5, <2>1, HarmKept DEF Explained
<1> QED
  BY <1>7, <1>8, <1>9, <1>10 DEF Explained

(* A lookup of the source that fails has seen no committed source with the *)
(* same digest.                                                            *)
LEMMA LookExplained ==
  ASSUME WellTyped, NEW n \in Nat, Lock(n), Explained, NEW p \in Procs, Look(p)
  PROVE  Explained'
<1>1. /\ step[p] \in Turns /\ step[p] \notin Idle /\ step[p] = "look"
      /\ UNCHANGED <<db, own, run, mine, doc, changed, next, met>>
  BY DEF Look, Turns, Idle
<1>2. \A q \in Procs \ {p} : step'[q] = step[q] /\ ids'[q] = ids[q]
  BY DEF Look, Resolve, Goto, WellTyped
<1>3. Careful(p)
  BY DEF Explained
<1>4. Fresh(p)'
  BY <1>1, <1>3 DEF Careful, Fresh
<1>5. step'[p] \notin {"raise", "insert"}
  BY DEF Look, Resolve, Goto, WellTyped
<1>6. Blamed(p)' /\ Numbered(p)'
  BY <1>5 DEF Blamed, Numbered
<1>7. ASSUME NEW r \in Chosen(p), r.table = "source", Goto(p, "finish"), UNCHANGED ids
      PROVE  Careful(p)'
  <2>1. r.table = Wanted(p).table
    BY DEF Chosen, Matching, Of
  <2>2. own[p] = {} /\ step'[p] = "finish"
    BY <1>1, <1>7, <2>1, SourceFirst DEF Lock, Held, Goto, WellTyped
  <2>3. Compared(p)' /\ Sourced(p)' /\ Reviewed(p)'
    BY <1>1, <2>2 DEF Compared, Writing, Sourced, Reviewed, Of
  <2> QED
    BY <1>4, <1>6, <2>3 DEF Careful
<1>8. ASSUME NEW r \in Chosen(p), r.table # "source", Resolve(p, r.id, Script(p))
      PROVE  Careful(p)'
  <2>1. r \in Matching(p) /\ r.table = Wanted(p).table /\ r.id \in Nat
    BY DEF Chosen, Matching, Of, Visible, WellTyped, RowIds
  <2>2. ids[p] # <<>> /\ own[p] # {}
    BY <1>1, <1>8, <2>1, SourceFirst DEF Lock, Held
  <2>3. ids[p] \in Seq(Nat) /\ Len(ids[p]) \in Nat
    BY LenProperties DEF WellTyped
  <2>4. ids'[p] = Append(ids[p], r.id)
    BY <1>8 DEF Resolve, WellTyped
  <2>5. ids'[p] # <<>> /\ ids'[p][1] = ids[p][1]
    <3>1. Len(ids[p]) # 0
      BY <2>2, <2>3, EmptySeq
    <3> QED
      BY <2>1, <2>3, <2>4, <3>1, AppendProperties
  <2>6. step'[p] = IF Len(ids[p]) + 1 = Len(Script(p)) THEN "finish" ELSE "look"
    BY <1>8 DEF Resolve, Goto, WellTyped
  <2>7. Compared(p)'
    BY <1>1, <1>3, <2>2, <2>6 DEF Careful, Compared, Writing, Overlap, Differs, Flagged, Of
  <2>8. Sourced(p)'
    BY <1>1, <1>3, <2>5 DEF Careful, Sourced, Of
  <2>9. Reviewed(p)'
    <3>1. SUFFICES ASSUME step'[p] = "finish", changed[p]
                   PROVE  \E x \in Of(Visible(p), "review") : x.key.refs = <<ids[p][1]>>
      BY <1>1, <2>5 DEF Reviewed, Visible
    <3>2. Len(ids[p]) + 1 = Len(Script(p))
      BY <2>6, <3>1
    <3>3. Wanted(p).table = "review" /\ Key(p).refs = <<ids[p][1]>>
      BY <1>1, <3>1, <3>2, Reviewing
    <3>4. r \in Of(Visible(p), "review") /\ r.key = Key(p)
      BY <2>1, <3>3 DEF Matching, Of
    <3> QED
      BY <3>3, <3>4
  <2> QED
    BY <1>4, <1>6, <2>7, <2>8, <2>9 DEF Careful
<1>9. ASSUME Chosen(p) = {}, UNCHANGED ids,
             Goto(p, IF Wanted(p).table = "source" THEN "compare" ELSE "number")
      PROVE  Careful(p)'
  <2>1. step'[p] = IF Wanted(p).table = "source" THEN "compare" ELSE "number"
    BY <1>9 DEF Goto, WellTyped
  <2>2. Sourced(p)' /\ Reviewed(p)'
    BY <1>1, <1>3, <1>9, <2>1 DEF Careful, Sourced, Reviewed, Of
  <2>3. step'[p] = "number" => ids[p] # <<>>
    BY <1>1, <2>1, SourceFirst
  <2>4. step'[p] = "compare" => \A x \in Of(db, "source") : Differs(x, p)
    <3>1. SUFFICES ASSUME Wanted(p).table = "source", NEW x \in Of(db, "source")
                   PROVE  Differs(x, p)
      BY <2>1
    <3>2. x \notin Matching(p)
      BY <1>9, <3>1 DEF Chosen
    <3> QED
      BY <3>1, <3>2 DEF Matching, Of, Visible, Differs
  <2>5. Compared(p)'
    <3>1. Writing(p)' => Writing(p)
      BY <1>1, <1>9, <2>1, <2>3 DEF Writing
    <3>2. Writing(p)' => \A x \in Of(db, "source") :
                           Overlap(x.run, mine[p]) \/ (Differs(x, p) /\ Flagged(x, p))
      BY <1>3, <3>1 DEF Careful, Compared
    <3> QED
      BY <1>1, <2>4, <3>2 DEF Compared, Overlap, Differs, Flagged
  <2> QED
    BY <1>4, <1>6, <2>2, <2>5 DEF Careful
<1>10. Careful(p)'
  BY <1>7, <1>8, <1>9 DEF Look
<1> QED
  BY <1>1, <1>2, <1>10, MoveExplained

(* A committed source of the same URL makes the new one SOURCE_CHANGED.    *)
LEMMA CompareExplained ==
  ASSUME WellTyped, NEW n \in Nat, Lock(n), Explained, NEW p \in Procs, Compare(p)
  PROVE  Explained'
<1>1. /\ step[p] = "compare" /\ step'[p] = "number" /\ step[p] \notin Idle
      /\ UNCHANGED <<db, own, run, mine, doc, ids, next, met>>
      /\ changed'[p] = (Prior(p) # {})
  BY DEF Compare, Goto, WellTyped, Idle
<1>2. \A q \in Procs \ {p} : step'[q] = step[q] /\ changed'[q] = changed[q]
  BY DEF Compare, Goto, WellTyped
<1>3. ids[p] = <<>> /\ own[p] = {}
  BY <1>1 DEF WellTyped, Lock, Held
<1>4. Careful(p)
  BY DEF Explained
<1>5. \A x \in Of(db, "source") : x.key.name.url = doc[p].url => changed'[p]
  <2>1. SUFFICES ASSUME NEW x \in Of(db, "source"), x.key.name.url = doc[p].url
                 PROVE  Prior(p) # {}
    BY <1>1
  <2>2. x \in Prior(p)
    BY <2>1 DEF Prior, Of, Visible
  <2> QED
    BY <2>2
<1>6. \A x \in Of(db, "source") : Overlap(x.run, mine[p]) \/ Differs(x, p)
  BY <1>1, <1>4 DEF Careful, Compared
<1>7. Compared(p)'
  BY <1>1, <1>5, <1>6 DEF Compared, Overlap, Differs, Flagged
<1>8. Fresh(p)' /\ Sourced(p)' /\ Reviewed(p)' /\ Blamed(p)' /\ Numbered(p)'
  BY <1>1, <1>3, <1>4 DEF Careful, Fresh, Sourced, Reviewed, Blamed, Numbered, Of
<1> QED
  BY <1>1, <1>2, <1>7, <1>8, MoveExplained DEF Careful

LEMMA NumberExplained ==
  ASSUME WellTyped, Bounded, Explained, NEW p \in Procs, Number(p)
  PROVE  Explained'
<1>1. /\ step[p] = "number" /\ step'[p] = "insert" /\ step[p] \notin Idle
      /\ UNCHANGED <<db, own, run, mine, doc, changed, ids, met>> /\ next'[p] = NextId(p)
  BY DEF Number, Goto, WellTyped, Idle
<1>2. \A q \in Procs \ {p} : step'[q] = step[q] /\ next'[q] = next[q]
  BY DEF Number, Goto, WellTyped
<1>3. Careful(p)
  BY DEF Explained
<1>4. Compared(p)'
  BY <1>1, <1>3 DEF Careful, Compared, Writing, Overlap, Differs, Flagged
<1>5. Fresh(p)' /\ Sourced(p)' /\ Reviewed(p)' /\ Blamed(p)'
  BY <1>1, <1>3 DEF Careful, Fresh, Sourced, Reviewed, Blamed, Of
<1>6. Numbered(p)'
  <2>1. Wanted(p)' = Wanted(p) /\ Visible(p)' = Visible(p)
    BY <1>1, SameWanted DEF Visible
  <2>2. \A r \in Of(Visible(p), Wanted(p).table) : r.id < next'[p]
    BY <1>1, Choosing
  <2> QED
    BY <2>1, <2>2 DEF Numbered, Of
<1> QED
  BY <1>1, <1>2, <1>4, <1>5, <1>6, MoveExplained DEF Careful

LEMMA InsertExplained ==
  ASSUME WellTyped, NEW n \in Nat, Lock(n), Explained, NEW p \in Procs, Insert(p)
  PROVE  Explained'
<1> DEFINE row == [table |-> Wanted(p).table, id |-> next[p], key |-> Key(p), run |-> mine[p]]
<1>1. /\ step[p] = "insert" /\ step[p] \in Turns /\ step[p] \notin Idle
      /\ UNCHANGED <<db, run, mine, doc, changed, next, met>>
  BY DEF Insert, Turns, Idle
<1>2. own'[p] = own[p] \cup {row} /\ \A q \in Procs \ {p} : own'[q] = own[q]
  <2>1. own' = [own EXCEPT ![p] = @ \cup {row}] /\ own = [q \in Procs |-> own[q]]
    BY DEF Insert, WellTyped
  <2> QED
    BY <2>1
<1>3. ids'[p] = Append(ids[p], next[p]) /\ \A q \in Procs \ {p} : ids'[q] = ids[q]
  BY DEF Insert, Resolve, WellTyped
<1>4. /\ step'[p] = IF Len(ids[p]) + 1 = Len(Script(p)) THEN "finish" ELSE "look"
      /\ \A q \in Procs \ {p} : step'[q] = step[q]
  BY DEF Insert, Resolve, Goto, WellTyped
<1>5. ids[p] \in Seq(Nat) /\ Len(ids[p]) \in Nat /\ next[p] \in Nat
  BY LenProperties DEF WellTyped
<1>6. Careful(p) /\ Writing(p)
  BY <1>1 DEF Explained, Writing, Lock, Held
<1>7. Fresh(p)'
  <2>1. row.run = mine[p]
    OBVIOUS
  <2> HIDE DEF row
  <2> QED
    BY <1>1, <1>2, <1>6, <2>1 DEF Careful, Fresh
<1>8. Compared(p)'
  BY <1>1, <1>4, <1>6 DEF Careful, Compared, Overlap, Differs, Flagged
<1>9. Sourced(p)'
  <2>1. CASE ids[p] = <<>>
    <3>1. own[p] = {} /\ row.key.name = doc[p]
      BY <1>1, <2>1, SourceFirst DEF Lock, Held, Key
    <3>2. ids'[p][1] = next[p]
      BY <1>3, <1>5, <2>1, AppendProperties
    <3>3. own'[p] = {row} /\ row.id = next[p]
      BY <1>2, <3>1
    <3> HIDE DEF row
    <3> QED
      BY <1>1, <3>1, <3>2, <3>3 DEF Sourced, Of
  <2>2. CASE ids[p] # <<>>
    <3>1. Len(ids[p]) # 0
      BY <1>5, <2>2, EmptySeq
    <3>2. ids'[p][1] = ids[p][1]
      BY <1>3, <1>5, <3>1, AppendProperties
    <3>3. row.table # "source"
      BY <1>1, <2>2, SourceFirst
    <3> HIDE DEF row
    <3> QED
      BY <1>1, <1>2, <1>6, <3>2, <3>3 DEF Careful, Sourced, Of
  <2> QED
    BY <2>1, <2>2
<1>10. Reviewed(p)'
  <2>1. SUFFICES ASSUME step'[p] = "finish", changed[p]
                 PROVE  \E r \in Of(own'[p], "review") : r.key.refs = <<ids'[p][1]>>
    BY <1>1 DEF Reviewed, Of, Visible
  <2>2. Len(ids[p]) + 1 = Len(Script(p))
    BY <1>4, <2>1
  <2>3. ids[p] # <<>> /\ row.table = "review" /\ row.key.refs = <<ids[p][1]>>
    BY <1>1, <2>1, <2>2, Reviewing
  <2>4. Len(ids[p]) # 0
    BY <1>5, <2>3, EmptySeq
  <2>5. ids'[p][1] = ids[p][1]
    BY <1>3, <1>5, <2>4, AppendProperties
  <2>6. row \in own'[p]
    BY <1>2
  <2> HIDE DEF row
  <2> QED
    BY <2>3, <2>5, <2>6 DEF Of
<1>11. Blamed(p)' /\ Numbered(p)'
  BY <1>4 DEF Blamed, Numbered
<1>12. Careful(p)'
  BY <1>7, <1>8, <1>9, <1>10, <1>11 DEF Careful
<1>13. ASSUME NEW q \in Procs \ {p} PROVE Careful(q)'
  <2>1. Len(run) \in Nat
    BY LenProperties DEF WellTyped
  <2> QED
    BY <1>1, <1>2, <1>3, <1>4, <2>1, OthersCareful DEF Explained
<1>14. Paired'
  BY <1>1, <1>4 DEF Explained, Paired, Overlap
<1>15. OnlyRacesHarm'
  BY <1>1 DEF Explained, OnlyRacesHarm, Of
<1> QED
  BY <1>12, <1>13, <1>14, <1>15 DEF Explained

(* An insert collides only with a committed source of an overlapping run:  *)
(* the other rows' ids and keys are this transaction's to choose.          *)
LEMMA CollideExplained ==
  ASSUME WellTyped, NEW n \in Nat, Lock(n), Keyed, Explained, NEW p \in Procs, Collide(p)
  PROVE  Explained'
<1>1. /\ step[p] = "insert" /\ step[p] \in Turns /\ step[p] \notin Idle /\ step'[p] = "raise"
      /\ UNCHANGED <<db, own, run, mine, doc, changed, ids, next, met>>
      /\ \A q \in Procs \ {p} : step'[q] = step[q]
  BY DEF Collide, Goto, WellTyped, Turns, Idle, local
<1>2. Careful(p) /\ Absent(p)
  BY DEF Explained, Keyed
<1>3. PICK x \in Of(Visible(p), Wanted(p).table) :
        x.id = next[p] \/ (x.table \in UniqueTables /\ x.key = Key(p))
  BY DEF Collide, Colliding
<1>4. x.id \in Nat /\ next[p] \in Nat /\ x.run \in 1..Len(run)
  BY DEF WellTyped, RowIds, Of, Visible
<1>5. Overlap(x.run, mine[p])
  <2>1. CASE x.id = next[p]
    BY <1>1, <1>2, <1>3, <1>4, <2>1 DEF Careful, Numbered
  <2>2. CASE x.key = Key(p)
    <3>1. ids[p] = <<>>
      BY <1>1, <1>2, <1>3, <2>2 DEF Absent
    <3>2. own[p] = {} /\ Writing(p) /\ Wanted(p).table = "source"
      BY <1>1, <3>1, SourceFirst DEF Lock, Held, Writing
    <3>3. x.key.name = doc[p]
      BY <1>1, <2>2, <3>1, SourceFirst DEF Key
    <3>4. x \in Of(db, "source")
      BY <1>3, <3>2 DEF Of, Visible
    <3> QED
      BY <1>2, <3>2, <3>3, <3>4 DEF Careful, Compared, Differs
  <2> QED
    BY <1>3, <2>1, <2>2
<1>6. Blamed(p)'
  BY <1>1, <1>4, <1>5 DEF Blamed, Overlap
<1>7. Fresh(p)' /\ Sourced(p)' /\ Reviewed(p)' /\ Numbered(p)'
  BY <1>1, <1>2 DEF Careful, Fresh, Sourced, Reviewed, Numbered, Of
<1>8. Compared(p)'
  BY <1>1, <1>2 DEF Careful, Compared, Writing, Overlap, Differs, Flagged
<1> QED
  BY <1>1, <1>6, <1>7, <1>8, MoveExplained DEF Careful

(* The end of a transaction, apart from what it may have done to the       *)
(* history of sources and runs.                                            *)
LEMMA EndExplained ==
  ASSUME WellTyped, NEW n \in Nat, Lock(n), Explained, NEW p \in Procs, Goto(p, "idle"),
         own' = [own EXCEPT ![p] = {}], db' = db \/ db' = db \cup own[p], Len(run') = Len(run),
         UNCHANGED <<mine, doc, changed, ids, next, met>>, OnlyRacesHarm'
  PROVE  Explained'
<1>1. own'[p] = {} /\ \A q \in Procs \ {p} : own'[q] = own[q]
  BY LetGo
<1>2. step'[p] = "idle" /\ step'[p] \in Idle /\ \A q \in Procs \ {p} : step'[q] = step[q]
  BY DEF WellTyped, Goto, Idle
<1>3. Careful(p)'
  BY <1>1, <1>2, IdleCareful
<1>4. ASSUME NEW q \in Procs \ {p} PROVE Careful(q)'
  <2>1. CASE db' = db
    <3>1. Len(run) \in Nat
      BY LenProperties DEF WellTyped
    <3> QED
      BY <1>1, <1>2, <2>1, <3>1, OthersCareful DEF Explained
  <2>2. CASE db' = db \cup own[p] /\ own[p] # {}
    BY <1>1, <1>2, <2>2, CommitCareful
  <2> QED
    BY <2>1, <2>2
<1>5. Paired'
  BY <1>2 DEF Explained, Paired, Overlap
<1> QED
  BY <1>3, <1>4, <1>5 DEF Explained

LEMMA CrashExplained ==
  ASSUME WellTyped, NEW n \in Nat, Lock(n), Explained, NEW p \in Procs, Crash(p)
  PROVE  Explained'
<1>1. OnlyRacesHarm'
  BY DEF Crash, Explained, OnlyRacesHarm, Of
<1> QED
  BY <1>1, EndExplained DEF Crash, local

(* A run fails for a collision, and so for a run that overlapped with it.  *)
LEMMA FailRunExplained ==
  ASSUME WellTyped, NEW n \in Nat, Lock(n), Explained, NEW p \in Procs, FailRun(p)
  PROVE  Explained'
<1>1. /\ step[p] = "raise" /\ run' = [run EXCEPT ![mine[p]] = "FAILED"]
      /\ UNCHANGED <<db, mine, doc, changed, ids, next, met>>
  BY DEF FailRun, Close, local
<1>2. mine[p] \in 1..Len(run) /\ run \in Seq(Statuses) /\ "FAILED" \in Statuses
  BY <1>1 DEF WellTyped, Idle, Statuses
<1>3. Len(run') = Len(run) /\ \A r \in 1..Len(run) : r # mine[p] => run'[r] = run[r]
  BY <1>1, <1>2, ExceptSeq
<1>4. \E s \in 1..Len(run) : Overlap(s, mine[p])
  BY <1>1 DEF Explained, Careful, Blamed
<1>5. ASSUME NEW r \in 1..Len(run'), run'[r] = "FAILED"
      PROVE  \E s \in 1..Len(run') : s # r /\ {r, s} \in met
  <2>1. CASE r = mine[p]
    BY <1>3, <1>4, <2>1 DEF Overlap
  <2>2. CASE r # mine[p]
    BY <1>3, <1>5, <2>2 DEF Explained, OnlyRacesHarm
  <2> QED
    BY <2>1, <2>2
<1>6. OnlyRacesHarm'
  BY <1>1, <1>5 DEF Explained, OnlyRacesHarm, Of
<1> QED
  BY <1>1, <1>3, <1>6, EndExplained DEF FailRun, Close

LEMMA FinishRunExplained ==
  ASSUME WellTyped, NEW n \in Nat, Lock(n), Explained, NEW p \in Procs, FinishRun(p)
  PROVE  Explained'
<1>1. /\ step[p] = "finish" /\ run' = [run EXCEPT ![mine[p]] = "SUCCESS"]
      /\ db' = db \cup own[p] /\ UNCHANGED <<mine, doc, changed, ids, next, met>>
  BY DEF FinishRun, Close, local
<1>2. mine[p] \in 1..Len(run) /\ run \in Seq(Statuses) /\ "SUCCESS" \in Statuses
  BY <1>1 DEF WellTyped, Idle, Statuses
<1>3. /\ Len(run') = Len(run) /\ run'[mine[p]] = "SUCCESS"
      /\ \A r \in 1..Len(run) : r # mine[p] => run'[r] = run[r]
  BY <1>1, <1>2, ExceptSeq
<1>4. \A r \in 1..Len(run') : run'[r] = "FAILED" => \E s \in 1..Len(run') : s # r /\ {r, s} \in met
  BY <1>3 DEF Explained, OnlyRacesHarm
<1>5. Careful(p)
  BY DEF Explained
<1>6. ASSUME NEW x \in Of(db', "source"), NEW y \in Of(db', "source"), x.id < y.id
      PROVE  \/ {x.run, y.run} \in met
             \/ /\ x.key.name.sha # y.key.name.sha
                /\ x.key.name.url = y.key.name.url =>
                     \E r \in Of(db', "review") : r.key.refs = <<y.id>>
  <2>1. CASE x \in db /\ y \in db
    <3>1. Of(db, "review") \subseteq Of(db', "review")
      BY <1>1 DEF Of
    <3> QED
      BY <1>6, <2>1, <3>1 DEF Explained, OnlyRacesHarm, Of
  <2>2. \A z \in Of(db, "source") : z.id \in 1..n
    BY DEF Lock, SourceIds
  <2>3. \A z \in Of(own[p], "source") : z.id = n + 1
    BY DEF Lock, Held, SourceIds, Of
  <2>4. x \in Of(db, "source") \cup Of(own[p], "source") /\ y \in Of(db, "source") \cup Of(own[p], "source")
    BY <1>1 DEF Of
  <2>5. CASE x \in Of(db, "source") /\ y \in Of(own[p], "source")
    <3>1. own[p] # {} /\ Writing(p) /\ y.run = mine[p] /\ y.key.name = doc[p] /\ y.id = ids[p][1]
      BY <1>5, <2>5 DEF Careful, Fresh, Sourced, Writing, Of
    <3>2. {x.run, mine[p]} \in met \/ (Differs(x, p) /\ Flagged(x, p))
      BY <1>5, <2>5, <3>1 DEF Careful, Compared, Overlap
    <3>3. changed[p] => \E r \in Of(db', "review") : r.key.refs = <<y.id>>
      <4>1. Visible(p) = db'
        BY <1>1 DEF Visible
      <4> QED
        BY <1>1, <1>5, <3>1, <4>1 DEF Careful, Reviewed
    <3> QED
      BY <3>1, <3>2, <3>3 DEF Differs, Flagged
  <2>6. ~(x \in Of(own[p], "source"))
    <3>1. SUFFICES ASSUME x \in Of(own[p], "source") PROVE FALSE
      OBVIOUS
    <3>2. x.id = n + 1 /\ y.id \in 1..(n + 1)
      BY <2>2, <2>3, <2>4, <3>1
    <3> QED
      BY <1>6, <3>2
  <2> QED
    BY <2>1, <2>4, <2>5, <2>6 DEF Of
<1>7. OnlyRacesHarm'
  <2>1. \A x, y \in Of(db', "source") : x.id < y.id =>
          \/ {x.run, y.run} \in met
          \/ /\ x.key.name.sha # y.key.name.sha
             /\ x.key.name.url = y.key.name.url =>
                  \E r \in Of(db', "review") : r.key.refs = <<y.id>>
    BY <1>6
  <2>2. met' = met
    BY <1>1
  <2> QED
    BY <1>4, <2>1, <2>2, Zenon DEF OnlyRacesHarm
<1> QED
  BY <1>1, <1>3, <1>7, EndExplained DEF FinishRun, Close

LEMMA StepExplained ==
  ASSUME Safe, Keyed, Explained, NEW p \in Procs, Enrol(p) \/ Proceed(p) \/ Crash(p)
  PROVE  Explained'
<1>1. PICK n \in Nat : Lock(n)
  BY DEF Safe, Locked
<1> QED
  BY <1>1, EnrolExplained, StartExplained, LoseStartExplained, LookExplained, CompareExplained,
     NumberExplained, InsertExplained, CollideExplained, FinishRunExplained, FailRunExplained,
     CrashExplained DEF Safe, Proceed

LEMMA StutterExplained ==
  ASSUME Safe, Explained, UNCHANGED vars
  PROVE  Explained'
<1>1. Len(run) \in Nat
  BY LenProperties DEF Safe, WellTyped
<1>2. \A q \in Procs : Careful(q)'
  BY <1>1, OthersCareful DEF Safe, Explained, vars, local
<1>3. Paired' /\ OnlyRacesHarm'
  BY DEF Explained, Paired, Overlap, OnlyRacesHarm, Of, vars, local
<1> QED
  BY <1>2, <1>3 DEF Explained

(* What processes know of each other's sources is so in every reachable    *)
(* state.                                                                  *)
THEOREM ExplainedInvariant == Spec => []Explained
<1>1. Init => Explained
  BY InitExplained
<1>2. Safe /\ Keyed /\ Explained /\ [Next]_vars => Explained'
  <2>1. SUFFICES ASSUME Safe, Keyed, Explained, [Next]_vars PROVE Explained'
    OBVIOUS
  <2>2. CASE UNCHANGED vars
    BY <2>1, <2>2, StutterExplained
  <2>3. CASE Next
    BY <2>1, <2>3, StepExplained DEF Next
  <2> QED
    BY <2>1, <2>2, <2>3
<1> QED
  BY <1>1, <1>2, SafeInvariant, KeyedInvariant, PTL DEF Spec

(* A source that is entered twice, new bytes of a URL that escape review,  *)
(* and a run that fails for an id it chose: each takes two runs that       *)
(* overlapped, however many processes there are.                           *)
THEOREM OnlyRaces == Spec => []OnlyRacesHarm
<1>1. Explained => OnlyRacesHarm
  BY DEF Explained
<1> QED
  BY <1>1, ExplainedInvariant, PTL

-----------------------------------------------------------------------------
(* Why a commit enters one whole document: a process with rows of its own  *)
(* has come to a row for each line it has resolved, has no other rows, and *)
(* none of them repeats an id or a key; and only a source whose URL is     *)
(* committed is SOURCE_CHANGED.                                            *)
Came(old, new, script, is) ==
  \A i \in 1..Len(is) :
    \E r \in old \cup new : r.id = is[i] /\ (i = 1 => r \in new) /\ Serial!Bears(r, script[i], is)
Backed(new, script, is) == \A r \in new : \E i \in 1..Len(is) : Serial!Bears(r, script[i], is)
Apart(old, new) ==
  \A r \in new : \A x \in (old \cup new) \ {r} : x.table = r.table =>
    /\ x.id # r.id /\ (x \in old => x.id < r.id)
    /\ x.key = r.key => r.table = "source"
Entered(p) ==
  own[p] # {} =>
    /\ Came(db, own[p], Script(p), ids[p])
    /\ Backed(own[p], Script(p), ids[p])
    /\ Apart(db, own[p])
    /\ step[p] = "finish" => Len(ids[p]) = Len(Script(p))
Known(p) == changed[p] => \E x \in db : x.table = "source" /\ x.key.name.url = doc[p].url
Whole == \A p \in Procs : Entered(p) /\ Known(p)

(* A line of a script refers to earlier lines of it.                       *)
LEMMA RefersBack ==
  ASSUME NEW p \in Procs, doc[p] \in Docs, changed[p] \in BOOLEAN, NEW i \in 1..Len(Script(p)),
         NEW k \in 1..Len(Script(p)[i].refs)
  PROVE  Script(p)[i].refs[k] \in 1..(i - 1)
<1>1. Rows[doc[p]][1].refs = <<>>
  <2>1. Rows[doc[p]][1] = [table |-> "source", name |-> doc[p], refs |-> <<>>]
    BY RowsAssumption
  <2> QED
    BY <2>1
<1>2. CASE changed[p]
  <2>1. Script(p) = <<Rows[doc[p]][1], ReviewRow>>
    BY <1>2 DEF Script
  <2>2. Script(p)[1] = Rows[doc[p]][1] /\ Script(p)[2] = ReviewRow /\ Len(Script(p)) = 2
    BY <2>1
  <2>3. CASE i = 1
    BY <1>1, <2>2, <2>3
  <2>4. CASE i = 2
    BY <2>2, <2>4 DEF ReviewRow
  <2> QED
    BY <2>2, <2>3, <2>4
<1>3. CASE ~changed[p]
  <2>1. Script(p) = Rows[doc[p]]
    BY <1>3 DEF Script
  <2>2. CASE i = 1
    BY <1>1, <2>1, <2>2
  <2>3. CASE i # 1
    <3>1. i \in 2..Len(Rows[doc[p]])
      BY <2>1, <2>3, RowsAssumption
    <3> QED
      BY <2>1, <3>1, RowsAssumption
  <2> QED
    BY <2>2, <2>3
<1> QED
  BY <1>2, <1>3

(* So an id that is added tells nothing new of the earlier lines.          *)
LEMMA BearsStill ==
  ASSUME NEW is \in Seq(Nat), NEW id \in Nat, NEW line, NEW r, Serial!Bears(r, line, is),
         \A k \in 1..Len(line.refs) : line.refs[k] \in 1..Len(is)
  PROVE  Serial!Bears(r, line, Append(is, id))
<1>1. \A j \in 1..Len(is) : Append(is, id)[j] = is[j]
  BY AppendProperties
<1>2. [k \in 1..Len(line.refs) |-> Append(is, id)[line.refs[k]]]
        = [k \in 1..Len(line.refs) |-> is[line.refs[k]]]
  BY <1>1
<1> QED
  BY <1>2 DEF Serial!Bears

(* The line that is wanted next refers to the ids that there are.          *)
LEMMA LastBears ==
  ASSUME WellTyped, NEW p \in Procs, step[p] \in Turns, NEW id \in Nat, NEW r,
         Serial!Bears(r, Wanted(p), ids[p])
  PROVE  Serial!Bears(r, Script(p)[Len(ids[p]) + 1], Append(ids[p], id))
<1> DEFINE l == Len(ids[p])
<1>1. ids[p] \in Seq(Nat) /\ l \in Nat /\ l < Len(Script(p)) /\ Len(Script(p)) \in Nat
  BY LenProperties, Scripted DEF WellTyped
<1>2. l + 1 \in 1..Len(Script(p)) /\ (l + 1) - 1 = l
  BY <1>1
<1>3. \A k \in 1..Len(Script(p)[l + 1].refs) : Script(p)[l + 1].refs[k] \in 1..l
  BY <1>2, RefersBack DEF WellTyped
<1> QED
  BY <1>1, <1>3, BearsStill DEF Wanted

(* One more line is resolved, to a row that was there or to a new one.     *)
LEMMA OneMoreLine ==
  ASSUME WellTyped, NEW p \in Procs, step[p] \in Turns, NEW old, NEW new, NEW more,
         new \subseteq more, NEW r \in old \cup more, r.id \in Nat,
         Serial!Bears(r, Wanted(p), ids[p]), ids[p] = <<>> => r \in more,
         ids[p] # <<>> => Came(old, new, Script(p), ids[p])
  PROVE  Came(old, more, Script(p), Append(ids[p], r.id))
<1> DEFINE l == Len(ids[p])
           more_ids == Append(ids[p], r.id)
<1>1. ids[p] \in Seq(Nat) /\ l \in Nat /\ l < Len(Script(p)) /\ Len(Script(p)) \in Nat
  BY LenProperties, Scripted DEF WellTyped
<1>2. Len(more_ids) = l + 1 /\ more_ids[l + 1] = r.id /\ \A i \in 1..l : more_ids[i] = ids[p][i]
  BY <1>1, AppendProperties
<1>3. \A i \in 1..l : \A k \in 1..Len(Script(p)[i].refs) : Script(p)[i].refs[k] \in 1..l
  <2>1. ASSUME NEW i \in 1..l, NEW k \in 1..Len(Script(p)[i].refs)
        PROVE  Script(p)[i].refs[k] \in 1..l
    <3>1. i \in 1..Len(Script(p))
      BY <1>1
    <3>2. Script(p)[i].refs[k] \in 1..(i - 1)
      BY <3>1, RefersBack DEF WellTyped
    <3>3. 1..(i - 1) \subseteq 1..l
      BY <1>1
    <3> QED
      BY <3>2, <3>3
  <2> QED
    BY <2>1
<1>4. ASSUME NEW i \in 1..(l + 1)
      PROVE  \E x \in old \cup more : /\ x.id = more_ids[i] /\ (i = 1 => x \in more)
                                      /\ Serial!Bears(x, Script(p)[i], more_ids)
  <2>1. CASE i = l + 1
    <3>1. Serial!Bears(r, Script(p)[i], more_ids)
      BY <2>1, LastBears
    <3>2. i = 1 => r \in more
      BY <1>1, <2>1, EmptySeq
    <3> QED
      BY <1>2, <2>1, <3>1, <3>2
  <2>2. CASE i # l + 1
    <3>1. i \in 1..l
      BY <1>1, <2>2
    <3>2. ids[p] # <<>>
      BY <1>1, <3>1, EmptySeq
    <3>3. PICK x \in old \cup new : /\ x.id = ids[p][i] /\ (i = 1 => x \in new)
                                    /\ Serial!Bears(x, Script(p)[i], ids[p])
      BY <3>1, <3>2 DEF Came
    <3>4. Serial!Bears(x, Script(p)[i], more_ids)
      BY <1>1, <1>3, <3>1, <3>3, BearsStill
    <3> QED
      BY <1>2, <3>1, <3>3, <3>4
  <2> QED
    BY <2>1, <2>2
<1> QED
  BY <1>2, <1>4 DEF Came

(* And the rows of its own still stand for its lines.                      *)
LEMMA StillBacked ==
  ASSUME WellTyped, NEW p \in Procs, step[p] \in Turns, NEW id \in Nat, NEW new,
         Backed(new, Script(p), ids[p])
  PROVE  Backed(new, Script(p), Append(ids[p], id))
<1> DEFINE l == Len(ids[p])
<1>1. ids[p] \in Seq(Nat) /\ l \in Nat /\ l < Len(Script(p)) /\ Len(Script(p)) \in Nat
  BY LenProperties, Scripted DEF WellTyped
<1>2. Len(Append(ids[p], id)) = l + 1
  BY <1>1, AppendProperties
<1>3. ASSUME NEW r \in new
      PROVE  \E i \in 1..(l + 1) : Serial!Bears(r, Script(p)[i], Append(ids[p], id))
  <2>1. PICK i \in 1..l : Serial!Bears(r, Script(p)[i], ids[p])
    BY <1>3 DEF Backed
  <2>2. i \in 1..Len(Script(p)) /\ i \in 1..(l + 1) /\ 1..(i - 1) \subseteq 1..l
    BY <1>1
  <2>3. \A k \in 1..Len(Script(p)[i].refs) : Script(p)[i].refs[k] \in 1..l
    BY <2>2, RefersBack DEF WellTyped
  <2>4. Serial!Bears(r, Script(p)[i], Append(ids[p], id))
    BY <1>1, <2>1, <2>3, BearsStill
  <2> QED
    BY <2>2, <2>4
<1> QED
  BY <1>2, <1>3 DEF Backed

(* What is so of a process stays so while others move, since a commit      *)
(* finds them without rows of their own.                                   *)
LEMMA OthersEntered ==
  ASSUME NEW q \in Procs, Entered(q), Known(q), db \subseteq db', own[q] # {} => db' = db,
         step'[q] = step[q], doc'[q] = doc[q], changed'[q] = changed[q], ids'[q] = ids[q],
         own'[q] = own[q]
  PROVE  Entered(q)' /\ Known(q)'
<1>1. Script(q)' = Script(q)
  BY SameScript
<1>2. Known(q)'
  BY DEF Known
<1>3. ASSUME own[q] # {}
      PROVE  /\ Came(db', own'[q], Script(q)', ids'[q]) /\ Backed(own'[q], Script(q)', ids'[q])
             /\ Apart(db', own'[q]) /\ (step'[q] = "finish" => Len(ids'[q]) = Len(Script(q)'))
  BY <1>1, <1>3 DEF Entered
<1> QED
  BY <1>2, <1>3 DEF Entered

(* Steps that leave the tables alone, and the rows of their process.       *)
LEMMA MoveWhole ==
  ASSUME Whole, NEW p \in Procs, UNCHANGED <<db, own>>,
         \A q \in Procs \ {p} : /\ step'[q] = step[q] /\ ids'[q] = ids[q]
                                /\ doc'[q] = doc[q] /\ changed'[q] = changed[q],
         Entered(p)', Known(p)'
  PROVE  Whole'
<1>1. \A q \in Procs \ {p} : Entered(q)' /\ Known(q)'
  BY OthersEntered DEF Whole
<1> QED
  BY <1>1 DEF Whole

LEMMA GotoWhole ==
  ASSUME WellTyped, Whole, NEW p \in Procs, NEW s \in Steps, Goto(p, s),
         s = "finish" => own[p] = {}, UNCHANGED <<db, own, ids, doc, changed>>
  PROVE  Whole'
<1>1. step'[p] = s /\ \A q \in Procs \ {p} : step'[q] = step[q]
  BY DEF WellTyped, Goto
<1>2. Script(p)' = Script(p)
  BY SameScript
<1>3. ASSUME own[p] # {}
      PROVE  /\ Came(db', own'[p], Script(p)', ids'[p]) /\ Backed(own'[p], Script(p)', ids'[p])
             /\ Apart(db', own'[p]) /\ (step'[p] = "finish" => Len(ids'[p]) = Len(Script(p)'))
  BY <1>1, <1>2, <1>3 DEF Whole, Entered
<1>4. Entered(p)' /\ Known(p)'
  BY <1>3 DEF Whole, Entered, Known
<1> QED
  BY <1>1, <1>4, MoveWhole

(* The steps of a process without rows.                                    *)
LEMMA EmptyWhole ==
  ASSUME Whole, NEW p \in Procs, UNCHANGED <<db, own>>, own[p] = {},
         \A q \in Procs \ {p} : /\ step'[q] = step[q] /\ ids'[q] = ids[q]
                                /\ doc'[q] = doc[q] /\ changed'[q] = changed[q],
         Known(p)'
  PROVE  Whole'
<1>1. Entered(p)'
  BY DEF Entered
<1> QED
  BY <1>1, MoveWhole

LEMMA StartWhole ==
  ASSUME WellTyped, NEW n \in Nat, Lock(n), Whole, NEW p \in Procs, Start(p)
  PROVE  Whole'
<1>1. own[p] = {} /\ UNCHANGED <<db, own>> /\ ~changed'[p]
  BY DEF Start, Lock, Held, Idle, WellTyped
<1>2. \A q \in Procs \ {p} : /\ step'[q] = step[q] /\ ids'[q] = ids[q]
                             /\ doc'[q] = doc[q] /\ changed'[q] = changed[q]
  BY DEF Start, Goto, WellTyped
<1> QED
  BY <1>1, <1>2, EmptyWhole DEF Known

LEMMA CompareWhole ==
  ASSUME WellTyped, NEW n \in Nat, Lock(n), Whole, NEW p \in Procs, Compare(p)
  PROVE  Whole'
<1>1. /\ UNCHANGED <<db, own, ids, doc>> /\ step[p] = "compare" /\ changed'[p] = (Prior(p) # {})
      /\ \A q \in Procs \ {p} : step'[q] = step[q] /\ changed'[q] = changed[q]
  BY DEF Compare, Goto, WellTyped
<1>2. own[p] = {}
  BY <1>1 DEF WellTyped, Lock, Held
<1>3. Prior(p) # {} => \E x \in db : x.table = "source" /\ x.key.name.url = doc[p].url
  BY <1>2 DEF Prior, Of, Visible
<1> QED
  BY <1>1, <1>2, <1>3, EmptyWhole DEF Known

(* A lookup that succeeds after the source resolves a line to a row that   *)
(* is there; one that finds the source ends a process without rows.        *)
LEMMA LookWhole ==
  ASSUME WellTyped, NEW n \in Nat, Lock(n), Whole, NEW p \in Procs, Look(p)
  PROVE  Whole'
<1>1. step[p] \in Turns /\ UNCHANGED <<db, own, run, mine, doc, changed, next>>
  BY DEF Look, Turns
<1>2. ASSUME NEW r \in Chosen(p), r.table = "source", Goto(p, "finish"), UNCHANGED ids
      PROVE  Whole'
  <2>1. r.table = Wanted(p).table
    BY DEF Chosen, Matching, Of
  <2>2. own[p] = {}
    BY <1>1, <1>2, <2>1, SourceFirst DEF Lock, Held
  <2> QED
    BY <1>1, <1>2, <2>2, GotoWhole DEF Steps
<1>3. ASSUME Goto(p, IF Wanted(p).table = "source" THEN "compare" ELSE "number"), UNCHANGED ids
      PROVE  Whole'
  BY <1>1, <1>3, GotoWhole DEF Steps, Turns
<1>4. ASSUME NEW r \in Chosen(p), r.table # "source", Resolve(p, r.id, Script(p))
      PROVE  Whole'
  <2>1. r \in Matching(p) /\ r.table = Wanted(p).table /\ r.id \in Nat
    BY DEF Chosen, Matching, Of, Visible, WellTyped, RowIds
  <2>2. ids[p] # <<>> /\ own[p] # {}
    BY <1>1, <1>4, <2>1, SourceFirst DEF Lock, Held
  <2>3. Serial!Bears(r, Wanted(p), ids[p]) /\ r \in db \cup own[p]
    BY <1>4, <2>1 DEF Serial!Bears, Matching, Of, Visible, Key
  <2>4. ids'[p] = Append(ids[p], r.id) /\ \A q \in Procs \ {p} : ids'[q] = ids[q]
    BY <1>4 DEF Resolve, WellTyped
  <2>5. /\ step'[p] = IF Len(ids[p]) + 1 = Len(Script(p)) THEN "finish" ELSE "look"
        /\ \A q \in Procs \ {p} : step'[q] = step[q]
    BY <1>4 DEF Resolve, Goto, WellTyped
  <2>6. ids[p] \in Seq(Nat) /\ Len(ids'[p]) = Len(ids[p]) + 1
    BY <2>1, <2>4, AppendProperties DEF WellTyped
  <2>7. Script(p)' = Script(p)
    BY <1>1, SameScript
  <2>8. /\ Came(db, own[p], Script(p), ids[p]) /\ Backed(own[p], Script(p), ids[p])
        /\ Apart(db, own[p])
    BY <2>2 DEF Whole, Entered
  <2>9. Came(db, own[p], Script(p), Append(ids[p], r.id))
    BY <1>1, <2>1, <2>2, <2>3, <2>8, OneMoreLine
  <2>10. Backed(own[p], Script(p), Append(ids[p], r.id))
    BY <1>1, <2>1, <2>8, StillBacked
  <2>11. /\ Came(db', own'[p], Script(p)', ids'[p]) /\ Backed(own'[p], Script(p)', ids'[p])
         /\ Apart(db', own'[p])
    BY <1>1, <2>4, <2>7, <2>8, <2>9, <2>10
  <2>12. step'[p] = "finish" => Len(ids'[p]) = Len(Script(p)')
    BY <2>5, <2>6, <2>7
  <2>13. Entered(p)' /\ Known(p)'
    BY <1>1, <2>11, <2>12 DEF Whole, Entered, Known
  <2> QED
    BY <1>1, <2>4, <2>5, <2>13, MoveWhole
<1> QED
  BY <1>2, <1>3, <1>4 DEF Look

(* The row that is inserted has the greatest id of its table and, unless   *)
(* it is a source, a key of its own.                                       *)
LEMMA InsertApart ==
  ASSUME WellTyped, NEW n \in Nat, Lock(n), Keyed, Explained, NEW p \in Procs, Insert(p),
         own[p] # {} => Apart(db, own[p])
  PROVE  Apart(db, own'[p])
<1> DEFINE row == [table |-> Wanted(p).table, id |-> next[p], key |-> Key(p), run |-> mine[p]]
<1>1. step[p] = "insert" /\ step[p] \in Turns /\ next[p] \in Nat /\ db' = db
  BY DEF Insert, Turns, WellTyped
<1>2. own'[p] = own[p] \cup {row}
  <2>1. own' = [own EXCEPT ![p] = @ \cup {row}] /\ own = [q \in Procs |-> own[q]]
    BY DEF Insert, WellTyped
  <2> QED
    BY <2>1
<1>3. row.id = next[p] /\ row.table = Wanted(p).table /\ row.key = Key(p)
  OBVIOUS
<1> HIDE DEF row
<1>4. \A x \in db \cup own[p] : x.id \in Nat
  BY DEF WellTyped, RowIds
<1>5. CASE ids[p] = <<>>
  <2>1. own[p] = {} /\ row.table = "source" /\ own'[p] = {row}
    BY <1>1, <1>2, <1>3, <1>5, SourceFirst DEF Lock, Held
  <2>2. Lock(n)'
    BY InsertLocked
  <2>3. SourceIds(own'[p]) = {n + 1}
    BY <2>1, <2>2 DEF Lock, Held
  <2>4. row.id = n + 1
    BY <2>1, <2>3 DEF SourceIds, Of
  <2>5. ASSUME NEW x \in db, x.table = "source" PROVE x.id < row.id
    <3>1. x.id \in 1..n
      BY <2>5 DEF Lock, SourceIds, Of
    <3> QED
      BY <2>4, <3>1
  <2>6. \A x \in db : x.table = "source" => x.id # row.id
    BY <1>1, <1>3, <1>4, <2>5
  <2> QED
    BY <2>1, <2>5, <2>6 DEF Apart
<1>6. CASE ids[p] # <<>>
  <2>1. own[p] # {} /\ row.table # "source"
    BY <1>1, <1>3, <1>6, SourceFirst DEF Lock, Held
  <2>2. \A x \in db \cup own[p] : x.table = row.table => x.id < row.id
    BY <1>1, <1>3, <1>6 DEF Explained, Careful, Numbered, Of, Visible
  <2>3. \A x \in db \cup own[p] : x.table = row.table => x.key # row.key
    BY <1>1, <1>3, <1>6 DEF Keyed, Absent, Of, Visible
  <2>4. row.id \in Nat /\ \A x \in db \cup own[p] : x.table = row.table => x.id # row.id
    BY <1>1, <1>3, <1>4, <2>2
  <2>5. row \notin db
    BY <2>3
  <2> QED
    BY <1>2, <2>1, <2>2, <2>3, <2>4, <2>5 DEF Apart
<1> QED
  BY <1>5, <1>6

LEMMA InsertWhole ==
  ASSUME WellTyped, NEW n \in Nat, Lock(n), Keyed, Explained, Whole, NEW p \in Procs, Insert(p)
  PROVE  Whole'
<1> DEFINE row == [table |-> Wanted(p).table, id |-> next[p], key |-> Key(p), run |-> mine[p]]
<1>1. /\ step[p] \in Turns /\ next[p] \in Nat
      /\ UNCHANGED <<db, run, mine, doc, changed, next>>
  BY DEF Insert, Turns, WellTyped
<1>2. own'[p] = own[p] \cup {row} /\ \A q \in Procs \ {p} : own'[q] = own[q]
  <2>1. own' = [own EXCEPT ![p] = @ \cup {row}] /\ own = [q \in Procs |-> own[q]]
    BY DEF Insert, WellTyped
  <2> QED
    BY <2>1
<1>3. ids'[p] = Append(ids[p], next[p]) /\ \A q \in Procs \ {p} : ids'[q] = ids[q]
  BY DEF Insert, Resolve, WellTyped
<1>4. /\ step'[p] = IF Len(ids[p]) + 1 = Len(Script(p)) THEN "finish" ELSE "look"
      /\ \A q \in Procs \ {p} : step'[q] = step[q]
  BY DEF Insert, Resolve, Goto, WellTyped
<1>5. ids[p] \in Seq(Nat) /\ Len(ids[p]) \in Nat /\ Len(ids'[p]) = Len(ids[p]) + 1
  BY <1>1, <1>3, AppendProperties DEF WellTyped
<1>6. row.id = next[p] /\ Serial!Bears(row, Wanted(p), ids[p])
  BY DEF Serial!Bears, Key
<1> HIDE DEF row
<1>7. own[p] # {} => /\ Came(db, own[p], Script(p), ids[p]) /\ Backed(own[p], Script(p), ids[p])
                     /\ Apart(db, own[p])
  BY DEF Whole, Entered
<1>8. ids[p] # <<>> <=> own[p] # {}
  BY <1>1 DEF Lock, Held
<1>9. Came(db, own'[p], Script(p), Append(ids[p], next[p]))
  <2>1. own[p] \subseteq own'[p] /\ row \in own'[p] /\ row \in db \cup own'[p]
    BY <1>2
  <2>2. Came(db, own'[p], Script(p), Append(ids[p], row.id))
    BY <1>1, <1>6, <1>7, <1>8, <2>1, OneMoreLine
  <2> QED
    BY <1>6, <2>2
<1>10. Backed(own'[p], Script(p), Append(ids[p], next[p]))
  <2>1. Backed(own[p], Script(p), Append(ids[p], next[p]))
    <3>1. CASE own[p] # {}
      BY <1>1, <1>7, <3>1, StillBacked
    <3>2. CASE own[p] = {}
      BY <3>2 DEF Backed
    <3> QED
      BY <3>1, <3>2
  <2>2. Serial!Bears(row, Script(p)[Len(ids[p]) + 1], Append(ids[p], next[p]))
    BY <1>1, <1>6, LastBears
  <2>3. Len(Append(ids[p], next[p])) = Len(ids[p]) + 1 /\ Len(ids[p]) + 1 \in 1..(Len(ids[p]) + 1)
    BY <1>3, <1>5
  <2> QED
    BY <1>2, <2>1, <2>2, <2>3 DEF Backed
<1>11. Apart(db, own'[p])
  BY <1>7, InsertApart
<1>12. Script(p)' = Script(p)
  BY <1>1, SameScript
<1>13. /\ Came(db', own'[p], Script(p)', ids'[p]) /\ Backed(own'[p], Script(p)', ids'[p])
       /\ Apart(db', own'[p])
  BY <1>1, <1>3, <1>9, <1>10, <1>11, <1>12
<1>14. step'[p] = "finish" => Len(ids'[p]) = Len(Script(p)')
  BY <1>4, <1>5, <1>12
<1>15. Entered(p)' /\ Known(p)'
  BY <1>1, <1>13, <1>14 DEF Whole, Entered, Known
<1>16. \A q \in Procs \ {p} : Entered(q)' /\ Known(q)'
  BY <1>1, <1>2, <1>3, <1>4, OthersEntered DEF Whole
<1> QED
  BY <1>15, <1>16 DEF Whole

(* The end of a transaction.                                               *)
LEMMA EndWhole ==
  ASSUME WellTyped, NEW n \in Nat, Lock(n), Whole, NEW p \in Procs, Goto(p, "idle"),
         own' = [own EXCEPT ![p] = {}], db' = db \/ db' = db \cup own[p],
         UNCHANGED <<doc, changed, ids>>
  PROVE  Whole'
<1>1. own'[p] = {} /\ \A q \in Procs \ {p} : own'[q] = own[q]
  BY LetGo
<1>2. \A q \in Procs \ {p} : step'[q] = step[q]
  BY DEF WellTyped, Goto
<1>3. db \subseteq db' /\ \A q \in Procs \ {p} : own[q] # {} => db' = db
  BY DEF Lock, OneWriterAtATime
<1>4. Entered(p)' /\ Known(p)'
  BY <1>1, <1>3 DEF Whole, Entered, Known
<1>5. \A q \in Procs \ {p} : Entered(q)' /\ Known(q)'
  BY <1>1, <1>2, <1>3, OthersEntered DEF Whole
<1> QED
  BY <1>4, <1>5 DEF Whole

LEMMA StepWhole ==
  ASSUME Safe, Keyed, Explained, Whole, NEW p \in Procs, Enrol(p) \/ Proceed(p) \/ Crash(p)
  PROVE  Whole'
<1>1. WellTyped
  BY DEF Safe
<1>2. PICK n \in Nat : Lock(n)
  BY DEF Safe, Locked
<1>3. CASE FinishRun(p) \/ FailRun(p) \/ Crash(p)
  <2>1. /\ Goto(p, "idle") /\ own' = [own EXCEPT ![p] = {}]
        /\ db' = db \/ db' = db \cup own[p]
        /\ UNCHANGED <<doc, changed, ids>>
    BY <1>3 DEF FinishRun, FailRun, Crash, Close, local
  <2> QED
    BY <1>1, <1>2, <2>1, EndWhole
<1>4. CASE Enrol(p)
  BY <1>1, <1>4, GotoWhole DEF Enrol, Steps, Idle
<1>5. CASE LoseStart(p)
  BY <1>1, <1>5, GotoWhole DEF LoseStart, local, Steps, Idle
<1>6. CASE Number(p)
  BY <1>1, <1>6, GotoWhole DEF Number, Steps, Turns
<1>7. CASE Collide(p)
  BY <1>1, <1>7, GotoWhole DEF Collide, local, Steps
<1>8. CASE Start(p) \/ Look(p) \/ Compare(p) \/ Insert(p)
  BY <1>1, <1>2, <1>8, StartWhole, LookWhole, CompareWhole, InsertWhole
<1> QED
  BY <1>3, <1>4, <1>5, <1>6, <1>7, <1>8 DEF Proceed

LEMMA StutterWhole ==
  ASSUME Whole, UNCHANGED vars
  PROVE  Whole'
<1>1. \A q \in Procs : Entered(q)' /\ Known(q)'
  BY OthersEntered DEF Whole, vars, local
<1> QED
  BY <1>1 DEF Whole

(* A commit that changes the tables enters the document of its process.    *)
LEMMA CommitEnters ==
  ASSUME Safe, Keyed, Explained, Whole, NEW p \in Procs, FinishRun(p), own[p] # {}
  PROVE  Serial!Enter(doc[p])
<1> DEFINE script == Script(p)
           new == db' \ db
<1>1. /\ step[p] = "finish" /\ db' = db \cup own[p]
      /\ doc[p] \in Docs /\ changed[p] \in BOOLEAN /\ ids[p] \in Seq(Nat)
  BY DEF FinishRun, Safe, WellTyped
<1>2. /\ \A r \in own[p] : r.run = mine[p]
      /\ \A x \in db : x.run # mine[p]
  BY <1>1 DEF Explained, Careful, Fresh, Idle
<1>3. new = own[p]
  BY <1>1, <1>2
<1>4. /\ Came(db, own[p], script, ids[p]) /\ Backed(own[p], script, ids[p])
      /\ Apart(db, own[p]) /\ Len(ids[p]) = Len(script)
  BY <1>1 DEF Whole, Entered
<1>5. script \in Serial!Scripts(doc[p])
  <2>1. CASE changed[p]
    <3>1. Serial!Sourced(doc[p].url)
      BY <2>1 DEF Whole, Known, Serial!Sourced
    <3>2. script = <<Rows[doc[p]][1], Serial!Flag>>
      BY <2>1 DEF Script, ReviewRow, Serial!Flag
    <3> QED
      BY <3>1, <3>2 DEF Serial!Scripts
  <2>2. CASE ~changed[p]
    BY <2>2 DEF Script, Serial!Scripts
  <2> QED
    BY <1>1, <2>1, <2>2
<1>6. Serial!OfOneRun(own[p])
  BY <1>2 DEF Serial!OfOneRun
<1>7. ids[p] \in [1..Len(script) -> {r.id : r \in db'}]
  <2>1. DOMAIN ids[p] = 1..Len(script) /\ ids[p] = [i \in DOMAIN ids[p] |-> ids[p][i]]
    BY <1>1, <1>4
  <2>2. \A i \in 1..Len(script) : \E r \in db' : r.id = ids[p][i]
    BY <1>1, <1>4 DEF Came
  <2> QED
    BY <2>1, <2>2
<1>8. Serial!Enters(own[p], script, ids[p])
  BY <1>4 DEF Serial!Enters, Came, Backed, Apart
<1> HIDE DEF script
<1>9. db \subseteq db' /\ new = own[p]
  BY <1>1, <1>3
<1> QED
  BY <1>5, <1>6, <1>7, <1>8, <1>9 DEF Serial!Enter

(* Every other step leaves the tables as they are.                         *)
LEMMA StepSerial ==
  ASSUME Safe, Keyed, Explained, Whole, [Next]_vars
  PROVE  [Serial!SerialNext]_db
<1>1. CASE UNCHANGED vars
  BY <1>1 DEF vars
<1>2. ASSUME NEW p \in Procs, Enrol(p) \/ Proceed(p) \/ Crash(p)
      PROVE  [Serial!SerialNext]_db
  <2>1. CASE FinishRun(p)
    <3>1. CASE own[p] = {}
      BY <2>1, <3>1 DEF FinishRun
    <3>2. CASE own[p] # {}
      <4>1. Serial!Enter(doc[p]) /\ doc[p] \in Docs
        BY <2>1, <3>2, CommitEnters DEF Safe, WellTyped
      <4> QED
        BY <4>1 DEF Serial!SerialNext
    <3> QED
      BY <3>1, <3>2
  <2>2. CASE ~FinishRun(p)
    <3>1. UNCHANGED db
      BY <1>2, <2>2 DEF Enrol, Proceed, Crash, Start, LoseStart, Look, Compare, Number, Insert,
                        Collide, FailRun
    <3> QED
      BY <3>1
  <2> QED
    BY <2>1, <2>2
<1> QED
  BY <1>1, <1>2 DEF Next

(* The lines a process has resolved have rows, and its rows have lines, in *)
(* every reachable state.                                                  *)
THEOREM WholeInvariant == Spec => []Whole
<1>1. Init => Whole
  BY DEF Init, Whole, Entered, Known
<1>2. Safe /\ Keyed /\ Explained /\ Whole /\ [Next]_vars => Whole'
  <2>1. SUFFICES ASSUME Safe, Keyed, Explained, Whole, [Next]_vars PROVE Whole'
    OBVIOUS
  <2>2. CASE UNCHANGED vars
    BY <2>1, <2>2, StutterWhole
  <2>3. CASE Next
    BY <2>1, <2>3, StepWhole DEF Next
  <2> QED
    BY <2>1, <2>2, <2>3
<1> QED
  BY <1>1, <1>2, SafeInvariant, KeyedInvariant, ExplainedInvariant, PTL DEF Spec

(* However many processes ingest at once, and wherever they crash, the     *)
(* tables change as if whole documents were ingested one after the other.  *)
THEOREM ImplementsSerial == Spec => IsSerial
<1>1. Init => Serial!SerialInit
  BY DEF Init, Serial!SerialInit
<1>2. Safe /\ Keyed /\ Explained /\ Whole /\ [Next]_vars => [Serial!SerialNext]_db
  BY StepSerial
<1> QED
  BY <1>1, <1>2, SafeInvariant, KeyedInvariant, ExplainedInvariant, WholeInvariant, PTL
     DEF Spec, IsSerial, Serial!SerialSpec

-----------------------------------------------------------------------------
(* The bounds, and the status of a run that is under way: no other process *)
(* closes it, since no other has it.                                       *)
Counted ==
  /\ crashes \in 0..MaxCrashes /\ Len(run) <= MaxRuns
  /\ \A p \in Procs : /\ mine[p] <= Len(run)
                      /\ step[p] = "start" => next[p] <= MaxRuns
                      /\ step[p] \notin Idle => run[mine[p]] = "RUNNING"

LEMMA StartCounted ==
  ASSUME WellTyped, Counted, NEW p \in Procs, Start(p)
  PROVE  Counted'
<1>1. Len(run) \in Nat /\ run \in Seq(Statuses)
  BY LenProperties DEF WellTyped
<1>2. /\ Len(run') = Len(run) + 1 /\ run'[Len(run) + 1] = "RUNNING"
      /\ \A r \in 1..Len(run) : run'[r] = run[r]
  BY <1>1, AppendProperties DEF Start, Statuses
<1>3. Len(run') <= MaxRuns /\ crashes' \in 0..MaxCrashes
  BY <1>2 DEF Start, Counted
<1>4. /\ mine'[p] = Len(run) + 1 /\ step'[p] = "look"
      /\ \A q \in Procs \ {p} : mine'[q] = mine[q] /\ step'[q] = step[q] /\ next'[q] = next[q]
  BY DEF Start, Goto, WellTyped
<1>5. ASSUME NEW q \in Procs
      PROVE  /\ mine'[q] <= Len(run') /\ (step'[q] = "start" => next'[q] <= MaxRuns)
             /\ (step'[q] \notin Idle => run'[mine'[q]] = "RUNNING")
  <2>1. CASE q = p
    BY <1>1, <1>2, <1>4, <2>1
  <2>2. CASE q # p
    <3>1. mine[q] \in Nat /\ mine[q] <= Len(run)
      BY DEF WellTyped, Counted
    <3>2. mine[q] <= Len(run) + 1
      BY <1>1, <3>1
    <3>3. step[q] \notin Idle => mine[q] \in 1..Len(run)
      BY DEF WellTyped
    <3> QED
      BY <1>2, <1>4, <2>2, <3>2, <3>3 DEF Counted
  <2> QED
    BY <2>1, <2>2
<1> QED
  BY <1>3, <1>5 DEF Counted

LEMMA CloseCounted ==
  ASSUME WellTyped, Paired, Counted, NEW p \in Procs, NEW outcome, Close(p, outcome),
         step[p] \notin Idle, UNCHANGED <<mine, next, crashes>>
  PROVE  Counted'
<1>1. mine[p] \in 1..Len(run) /\ run \in Seq(Statuses)
  BY DEF WellTyped
<1>2. run' = [run EXCEPT ![mine[p]] = outcome]
  BY DEF Close
<1>3. DOMAIN run = 1..Len(run) /\ Len(run') = Len(run)
      /\ \A r \in 1..Len(run) : r # mine[p] => run'[r] = run[r]
  BY <1>1, <1>2
<1>4. step'[p] = "idle" /\ \A q \in Procs \ {p} : step'[q] = step[q]
  BY DEF Close, Goto, WellTyped
<1>5. \A q \in Procs \ {p} : step[q] \notin Idle => mine[q] # mine[p] /\ mine[q] \in 1..Len(run)
  BY DEF Paired, Overlap, WellTyped
<1>6. \A q \in Procs : step'[q] \notin Idle => run'[mine[q]] = "RUNNING"
  BY <1>3, <1>4, <1>5 DEF Counted, Idle
<1>7. \A q \in Procs : mine[q] <= Len(run') /\ (step'[q] = "start" => next[q] <= MaxRuns)
  BY <1>3, <1>4 DEF Counted
<1> QED
  BY <1>3, <1>6, <1>7 DEF Counted

LEMMA StepCounted ==
  ASSUME WellTyped, Paired, Counted, NEW p \in Procs, Enrol(p) \/ Proceed(p) \/ Crash(p)
  PROVE  Counted'
<1>1. CASE Start(p)
  BY <1>1, StartCounted
<1>2. CASE FinishRun(p) \/ FailRun(p)
  BY <1>2, CloseCounted DEF FinishRun, FailRun, Idle, local
<1>3. CASE Enrol(p)
  <2>1. Len(run) \in Nat /\ Len(run) < MaxRuns /\ MaxRuns \in Nat
    BY <1>3, LenProperties, BoundsAssumption DEF WellTyped, Enrol
  <2>2. /\ step'[p] = "start" /\ next'[p] = Len(run) + 1
        /\ \A q \in Procs \ {p} : step'[q] = step[q] /\ next'[q] = next[q]
    BY <1>3 DEF Enrol, Goto, WellTyped
  <2>3. Len(run) + 1 <= MaxRuns
    BY <2>1
  <2> QED
    BY <1>3, <2>2, <2>3 DEF Enrol, Counted, Idle
<1>4. CASE Number(p)
  <2>1. /\ step[p] \notin Idle /\ step'[p] = "insert"
        /\ \A q \in Procs \ {p} : step'[q] = step[q] /\ next'[q] = next[q]
    BY <1>4 DEF Number, Goto, WellTyped, Idle
  <2> QED
    BY <1>4, <2>1 DEF Number, Counted
<1>5. CASE LoseStart(p) \/ Look(p) \/ Compare(p) \/ Insert(p) \/ Collide(p) \/ Crash(p)
  <2>1. UNCHANGED <<run, mine, next>> /\ \A q \in Procs \ {p} : step'[q] = step[q]
    BY <1>5 DEF LoseStart, Look, Compare, Insert, Collide, Crash, Resolve, Goto, local, WellTyped
  <2>2. step'[p] # "start" /\ (step'[p] \notin Idle => step[p] \notin Idle)
    BY <1>5 DEF LoseStart, Look, Compare, Insert, Collide, Crash, Resolve, Goto, Idle, WellTyped
  <2>3. crashes' \in 0..MaxCrashes
    <3>1. CASE Crash(p)
      BY <3>1, BoundsAssumption DEF Crash, Counted
    <3>2. CASE ~Crash(p)
      BY <1>5, <3>2 DEF LoseStart, Look, Compare, Insert, Collide, Counted
    <3> QED
      BY <3>1, <3>2
  <2> QED
    BY <2>1, <2>2, <2>3 DEF Counted
<1> QED
  BY <1>1, <1>2, <1>3, <1>4, <1>5 DEF Proceed

(* A reachable state is well typed, and a process at work has a run that   *)
(* is RUNNING, however many there are.                                     *)
THEOREM ConcurrentTypeCorrect == Spec => []TypeOK
<1>1. Init => Counted
  BY BoundsAssumption DEF Init, Counted, Idle
<1>2. Safe /\ Explained /\ Counted /\ [Next]_vars => Counted'
  <2>1. SUFFICES ASSUME Safe, Explained, Counted, [Next]_vars PROVE Counted'
    OBVIOUS
  <2>2. CASE UNCHANGED vars
    BY <2>1, <2>2 DEF Counted, vars, local
  <2>3. CASE Next
    BY <2>1, <2>3, StepCounted DEF Next, Safe, Explained
  <2> QED
    BY <2>1, <2>2, <2>3
<1>3. Safe /\ Counted => TypeOK
  <2>1. SUFFICES ASSUME Safe, Counted PROVE TypeOK
    OBVIOUS
  <2>2. WellTyped /\ Len(run) \in Nat
    BY <2>1, LenProperties DEF Safe, WellTyped
  <2>3. mine \in [Procs -> 0..Len(run)]
    <3>1. \A p \in Procs : mine[p] <= Len(run)
      BY <2>1, Zenon DEF Counted
    <3>2. mine \in [Procs -> Nat]
      BY <2>2 DEF WellTyped
    <3> QED
      BY <2>2, <3>1, <3>2
  <2>4. run \in Seq({"RUNNING", "SUCCESS", "FAILED"})
    BY <2>2 DEF WellTyped, Statuses
  <2>5. step \in [Procs -> {"idle", "start", "look", "compare", "number", "insert", "finish", "raise"}]
    BY <2>2 DEF WellTyped, Steps, Turns, Idle
  <2>6. ASSUME NEW p \in Procs
        PROVE  /\ ids[p] \in Seq(Nat)
               /\ step[p] \in {"look", "compare", "number", "insert"} => Len(ids[p]) < Len(Script(p))
               /\ Active(p) => mine[p] # 0 /\ run[mine[p]] = "RUNNING"
    <3>1. Active(p) => step[p] \notin Idle
      BY DEF Active, Idle
    <3>2. step[p] \notin Idle => mine[p] # 0 /\ run[mine[p]] = "RUNNING"
      BY <2>1, <2>2 DEF WellTyped, Counted
    <3> QED
      BY <2>2, <3>1, <3>2 DEF WellTyped, Turns
  <2> QED
    BY <2>1, <2>2, <2>3, <2>4, <2>5, <2>6 DEF TypeOK, WellTyped, Counted
<1> QED
  BY <1>1, <1>2, <1>3, SafeInvariant, ExplainedInvariant, PTL DEF Spec
=============================================================================
