-------------------------- MODULE ConcurrentIngest --------------------------
(***************************************************************************)
(* Several processes ingest election results into one database at once.    *)
(* Every row is looked up and inserted if it is absent, with an id that is *)
(* the greatest one plus one.  PostgreSQL runs each session at READ        *)
(* COMMITTED: a statement sees what is committed and the session's own     *)
(* rows, and an insert whose key another open transaction holds waits for  *)
(* that transaction to end.                                                *)
(*                                                                         *)
(* What the statements of one session do to the tables is ElectionIngest;  *)
(* here a document is the list of rows that it leads to.  Results and      *)
(* identifiers hang on a candidacy one to one and are left out.            *)
(***************************************************************************)
EXTENDS Naturals, Sequences

CONSTANTS
  Procs,         \* collector processes
  Docs,          \* documents: a URL and the digest of the bytes
  Rows,          \* Rows[doc]: the rows it leads to, in code order, its source first
  UniqueTables,  \* tables with a unique constraint besides the primary key
  MaxRuns,       \* bound: collector runs
  MaxCrashes     \* bound: processes that die

(* A row refers to earlier rows of its document by their places in Rows.   *)
ASSUME RowsAssumption ==
  \A d \in Docs :
    /\ Len(Rows[d]) \in Nat \ {0}
    /\ Rows[d][1] = [table |-> "source", name |-> d, refs |-> <<>>]
    /\ \A i \in 2..Len(Rows[d]) :
         /\ Rows[d][i].table # "source"
         /\ \A k \in 1..Len(Rows[d][i].refs) : Rows[d][i].refs[k] \in 1..(i - 1)
ASSUME DocsAssumption == Docs # {}
ASSUME BoundsAssumption == MaxRuns \in Nat /\ MaxCrashes \in Nat

VARIABLES
  db,       \* committed rows, each with its table, id and key, and the run it is of
  own,      \* own[p]: rows that p has inserted and not committed
  run,      \* run[r]: status of the collector_run row r
  step,     \* step[p]: what p does next
  mine,     \* mine[p]: p's run
  doc,      \* doc[p]: the document it ingests
  changed,  \* changed[p]: its source was SOURCE_CHANGED
  ids,      \* ids[p]: the ids of the rows resolved so far
  next,     \* next[p]: the id p has chosen for the row it inserts
  met,      \* history: pairs of runs that were under way at the same time
  crashes

local == <<doc, changed, ids, next>>
vars  == <<db, own, run, step, mine, local, met, crashes>>

ReviewRow == [table |-> "review", name |-> "content_sha256", refs |-> <<1>>]
ScriptGoesOn(p) == IF changed[p] THEN Append(Rows[doc[p]], ReviewRow) ELSE Rows[doc[p]]
Script(p) == IF changed[p] THEN <<Rows[doc[p]][1], ReviewRow>> ELSE Rows[doc[p]]
Wanted(p) == Script(p)[Len(ids[p]) + 1]
Key(p) == [name |-> Wanted(p).name,
           refs |-> [k \in 1..Len(Wanted(p).refs) |-> ids[p][Wanted(p).refs[k]]]]

Visible(p) == db \cup own[p]
Of(rows, table) == {r \in rows : r.table = table}

(* The row that a lookup returns: a source by its digest, a person only if *)
(* one alone has the name, anything else by its key.                       *)
Matching(p) ==
  LET table == Of(Visible(p), Wanted(p).table) IN
  IF Wanted(p).table = "source" THEN {r \in table : r.key.name.sha = doc[p].sha}
                                ELSE {r \in table : r.key = Key(p)}
Chosen(p) ==
  IF Wanted(p).table = "person" THEN {r \in Matching(p) : Matching(p) = {r}} ELSE Matching(p)
Prior(p) == {r \in Of(Visible(p), "source") : r.key.name.url = doc[p].url}

(* _next_seq: the greatest id that the session sees, plus one.             *)
Greatest(S) == CHOOSE m \in S \cup {0} : \A i \in S \cup {0} : i <= m
NextIdSequence(p) ==
  Greatest({r.id : r \in Of(db \cup UNION {own[q] : q \in Procs}, Wanted(p).table)}) + 1
NextId(p) == Greatest({r.id : r \in Of(Visible(p), Wanted(p).table)}) + 1

(* Rows that an insert of p collides with.                                 *)
Colliding(p, rows) ==
  {r \in Of(rows, Wanted(p).table) :
     r.id = next[p] \/ (r.table \in UniqueTables /\ r.key = Key(p))}

Active(p) == step[p] \in {"look", "compare", "number", "insert", "finish", "raise"}

-----------------------------------------------------------------------------
Init ==
  /\ db = {} /\ own = [p \in Procs |-> {}]
  /\ run = <<>> /\ step = [p \in Procs |-> "idle"] /\ mine = [p \in Procs |-> 0]
  /\ doc = [p \in Procs |-> CHOOSE d \in Docs : TRUE] /\ changed = [p \in Procs |-> FALSE]
  /\ ids = [p \in Procs |-> <<>>] /\ next = [p \in Procs |-> 0]
  /\ met = {} /\ crashes = 0

Goto(p, s) == step' = [step EXCEPT ![p] = s]

(* start_collector_run: choose the run's id, then insert and commit the    *)
(* row.  A process that finds the id taken ends with the exception.        *)
Enrol(p) ==
  /\ step[p] = "idle" /\ Len(run) < MaxRuns
  /\ next' = [next EXCEPT ![p] = Len(run) + 1]
  /\ Goto(p, "start")
  /\ UNCHANGED <<db, own, run, mine, doc, changed, ids, met, crashes>>
Start(p) ==
  /\ step[p] = "start" /\ next[p] = Len(run) + 1
  /\ run' = Append(run, "RUNNING")
  /\ mine' = [mine EXCEPT ![p] = next[p]]
  /\ met' = met \cup {{next[p], mine[q]} : q \in {q \in Procs : Active(q)}}
  /\ \E d \in Docs : doc' = [doc EXCEPT ![p] = d]
  /\ changed' = [changed EXCEPT ![p] = FALSE]
  /\ ids' = [ids EXCEPT ![p] = <<>>]
  /\ Goto(p, "look")
  /\ UNCHANGED <<db, own, next, crashes>>
LoseStart(p) ==
  /\ step[p] = "start" /\ next[p] <= Len(run)
  /\ Goto(p, "idle")
  /\ UNCHANGED <<db, own, run, mine, local, met, crashes>>

(* The next row is resolved to an id.  Known bytes end the ingestion.      *)
Resolve(p, id, script) ==
  /\ ids' = [ids EXCEPT ![p] = Append(@, id)]
  /\ Goto(p, IF Len(ids[p]) + 1 = Len(script) THEN "finish" ELSE "look")
Look(p) ==
  /\ step[p] = "look"
  /\ \/ \E r \in Chosen(p) :
          IF r.table = "source" THEN Goto(p, "finish") /\ UNCHANGED ids
                                ELSE Resolve(p, r.id, Script(p))
     \/ /\ Chosen(p) = {}
        /\ Goto(p, IF Wanted(p).table = "source" THEN "compare" ELSE "number")
        /\ UNCHANGED ids
  /\ UNCHANGED <<db, own, run, mine, doc, changed, next, met, crashes>>
CompareUnflagged(p) ==
  /\ step[p] = "compare"
  /\ Goto(p, "number")
  /\ UNCHANGED <<db, own, run, mine, local, met, crashes>>
Compare(p) ==
  /\ step[p] = "compare"
  /\ changed' = [changed EXCEPT ![p] = Prior(p) # {}]
  /\ Goto(p, "number")
  /\ UNCHANGED <<db, own, run, mine, doc, ids, next, met, crashes>>
Number(p) ==
  /\ step[p] = "number"
  /\ next' = [next EXCEPT ![p] = NextId(p)]
  /\ Goto(p, "insert")
  /\ UNCHANGED <<db, own, run, mine, doc, changed, ids, met, crashes>>

(* The insert waits while an open transaction holds the key, and raises    *)
(* when the key is committed, or its own.                                  *)
Waits(p, q) == q # p /\ Colliding(p, own[q]) # {}
Insert(p) ==
  /\ step[p] = "insert" /\ \A q \in Procs : ~Waits(p, q)
  /\ Colliding(p, Visible(p)) = {}
  /\ own' = [own EXCEPT ![p] = @ \cup
               {[table |-> Wanted(p).table, id |-> next[p], key |-> Key(p), run |-> mine[p]]}]
  /\ Resolve(p, next[p], Script(p))
  /\ UNCHANGED <<db, run, mine, doc, changed, next, met, crashes>>
Collide(p) ==
  /\ step[p] = "insert" /\ \A q \in Procs : ~Waits(p, q)
  /\ Colliding(p, Visible(p)) # {}
  /\ Goto(p, "raise")
  /\ UNCHANGED <<db, own, run, mine, local, met, crashes>>

(* The commit, or the rollback that ends a failed transaction, each with   *)
(* the run's row.                                                          *)
Close(p, outcome) ==
  /\ own' = [own EXCEPT ![p] = {}]
  /\ run' = [run EXCEPT ![mine[p]] = outcome]
  /\ Goto(p, "idle")
FinishRun(p) ==
  /\ step[p] = "finish"
  /\ db' = db \cup own[p]
  /\ Close(p, "SUCCESS")
  /\ UNCHANGED <<mine, local, met, crashes>>
FailRunUncommitted(p) ==
  /\ step[p] = "raise"
  /\ own' = [own EXCEPT ![p] = {}]
  /\ Goto(p, "idle")
  /\ UNCHANGED <<db, run, mine, local, met, crashes>>
FailRun(p) ==
  /\ step[p] = "raise"
  /\ Close(p, "FAILED")
  /\ UNCHANGED <<db, mine, local, met, crashes>>

(* The process dies, and the database rolls its transaction back.          *)
Crash(p) ==
  /\ Active(p) /\ crashes < MaxCrashes
  /\ crashes' = crashes + 1
  /\ own' = [own EXCEPT ![p] = {}]
  /\ Goto(p, "idle")
  /\ UNCHANGED <<db, run, mine, local, met>>

Proceed(p) ==
  \/ Start(p) \/ LoseStart(p) \/ Look(p) \/ Compare(p) \/ Number(p) \/ Insert(p) \/ Collide(p)
  \/ FinishRun(p) \/ FailRun(p)
Next == \E p \in Procs : Enrol(p) \/ Proceed(p) \/ Crash(p)

Spec == Init /\ [][Next]_vars
(* A process that has begun goes on unless its insert has to wait.         *)
FairSpec == Spec /\ \A p \in Procs : WF_vars(Proceed(p))

-----------------------------------------------------------------------------
TypeOK ==
  /\ run \in Seq({"RUNNING", "SUCCESS", "FAILED"}) /\ Len(run) <= MaxRuns
  /\ step \in [Procs -> {"idle", "start", "look", "compare", "number", "insert", "finish", "raise"}]
  /\ mine \in [Procs -> 0..Len(run)] /\ doc \in [Procs -> Docs] /\ changed \in [Procs -> BOOLEAN]
  /\ next \in [Procs -> Nat] /\ crashes \in 0..MaxCrashes
  /\ \A p \in Procs : /\ ids[p] \in Seq(Nat)
                      /\ step[p] \in {"look", "compare", "number", "insert"} => Len(ids[p]) < Len(Script(p))
                      /\ Active(p) => mine[p] # 0 /\ run[mine[p]] = "RUNNING"

(* The id of the source row is a lock: everybody who inserts a source      *)
(* while another's is uncommitted has chosen the same id and waits, so     *)
(* that never two transactions have rows of their own.                     *)
OneWriterAtATime == \A p, q \in Procs : own[p] # {} /\ own[q] # {} => p = q

(* So every table but the source table keeps its natural keys single.      *)
NothingTwice ==
  \A x, y \in db : x.table = y.table /\ x.table # "source" /\ x.key = y.key => x = y

(* A source is entered twice, new bytes of a known URL escape review, or a *)
(* run fails for an id that it chose, only if runs overlapped.             *)
OnlyRacesHarm ==
  /\ \A x, y \in Of(db, "source") : x.id < y.id =>
       \/ {x.run, y.run} \in met
       \/ /\ x.key.name.sha # y.key.name.sha
          /\ x.key.name.url = y.key.name.url =>
               \E r \in Of(db, "review") : r.key.refs = <<y.id>>
  /\ \A r \in 1..Len(run) : run[r] = "FAILED" => \E s \in 1..Len(run) : s # r /\ {r, s} \in met

(* Apart from that, no interleaving shows: every commit enters what one    *)
(* document alone would have added to the committed tables, whole.         *)
Serial == INSTANCE SerialIngest
IsSerial == Serial!SerialSpec

(* No run waits for ever: it is closed, unless its process died.           *)
Running(r) == r <= Len(run) /\ run[r] = "RUNNING"
RunsAreClosed == \A r \in 1..MaxRuns : Running(r) ~> (~Running(r) \/ crashes > 0)
=============================================================================
