# Formal models of make-politics-traceable-again

TLA+ models, model-checked properties and machine-checked proofs about the
collectors of this repository: the programs that fetch official Indian election
data, archive the bytes, and enter what they say into a database with their
provenance. Paths below are relative to the repository (`src/`).

## 1. The system

| Component | State it keeps | Operations | Interacts with |
|---|---|---|---|
| Raw archive (`collectors/base/archive.py`) | directories below `data/raw/<source>`: payload or symlink, `metadata.json` | `archive_raw`, `verify_artifact` | called by every collector; shared by all processes on the machine, no lock |
| Election ingestion (`collectors/eci/collector.py`, `persist.py`) | database tables, one session per run; `collector_run` rows | `run`: fetch, archive, parse, normalize, validate, persist | archive, database, identity |
| Source identifiers (`packages/shared/identity.py`) | `candidacy_source_identifier` | `attach_...`, `lookup_...` | ingestion attaches, affidavit linkage looks up |
| Guarded HTTP clients (`live_results/http_client.py`, `statistical_reports/http_client.py`) | a request budget shared by the calls of a client; retry counters and the redirect chain of a call | `get` | ECI servers; canary and report capture |
| Live canary (`live_results/canary.py`) | a report, a run row, one open transaction | `run_canary` | HTTP client, archive, ingestion |
| Statistical report capture (`statistical_reports/capture.py`) | `metadata.json` and `capture_report.json` in the archive | `capture_report`, `store` | HTTP client, archive |
| Affidavit ingestion (`affidavits/collector.py`, `persist.py`) | database tables, review items, one session per run | `run`, linkage, declarations, reviews | archive, identity, people and candidacies that result ingestion entered, people who close reviews |
| Affidavit form (`affidavits/parser.py`, `normalize.py`) | none (pure) | `parse_extracted_document` | affidavit ingestion |
| Indian amounts (`affidavits/currency.py`) | none (pure) | `parse_indian_amount` | affidavit normalization |
| API, web, admin | none (read only) | queries | database |
| Demo seed, import scripts, migrations, failure files | | one-shot | database |

What is hard in this code, and what therefore the properties are about:

* **A shared directory tree without locks.** Processes race between an
  `exists()` check and `mkdir`, directory names are digest prefixes that can
  collide, bytes are reused through symlinks, and a process may die between the
  three writes of an observation.
* **Check-then-insert ingestion.** Most tables have no unique key; what prevents
  duplicates is the order of lookups, flushes and early returns inside one
  transaction, including objects added to the session and not flushed yet
  (the sessions have no autoflush). Documents arrive changed, again, under
  another URL, or contradicting what is stored.
* **Concurrent sessions.** Nothing keeps two collector processes apart but the
  primary keys of ids that each chooses as the greatest it sees plus one.
* **Linkage.** An affidavit is tied to a person by an official id or a name while
  further results, and with them namesakes, arrive; what cannot be tied or read
  must reach a reviewer, once, and never be dropped.
* **Texts written by people.** Sections repeated or out of place, amounts in
  words: what is stored must be what stands there.
* **Partial failure.** A run row is committed before and after the work; what
  happens in between must be all or nothing, and the row must say which.
* **Retries, redirects and a shared budget** against a server that answers
  anything, and a canary that keeps or drops its pages depending on how it failed.

`PROJECT.json` lists every hazard with its line and the properties that cover it,
and every component with its status.

## 2. The modules

`ImmutableStore` is the abstract promise of the archive: a place receives at most
one observation, keeps its digest, and lost bytes never come back.

`Archive` is `archive_raw` as several processes execute it. `dirs`, `file`,
`link` and `meta` are the file system; `pc`, `req`, `dir`, `found` and `out` are
the local variables of each call. Its actions are the calls between which
another process matters: `Begin`, `Lookup` (the existing directory), `MakeDir`,
`Scan` (`_find_existing_payload`), `Store` (symlink, no symlink, or atomic write),
`Seal` (`metadata.json`, written last), `Return`. `Crash` may strike at any point
inside a call, and stands for an `OSError` as well; `Damage` is loss of bytes
outside the program. `_atomic_write_bytes` is one step, as `os.replace` makes it:
a partial temporary file has a name nobody reads. `Scan` is one step, too: it
returns any observation that verifies at that moment. Payloads are model values
that stand for their digests (no SHA-256 collisions); `Prefix` and `Short` map
them to 16 and 12 hex digits, which may collide.

`ElectionIngest` is one collector process: a run after another, each ingesting
one document. `db` holds committed tables, `tx` the tables as the session sees
them, `pending` what was added and not flushed. There is one action per
statement of `persist_normalized_election` that reads or writes a table, plus the
run life cycle (`StartRun`, `FinishRun`, `FailRun`), `Fault` (any stage or
statement raises) and `Crash`. Names stand for their normalized form, and
`Payload` is what parsing and normalization make of bytes, a constant.
When a namesake's second result is queued while the first one is pending, both
have the same id and the next flush raises; the action goes to that outcome at once.

`GuardedHttp` is `get` of both HTTP clients; `OkOnly` selects the
statistical-report client, which refuses every final status but 200. Each loop
iteration is `Consume` (budget) and one action per answer. `LiveCanary` extends
it with the loop over the configured URLs, the archive step, the verdict on the
page, the transaction and the run row; its `InGet` is the client's next step.

`StatCapture` is `capture_report` after the download: the prior observation, the
archive step, and the report file, by several processes that can die in between.

`ConcurrentIngest` is result ingestion by several processes at READ COMMITTED.
A document is the list of rows it leads to, in code order, and the statements
between which another process matters are steps of their own: `Look` (the
lookup), `Compare` (whether the URL had other bytes), `Number` (`_next_seq`),
`Insert` or `Collide`, and the life cycle of the run, whose id is chosen and
inserted in two steps as well (`Enrol`, `Start`, `LoseStart`). `own` holds each
session's uncommitted rows. An insert whose key another open transaction holds is
not enabled: it waits, as in PostgreSQL. `met` is a history variable, the pairs of
runs that overlapped. What the statements do to the tables in detail is
`ElectionIngest`'s subject; results and identifiers, one to one with a candidacy,
are left out. `SerialIngest` is what it promises: the tables, now and then changed
by one whole document, with the rows that the document adds when it is alone.

`IndianAmount` is `parse_indian_amount` over tokens, a value being its digits
before and after the point, next to a reference reading (`Plain`, `Reading`) of
amounts that leave nothing to interpret. What the parser removes from a text is
`Keep`, written with the ranks of the places that stay instead of by recursion, so
that it can be proved about; the instance compares it with `SelectSeq`. `AffidavitForm` is the parser of a Form
26, line by line: a line is a record of what the parser's patterns can tell of it,
whether the word Case is somewhere in it included.
Both were compared with the Python functions on generated texts (2000 forms, all
1464 short amounts) without a difference. `AffidavitIngest` is one
affidavit collector: one run after another, `Fault` and `Crash`, while
`ResultsArrive` (another results import commits) and `CloseReview` (somebody
closes an item) may happen between any two steps. `Registry` is what successive
imports have committed, a constant, and each SELECT on it is an action of its own:
`resolve_person_and_election` is `LookupId` (the row of the official id, whose
candidacy and election never change), `LookupPeople` (everybody of the name),
`LookupCandidacy` (the candidacies of one person, once for each) and `DecideLink`,
since at READ COMMITTED an import can commit between any two of them. What only
this collector writes (sources, affidavits, declarations, new review items) is
looked up and inserted in one action for each step of `persist_affidavit`. Bytes
that have a text may go unread all the same (`FetchUnread`): the archived file
cannot be opened again, or the suffix belies its content; it counts as a fault. `AffidavitText` ties the two together: `Form` is `ParseForm` of a text
for every digest, so that texts, parser, amounts and persistence are checked and
proved about together. The parser is written without recursion, for that reason:
which lines belong to a section is said of a line and the headings before it, and
the members of a section that are picked keep their order by rank.

`AffidavitLedger` is what affidavit ingestion promises of its tables, with
one step per document (`Enter`), besides what reviewers close and what results
teach. A document is recorded once as a source, and then either becomes the
affidavit of an owner (`Attribute`), with all declarations in one block and a
question for each field that could not be read, or is left to a reviewer
(`Refer`) with no word of what it says in the tables, which needs a reason: its
text was not got at, or results left its owner in doubt at some point up to then.
As the id is looked up before the name and results may arrive in between, doubt is
a matter of two states of the results, an earlier one for ids and the same or a
later one for names: `Certain[m][n]`. The ledger knows nothing else of
lookups, sessions, runs or the order of statements; owners (`Claimants`) and doubt
(`Doubtless`) are stated of the registry without the steps of the linkage.

Definitions whose names say how the code could be wrong (`MakeDirExistOk`,
`CloseAsSuccess`, ...) are the mutants: each property is checked to fail when a
definition is replaced by one of them.

The modules `*Proofs` hold the proofs, the `MC*` modules and `.cfg` files are the
instances.

## 3. What the runs check

| Run | Instance | Shows |
|---|---|---|
| `archive` | 2 processes, 2 payloads with the same prefixes, 2 buckets, 2 time stamps, 3 captures, 1 crash, 1 damaged file; symmetry in processes, payloads, buckets, stamps | observations verify, handles open the right bytes, one writer per directory, links end in regular files, copies are bounded, and the abstract store is implemented (nothing is rewritten) |
| `ingest` | 8 documents (a result, a correction, a later poll without a code, a taken identifier, two kinds of namesakes, an invalid one, a seat of the same name in another state), 2 URLs, 3 runs, 1 fault, 1 crash | nothing is entered twice, ingestion is all or nothing, conflicts and changes reach a reviewer, history is kept, reimport is a no-op, runs close |
| `http` | 4 allowed URLs and one outside, 5 requests, 1 retry, 3 hops | nothing outside the allowlist is contacted, no URL is revisited, retries are exactly the due ones, every call ends |
| `canary` | 2 pages, a redirect target, a foreign host, 3 requests, 1 retry, 1 hop, 2 canaries, 1 crash | the run row says what was committed, only archived pages up to the first failure are persisted, a hard stop is final, runs close |
| `capture` | 2 processes, 3 accepted payloads and a rejected one, 2 election types, 4 captures, 1 crash | reports have evidence, changes are linked to what they changed, only races give two first observations, metadata is kept |
| `affidavit` | 8 texts (complete, revised, incomplete, contradictory, scanned, nameless, with the id of somebody imported later, with an internal id), 2 URLs, 3 stages of results, 3 runs, 1 fault, 1 crash, 1 closed review item | links have evidence whatever arrives later, no document ends in silence, an affidavit is stored once and in full, amounts say what the text says, one row per declared line in order, open items are single, history is kept, reimport is a no-op, and the tables change one whole document at a time as in the ledger (`IsLedger`); every amount of up to 4 tokens is read as its plain reading, and `Keep` is `SelectSeq` |
| `concurrent` | 2 processes, 3 documents (a result, a correction that gives another name, the result of another seat with a person in common), 3 runs, 1 crash | one transaction writes at a time, natural keys stay single, what is lost is lost to overlapping runs, the tables change as in serial ingestion (`IsSerial`), runs close |

Five runs end in a violation, on purpose: each checks one statement that the
repository's documents or comments make and the code does not keep. `PROJECT.json`
quotes them under "findings".

| Run | The statement | What happens |
|---|---|---|
| `archive_observed` | "a new observation metadata directory is still created" | known bytes in the same category and year return the old directory; the new retrieval leaves no trace |
| `ingest_names` | "Never merge people using name alone" | two namesakes with two official ids in one election become one candidacy |
| `capture_repeat` | "same SHA → UNCHANGED" | after A, B, A a fourth capture of A is SOURCE_CHANGED, as the newest metadata is B's |
| `affidavit_incomplete` | "Ambiguous or incomplete → `IDENTITY_REVIEW_REQUIRED`" | a name alone is linked while one person of that name has one candidacy |
| `amount_zero` | "Unparseable → PARSE_FAILED (never silent zero)" | "0 crore 50 lakh" is 0 and EXACT |

Met while modelling, stated by no run:

* A constituency is found by its code in any state (`persist.py:168`), and live
  pages give its number within the state as the code: results of seat 1 of a
  second state are entered at seat 1 of the first. `IngestedOrReviewed` demands
  the right state only of constituencies that are found by name.
* Timeouts while a body is read are not retried, though
  `docs/eci-live-results.md` plans a limited retry for timeouts.
* A comment in `persist.py` says "Same bytes already ingested" of known bytes;
  those that came as SOURCE_CHANGED were recorded and never ingested.
* A later import of a namesake, or of a candidacy, can change what one form is
  linked to: bytes that come twice may then give two people an affidavit.
* Linkage reads the id, the people and their candidacies one after the other, and
  an import can commit in between. A form whose id is not there yet, and whose name
  is borne by two people once the import that brings the id has committed, is
  referred to a reviewer, although the results before and after agree on its owner.
  Nothing is lost, and the next run of the same bytes links it.
* The amount parser drops a minus sign, so that the check for negative amounts
  never fires, and ignores the words lakh and crore.
* A section that is repeated replaces the earlier one, and one line NIL in the
  section of criminal cases makes all of its cases disappear.

### Bounds

* Archive: two processes give every pairwise race, and every hazard involves two
  calls, with a third for a later reader or a second reuse. The payloads share
  their prefixes, so that every call meets a collision; two buckets let the same
  digest be recorded twice, two stamps keep and collide stamped directories. The
  main theorems are proved without these bounds.
* Ingest: an effect between documents needs at most two ingestions and a retry
  (reimport after change, conflict after result, retry after crash), hence three
  runs. The documents are chosen so that each branch of each lookup is taken.
* HTTP: the code's limits are 5 requests, 2 retries, 5 hops; with 5 requests its
  hop limit cannot be reached, so the instance lowers it to 3, and lowers retries
  to 1 so that two URLs can exhaust theirs within the budget.
* Canary: two pages separate "before", "at" and "after" the failing one. Budget 3
  runs out in the second page.
* Capture: A, B, A, A is the shortest history where the newest metadata is not the
  last capture, hence four captures.

* Affidavits: a retry after a failure, new bytes of a URL and the same bytes after
  other results each take two runs; three allow one of them to meet another. One
  fault, one crash and one closed item make each of those happen at any step. The
  results grow twice: a second candidacy of a known person, then a namesake, whose
  import also brings the id that a form names. The two URLs are interchangeable:
  the model compares URLs with one another and nothing else, and nobody reads the
  document that stands for none between two runs, which makes the symmetry sound;
  liveness, with which it would not go together, is not checked here.
* Concurrent: every race is between two processes; the third run is the later
  reader of what a race left behind. The theorems are about any number of both.
* Amounts: four tokens hold a mark, digits around a point, and a word; no branch
  of the parser looks at more.

### Fairness

Only liveness needs it. `ElectionIngest` and `LiveCanary` assume weak fairness of
`Proceed`, `GuardedHttp` of `InCall`: each is one thread that runs until it
returns, waits for nobody but the server and the database, and httpx bounds the
wait for the server. A process that dies leaves its run RUNNING for good, so
`RunsAreClosed` says nothing any more once a crash has happened. `ConcurrentIngest` assumes it of `Proceed(p)` for each
process: an insert waits only for a transaction whose process goes on itself, and
`OneWriterAtATime` means that this process waits for nobody, so that the database
never has a deadlock to break. `Enrol`, `StartRun` and
`Launch`, results, reviewers, faults and crashes are not fair.

## 4. What is proved

`ArchiveProofs` is about any sets of processes, payloads, buckets, names and
stamps and any bounds, from `NamesAssumption` (prefixes of equal
16-digit prefixes are equal), `MarkersAssumption` (the markers are not data) and
`BoundsAssumption`.

The properties are not inductive: that two processes never write one directory
holds because a directory under construction is in `dirs` and has no metadata,
that metadata verifies holds because the process about to write it has already
made its file or link, and a link is sound because what `Scan` returned is a
regular file that nobody rewrites. The invariant `IInv` states these facts for
every program counter. `Inductive` proves `Spec => []IInv`, action by action, and
the others follow:

* `ArchiveVerifies`: `ObservationsVerify` always holds.
* `HandlesSound`: `HandlesAreSound` always holds.
* `DirectoriesExclusive`: `OneWriterPerDirectory` always holds.
* `LinksFlat`: `LinksAreFlat`, and `TypeCorrect`: `TypeOK`.
* `CopiesBounded`: `CopiesAreBounded`, for finitely many processes
  (`ProcsAssumption`). What bounds the copies of one content is an account: a
  directory that nobody finished takes a crash (`Orphans`), and a call about to
  write a copy of its own takes its process with it, so that copies and calls
  together are no more than processes and crashes.
* `WriteOnce`: `NeverOverwritten`, which no run checks, as `IsImmutableStore` says more.
* `ImplementsStore`: `IsImmutableStore`, by mapping `Seal` to `Record`, `Damage`
  to `Rot`, and every other action to a stutter.

`ElectionIngestProofs` is about any payloads, documents, numbers of runs, faults
and crashes, from `PayloadAssumption` (a payload is what normalize returns),
`DocumentsAssumption` and `BoundsAssumption`. Four invariants build on each other:

* `WellTyped` (theorem `Typed`) adds to `TypeOK` that the loop's index is an entry
  of the payload, without which a result row would have no score. `TypeCorrect`
  follows.
* `History`: what the session sees extends what is committed, and it differs from
  it only while the bytes being ingested are new. It gives `HistoryKept`
  (`HistoryIsKept`, whose part about SUCCESS needs only that a run under way has a
  row) and `ReimportKeepsTables` (`ReimportIsNoOp`).
* `Reviewed`, of the committed tables and of the session's: a document that is
  not the first of its URL is in `review`. It gives `ChangesReviewed`.
* `Consistent`: the session's tables are free of duplicates, each result belongs
  to a candidacy, and the pending result belongs to one that has none yet, unless
  the transaction is about to be undone. The last part is what makes a flush
  safe: a result added while another is pending, which the query for known
  results and for the greatest id cannot see, only occurs on the way to the
  rollback. It gives
  `NothingEnteredTwice` (`NothingTwice`). That a person is created when no person
  *or several* have the name is harmless only because names are unique by the
  same invariant.

`ElectionEvidenceProofs` has the same assumptions, and says where the rows come
from. The invariant `Recorded` is kept of the committed tables and of what the
session sees: every reference leads to a row, every identifier has a payload that
published it for this person at this poll, every first document of a URL that is
not under way has all its results or a review (`Told`); and of the document under
way, the candidates before the cursor have their results and the current one is
where the statement needs it (`UnderWay`). `IdentifiersEvidenced`
(`IdentifiersFollowPayloads`) and `Ingested` (`IngestedOrReviewed`) follow.

`ConcurrentIngestProofs` is about any processes, documents with any rows, runs and
crashes, from `RowsAssumption`, `DocsAssumption` and `BoundsAssumption`.
`SafeInvariant` is the reason why ingestion gets away without locks: committed
source ids are exactly 1 to n, every run inserts its source first, and so whoever
has uncommitted rows holds source n + 1, whose primary key stops everybody else
at their source. `OneWriter` (`OneWriterAtATime`) follows. `KeyedInvariant` adds
that a natural key is single in each session's view and absent from it between
lookup and insert, which nobody else can change meanwhile: `NaturalKeys`
(`NothingTwice`). For `OnlyRaces` (`OnlyRacesHarm`) the invariant relates the
source of every process and every committed source: different digests and, for
one URL, a review, unless the two runs overlapped.

`ImplementsSerial` (`IsSerial`) puts these together: statements of several
sessions, in any order, implement serial ingestion. The invariant `Whole` says of
each session's uncommitted rows that every line it has resolved has its row there
or among the committed ones, every row of its own is one of its lines, and their
ids are above all committed ones of their table. At the commit the script is at
its end, and the step is one `Enter` of the document; every other step, of
whichever session, leaves the committed tables alone. Nothing of another session
can have come in between, as it would have had to hold the source's key.
`ConcurrentTypeCorrect` (`TypeOK`) needs that a process at work has a run that is
still RUNNING, which only it can close.

`AffidavitIngestProofs` is about any forms, results, documents, runs, faults,
crashes and reviewers, from the four assumptions of `AffidavitIngest` and, where
texts are concerned, `TextAssumption` and `FieldsAssumption`. `Base`
(types; the session extends what is committed and equals it until the source
step) gives `AffidavitHistory` (`HistoryIsKept`). `OpenItems`
(`OpenItemsAreSingle`) follows as `add_review` looks before it adds and closing
only removes an open item. `EvidencedLinks` (`LinksAreEvidenced`) holds although
the results change under the link, as they only grow. `NothingDropped`
(`NothingIsDropped`) needs that every source but the one being worked on has its
affidavit or review item, and `Reimport` (`ReimportIsNoOp`) that known bytes
leave the session equal to what is committed up to the end of the run.

`NothingLeftOut` (`StoredInFull`) needs the invariant `Whole`: every affidavit but
the one being declared has its declarations in one block, in the order of the
form, and a review item for each that failed; of the one being declared the block
has as many rows as the loop has done, and it is the last one, so that the next
row continues it. This holds of the session's tables and of the committed ones,
since only a run that came to its end commits.

`AmountsRead` (`AmountsAreRead`) holds of texts of any length. The lemmas before it
are about `IndianAmount` alone: the ranks of the places that stay are 1, 2 and so
on in their order (`Ranked`, by counting), so that what stays keeps its order
(`KeepIs`, `KeptFrom`); the first digit and the end of its run exist
(`FirstDigitIs`, `RunEndIs`); whatever the text, a number or none comes out, with
the status that goes with it (`ParseAmountIs`); and the number found first in a
plain amount is all of it, the part before the point and the part behind
(`PlainIsRead`). `AffidavitTypeCorrect` (`TypeOK`) takes the types of the columns
from the same lemmas.

`LinesStored` (`LinesAreStored`) is about texts of any length, and says that the
rows of a committed affidavit are those that its text declares, one for each line
and in the order of the lines. The members of a set of places that are picked
copy the places in their order (`PickedIn`, on top of the ranks). What the
parser takes for the body of a section is the stretch of lines that a reader of
the text would take for it (`BodyStands`). The form is put together from the
sections, and the items of one field lie in it as one segment, wherever others
come before and after (`ItemsLie`). `Whole` has moved that segment to the
affidavit's block; so a row has a line, a line a row, and both the same order.

`ImplementsLedger` (`IsLedger`) is the refinement. The invariant `Draft` says of each
step what the session holds beyond the committed tables: after the source step the
source and the question whether it changed; while declarations are written
the affidavit of one of the owners, the first l declarations of the form in the
block behind the committed ones, and the questions of those that could not be
read; at the end either nothing new or one of the two outcomes of `Enter`,
complete. `Puts` relates the reviews of session and tables, and survives
a reviewer who closes an item in both. That a linked candidacy is still an owner
at the commit needs that results only grow (`OwnersStay`). That whoever is
referred was in doubt is followed through the lookups: after that of the id,
either it is decided or some state of the results has left it unknown
(`Unknown`); from then on an import can only turn a name that settles it into a
doubt, and while it has not, one person is looked up or one candidacy is found
(`Single`); so if that fails, the earlier state for the id and the later one for
the name are the two that leave the doubt (`IdUndecided`, `NameUndecided`). `Draft` rests on the other invariants: the source is
single (`Settled`), a known affidavit leaves the session unchanged (`Idle`), the
link has evidence (`Links`), the loop ends with the form's last item (`Whole`), and
what is added is asked only once (`Questions`). Then a commit is one `Enter` or
nothing, a closed item is `Close`, a result import `Learn`, and every other step,
a failure or a death in particular, leaves the tables as they were.

`StatCaptureProofs` is about any finite set of processes, any payloads, types and
numbers of captures and crashes, from `StatAssumption`. Metadata only grows
(`Kept`); what a process remembers as prior is still there when it acts on it,
which gives `Reports` (`ReportsHaveEvidence`) and `Changes` (`ChangesAreLinked`).
For `Races` (`FirstsAreRaces`) the invariant maps first observations into
processes one to one, apart from those that are about to make another: there are
no more of them than processes.

`GuardedHttpProofs` is about any URLs, allowlist, budget, retries and hops, from
`HttpAssumption`. `Contacts` (`ContactsAreGuarded`) rests on what `tried` says of
the redirect chain: it is the chain's URLs, each in one run of attempts, then the
current one. `Retries` (`RetriesAreExact`) counts the attempts at each URL
against the two retry counters. `HttpTypeCorrect` (`TypeHttp`) bounds these.

`LiveCanaryProofs` is about any configuration (`ConfigAssumption`), and builds on
the client's types. `Placed` says which outcome of a call each stage may see,
which gives `HardStop` (`NoCallAfterHardStop`). `Kept` says what the transaction
holds at each stage: the pages before the current one, and at the close all of
them or a proper prefix if the canary was stopped; it gives `Prefix`
(`PersistsArchivedPrefix`), and with the open row being RUNNING `StatusTruth`
(`StatusTellsTruth`). `CanaryTypeCorrect` (`TypeOK`) takes the client's types from
`HttpTypeCorrect`'s invariant.

Only model-checked: liveness (`RunsAreClosed` of three modules, `CallsEnd`), which
needs fairness and `ENABLED` and is out of the proof system's reach. Every safety
property and every refinement that a passing run checks is also proved. The other
way round, no run repeats the type invariants of the client, the canary, the
concurrent sessions and the affidavits, which are proved. That the parser and the
models of amounts and forms agree with the Python code is a matter of reading and
of the comparisons above, not of proof; so is what the violation runs show.

## 5. What is not modelled

* The text of result documents and reports: HTML layout, JSON parsing, formatting
  of ids and names. They are constants or arbitrary verdicts. So is the extraction
  of text from PDF files, whose result depends on the bytes or is a failure. Of affidavits, education levels, the status of a case,
  descriptions and page numbers are left out.
* The value and width of an amount in the database (`Decimal`, `NUMERIC`).
* Time between requests (`MIN_REQUEST_INTERVAL_SECONDS`): a pause in one thread.
* Run statistics, log lines, failure files, git metadata: written and never read.
* Result and identifier rows in `ConcurrentIngest`, and affidavit imports by two
  processes at once; their rows would hang on the same lock of the source id.
* Documents of the two collectors share the source table; their bytes and URLs
  differ, and each model leaves the other's out.
* The read-only API and the front ends, the seed, scripts and migrations: no
  state of their own, or a fixed sequence that runs once.

## 6. Plan

What is left: affidavit and result imports by two processes over one source table,
and which of the results of `ConcurrentIngest` hold of the two collectors together.
The refinements `IsSerial` and `IsLedger` are the two halves of it.
