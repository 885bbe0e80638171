# A verification model of the Candelaria purchasing backend

The program (`src/backend/src/adc_backend`) takes supplier price lists, matches
their rows to Amazon products, classifies each row (BUY, HIGH_RISK, REVIEW,
NEGOTIATE, NO_BUY) and puts every BUY and HIGH_RISK row before the owner, one at
a time, over Telegram. The TLA+ modules here model
the way of a list through the program: the upload and its column mapping, the
background run with its message queue, what a pass does to one row, the rules, and
the approval queue, in two depths: call by call, and statement by statement. Paths
below are relative to `src/backend/src/adc_backend` unless they start with `docs/` or
`infra/`.

## The system

| Component | State it keeps | Operations | Talks to |
|---|---|---|---|
| Ingestion (`modules/ingestion`) | `list_runs`, `raw_line_items`, the file in S3 | `ingest_file` | REST upload |
| Normalization (`modules/normalization`) | proposed and confirmed column mapping, normalized columns of a row | `propose_mapping_for_run`, `confirm_mapping`, `apply_normalization` | REST; the worker |
| List run and worker (`modules/tools/orchestration.py`, `worker.py`) | run status and counters; an SQS message | `process_run`, `_handle_message` | every module below |
| Product matching (`modules/matching`) | `product_matches` | `find_or_propose_match`, `confirm_match`, `reject_match` | worker; REST |
| Amazon and Keepa clients (`modules/amazon`) | snapshots | price, fee, restriction, velocity calls | worker |
| Rule engine (`modules/rules`) | active config, `classification_results` | `classify`, `classify_line_item` | worker |
| Manual review (`modules/review`) | `manual_review_queue` | `evaluate_and_route`, resolve, dismiss | worker; REST |
| Approval queue (`modules/approvals`) | `approval_queue`, `approval_audit_log` | `create_from_classification`, `resolve_active_item`, `revoke_decision`, `reorder_queue`, `list_queue` | worker; MCP tools; REST |
| Reminder job (`reminder_job.py`) | the timing columns of `approval_queue` | `check_and_send_reminder`, every minute | Telegram |
| MCP server, REST router | none (a session per call) | the calls above | OpenClaw; the administrator |

Everything is shared through one PostgreSQL database. Three kinds of process
use it at once: API tasks (more than one behind the load balancer, and a thread
pool in each), the worker, whose transaction lasts a whole list run
(`worker.py:73-74`), and the reminder job.

What makes the components correct:

* *Approval queue.* One active item; nothing waits behind nothing; positions
  that order the queue as the calls promised; a decision only by an answer, never
  flipped by a retry, always explained by the audit log.
* *Reminder job.* Silence on a holding item, no reminder past the sixth, no skipped
  announcement, an end to the reminders of every unanswered item.
* *List run.* Passes over one list do not overlap; a message is gone only when its
  list was processed; every request is settled; a row that cannot be judged reaches a
  person.
* *Matching.* A confirmed match is never overwritten by a guess.
* *Rule engine and review.* The label is the one the rules table gives; every row
  that needs a person reaches the review queue.
* *Ingestion, normalization.* What is visible is complete; no cell of the sheet is lost;
  two fields never share a column.

The hard behaviours, each at its line, are in `PROJECT.json` under `hazards`, with
the properties that would catch them going wrong.

## The modules

| Module | What it is |
|---|---|
| `SheetIntake` | upload, S3, parser, mapping proposal and confirmation, each request a transaction |
| `RuleEngine` | `classify` of the rule engine with its trace, and the table it is compared with |
| `AmazonClients` | what is read from the answers of SP-API and Keepa, and what the rules get of it |
| `RowRouting` | the item type of a row, and the reason for a manual review |
| `RowPipeline` | one row through any number of passes, with the owner's decisions between them; extends the three above |
| `ListRuns` | the queue, the workers, each pass as a transaction, the owner's requests that overlap with it |
| `ApprovalQueue` | the table, the four service calls, the reminder job and the clock; a call is one atomic action per return path |
| `ApprovalLifecycle`, `ApprovalQueueRefinement` | the abstract specification (what waits, what is shown, what was decided) and the mapping from the table to it |
| `ApprovalSessions` | the statements inside the approval calls, run by overlapping transactions |
| `MC...` | the instances TLC checks |
| `...Proofs` | theorems checked by TLAPS |

`RowPipeline` and `ListRuns` cut the same code along different lines. `RowPipeline` has
every branch of a row's processing and runs passes and decisions one after the
other; `ListRuns` keeps of a row only that it is matched, may fail and may need a
review, and interleaves everything. The rows of a list share nothing but
`product_matches` and the transaction, which is why one row with an arbitrary end
(`RollBack`) stands for each of them. What a pass puts into the approval queue enters
`ApprovalQueue` and `ApprovalSessions` as a create call.

Operators named `Buggy...`, `Un...`, `...Rewritten` and so on that stand next to a
definition and are used by nothing are its mutants: plausible mistakes that the
properties are known to catch (`PROJECT.json`, `mutants`).

### SheetIntake

`tx` is the list as the open transaction has it, `run` the committed one, `stored`
the uploads in S3, which no rollback removes. A cell of a file is None, or a text
with or without white space around it (`Cells`); `Str` and `Stripped` are the conversion to
text that comes after `parse_pdf` has compared the raw rows (`Repeats`, `ReadGrid`). A text is
a tuple of its parts, so that a number appended to a header is one more part. The parser is
translated as
operators (`CombinedGrid`, `HeaderIndex`, `HeaderName`, `RawData`), and the greedy
choice of the mapping as one action per claimed pair. Where the code runs through a
sequence with a condition, the model says which elements it keeps: `FirstTable` and
`Repeats` are the tests of `parse_pdf`, `DataIndices` the rows that are data, and `KthOf`
numbers them, as `row_number` does.

| Code | Definition |
|---|---|
| `ingest_file` (`modules/ingestion/service.py`), the upload endpoint | `UploadList`, `UploadSourceFile`, `ParseFile`, `Commit`, `RollBack` |
| `parse_pdf`, `_rows_from_grid` (`modules/ingestion/parsers.py`) | `CombinedGrid`, `ParsedRows` |
| `propose_column_mapping` (`modules/normalization/column_mapping.py:79`) | `ProposeMapping`, `Claim`, `FinishProposal` |
| `confirm_mapping` | `ConfirmMapping` |

`FAILED` is never an outcome: the service flushes it and raises, and the endpoint's
rollback takes it back (`modules/tools/router.py:97`), so a failed upload leaves a file in
S3 and no row.

### RuleEngine, AmazonClients, RowRouting and RowPipeline

Money is in whole units and percentages are cross-multiplied instead of divided. A
trace is the set of its `<<rule, result>>` entries. `Classify` follows the code's
early returns; `LabelOf` is the table of `modules/rules/engine.py:22-37` without the order of its
lines: for each label the conditions under which, and only under which, a product deserves
it. `LabelIsDeserved` compares the two on what a pass has stored. `db` is committed, `tx`
the worker's transaction. `answer` is the snapshot the pass fetched; `failed`,
`judged` and `unruled` record which branch it took.

| Code | Action |
|---|---|
| `apply_normalization` on a row | `ApplyNormalization` |
| `find_or_propose_match` (`modules/matching/engine.py:93`) | `Match`, `SearchFails` |
| `_fetch_and_store_snapshot` (`modules/tools/orchestration.py`) | `FetchSnapshot` |
| `classify_line_item` (`modules/rules/service.py`) | `ClassifyLineItem`, `SkipClassification` |
| `create_from_classification` | `CreateApproval` |
| `evaluate_and_route` (`modules/review/service.py:35`) | `EvaluateAndRoute` |
| commit or loss of the run | `Commit`, `RollBack` |
| `confirm_match`, `reject_match`, resolve and dismiss | `ConfirmMatch`, `RejectMatch`, `ResolveReviewEntry`, `DismissReviewEntry` |

### ListRuns

The whole run is one transaction (`worker.py:73-74`). Its first flush, of
`PROCESSING`, takes the lock of the `list_runs` row; `tx[w]` holds the rows worker `w`
has written since, which others must wait for. An UPDATE writes the columns that
differ from what its session has read (`Proposed`, `Decided`), on the row as it is
when the lock is granted. A message goes unsent, visible, in flight, deleted or
dead; the redrive policy and the visibility timeout are those of
`infra/modules/sqs/main.tf`. `Abort` is every way to lose a pass: a killed task, a
deadlock, a failed flush. `agreed`, `refused` and `honoured` are history variables.

| Code | Action |
|---|---|
| `POST /runs/{run_id}/process` | `ProcessRunEndpoint` |
| `receive_message`, `_handle_message` (`worker.py`) | `Receive`, `Commit`, `DeleteMessage`, `Abort` |
| SQS | `VisibilityTimeout` |
| `process_run` (`modules/tools/orchestration.py:44`) | `ApplyNormalization`, `ReadMatch`, `ProposeMatch`, `FailRow`, `ReadReview`, `WriteReview` |
| the owner's endpoints | `OwnerAsks` (what is read), `OwnerWrites` (what is written), `DecideReview` |

### ApprovalQueue

A row is spread over one variable per column. `summary_payload["classification"]` is
`classification`; `resolution` stands for the three columns that are always written
together; a timestamp is the time elapsed since it, cut off where the code stops
telling the difference (`Horizon`); `initial_notice_sent_at` is only asked whether it is
NULL, so it is the Boolean `notice_sent`. `audit` is the audit log per
`approval_id`, with the rows logged under NULL under `Null`.

| Code | Action |
|---|---|
| `create_from_classification` (`modules/approvals/service.py:205`) | `CreateActive`, `CreateQueued` |
| `resolve_active_item` (`:351`), `_advance_queue` (`:337`) | `ResolveLast`, `ResolveAndAdvance`, `ResolveReplay`, `ResolveRejected` |
| `revoke_decision` (`:455`) | `RevokeToActive`, `RevokeToQueue`, `RevokeRejected` |
| `reorder_queue` (`:552`) | `Reorder` |
| `check_and_send_reminder` (`reminder_job.py:189`) | `InitialNotice`, `SendReminder`, `Hold` |
| `datetime.now(UTC)` | `Tick` |

`ORDER BY queue_position` leaves ties open, so the first row is any member of
`Front`, and the rows a new one is inserted behind are any set that a sorted
list could begin with (`InsertBehind`).

### ApprovalSessions

One session makes one call, in a transaction of its own. The worker's goes on: `process_run`
creates an item for every gated row of its list before the one commit
(`modules/tools/orchestration.py:65-67`, `:129-132`, `worker.py:73-76`), which is
`NextCreate`. From one row to the next the session keeps what it has written, its locks, and
any part of its identity map, which refers weakly to rows nothing else refers to. Its program counter stops at every statement that reads
or writes the database, and `RollBack` may end it at any of them (an exception,
a crash, a deadlock, a lost race for the unique index). `rows` is what is
committed, `writes[s]` what session `s` has flushed (and holds the row locks of),
`plan[s]` what it has assigned in Python and not flushed (`autoflush=False`,
`db/base.py:49`), `seen[s]` SQLAlchemy's identity map: a second SELECT of a row does
not refresh its attributes, which is why a session may act on a row as it was.
The reminder statuses and
holding are two values that alternate, so that every reminder changes the status.
`Begin` is the only source of calls; the
tables calls start from are those the sequential model calls consistent, without
gaps (`QuietTable`). `overlapped` is a history variable: two transactions have been open at
once. `Lifecycle` is `ApprovalLifecycle` read off `rows`, the same abstract
specification that `ApprovalQueue` implements with its calls as single steps. As long as
nothing has overlapped the statements implement it too, each commit as one step; the
commit of the worker is `Recommend(S)`, with all the items of a list in `S`.

`ApprovalQueue` takes every create as a step of its own: between two creates of one
list it lets other calls in, which the worker's transaction does not, so it has every
order of completed calls and some more. An exception inside a create (a shift over a
position that is NULL, say) is caught for its row (`modules/tools/orchestration.py:69`) and
the transaction goes on; `ApprovalSessions` has only the rollback of the whole transaction
there. Such a position needs an overlap, and so `TableConsistent` is not affected.

## What is checked

| Run | Instance | Properties | What it shows |
|---|---|---|---|
| `calls` | 4 items, calls only, 2 audit rows per item | `ColumnsAgree`, `AtMostOneActive`, `NoneStranded`, `PositionsAboveRank`, `OnlyExplicitReorder`, `ReorderedIsNextUp`, `NoPreemption`, `ImplementsLifecycle` | the queue as a data structure, and that it implements the lifecycle |
| `timing` | 2 items, waits 1 and 2, 3 reminders, 2 audit rows | `TypeOK`, `DueTimeDefined`, `AuditExplainsDecision`, `HoldingIsSilent`, `DecisionStands`, `UnansweredIsHeld` | calls, job and clock interleaved; retries and conflicts; an item nobody answers ends in holding |
| `overlap` | 3 items, 3 transactions of any kind, all open | `TypeOK`, `OneActiveRow`, `RevokedOnce`, `NoticeNotSkipped`, `TableConsistent`, `CallsAreLifecycleSteps` | what the index, the conditional UPDATE and send-then-record guarantee under any overlap; and, in the behaviours where nothing has overlapped, that a transaction cut short anywhere leaves no trace and a whole one is a step of the lifecycle |
| `rows` | 9 texts, 3 hits, 21 answers, 2 passes | `TypeOK`, `LabelIsDeserved`, `ApprovalTellsWhy`, `UnjudgedIsReviewed`, `OwnerDecisionStands`, `ConfirmedMatchKept` | every branch of a row, twice, with the owner in between |
| `sheets` | every header of 3 cells over 5 cells, 10 catalogs, 2 uploads | `TypeOK`, `RunIsComplete`, `PlainHeadersKeepCells`, `RepeatedHeadersAreDropped`, `ProposalIsInjective`, `ProposalIsStable` | what becomes visible is complete, keeps its cells and proposes a stable mapping |
| `list_runs` | 1 list of 1 row, 1 message received up to 3 times, 2 workers, 2 owner requests | `TypeOK`, `OnePassAtATime`, `RequestHonoured`, `DecidedReviewStands`, `ConfirmationSurvives`, `RequestSettles` | redelivery to a second worker, kills, lock waits and the owner, at every step |
| `new_high_risk`, `fresh_cycle`, `stranded`, `opposite_answers`, `reminder_race`, `confirmed_match` | see below | one each | where a comment or document and the code disagree |

*Bounds of the approval runs.* `MaxPosition` keeps positions small, `MaxAudit` limits the
calls logged under one id; both are guards, named, and stop the calls, not the job or
the clock. Four items give an active row and three waiting ones, the fewest with a
first, a middle and a last, so that gaps, ties and undercutting all occur. Decisions
concern one row and its competitor, so two items suffice for the audit log. Waits
of 1 and 2 ticks keep the two intervals different. Three overlapping transactions are
one more than any of the known races needs.

*Bounds of the other runs.* In `rows` a cost and a price are chosen for each side of
each threshold, and one price at which the ROI no longer fits its column; the answers
differ from a good one in one respect each, which is what a sequence of early returns
tells apart. Two passes are the fewest in which something is left over from an
earlier one. In `sheets` three columns can be blank, equal, or equal to a made-up
name or to "column", in any combination, above rows that are full, blank, too wide and too short.
In `list_runs` one message is already with two workers at once, since the timeout may
run out at any step; three receives are the redrive policy's. The properties speak
of one list and one item at a time. That rows, lists and messages do not
interfere across that line is what the theorems about `ListRuns` show, for any number
of them.

The runs with `CHECK_DEADLOCK FALSE` are those whose bounds exhaust the calls. Rows (and
sessions) are interchangeable in the approval modules, so safety is checked up to their
permutations; the runs with liveness use no symmetry.

*Fairness.* Of the reminder job and the clock: the scheduler starts the job every
minute (`infra/modules/eventbridge_scheduler/main.tf`), and a send that fails is tried
again in the next minute, so the assumption is that Telegram does not refuse for ever.
Of the workers in `ListRuns`: ECS keeps a task running, every call it makes times out,
PostgreSQL ends a deadlock by aborting one side, and SQS counts the visibility timeout
down. That a pass comes through is not assumed: `Abort` may strike every time, and the
message then ends in the dead-letter queue. No step of the owner is fair.

### Where documents and code disagree

* `new_high_risk`: "a new HIGH_RISK item is appended at the end"
  (`modules/approvals/service.py:213`), but the position given is the number of
  waiting rows plus one, and `reorder_queue` leaves gaps.
* `fresh_cycle`: the promoted item's cycle "begins fresh"
  (`docs/openclaw/OPENCLAW_APPROVAL_STATE_MACHINE_SPEC.md:79`), but an item that was revoked
  to the queue keeps its reminder count. With six used, its next activation goes to
  holding without a message.
* `stranded`: a create and a resolve that overlap leave an item queued behind nothing.
  The next item created becomes active, and only its answer moves the
  stranded one. The window is as long as the worker's list run.
* `opposite_answers`: `resolve_active_item` promises that an ambiguous retry never gets to
  "flip a decision that's already been made" (`modules/approvals/service.py:363-368`). Two
  opposite answers that both read the item as active both succeed: the second UPDATE waits
  for the first commit and overwrites its decision.
* `reminder_race`: a reminder that is being sent while the owner answers writes
  `reminder_N` over `approved` or `denied`.
* `confirmed_match`: `find_or_propose_match` "does not overwrite a CONFIRMED match with a
  new guess" (`modules/matching/engine.py:103`). The worker replaces a proposed ASIN and
  keeps the row locked until the list is done; `confirm_match`, having read the old
  one, waits and then writes the status alone. The new guess is confirmed.

Seen on the way and not kept as runs, because nothing in the repository states the
opposite, or because the text that does is about something wider:

* *Approval.* A reorder that overlaps a resolve leaves a position on the active row
  (`TableConsistent` without its condition); the first reminder counts from
  `pending_started_at` (`reminder_job.py:225`), not from the message.
* *One row stops its list.* `modules/tools/orchestration.py:7-11` says that one bad row must
  not fail the whole run. A row whose flush fails (an ROI beyond `Numeric(8,4)`, at a low
  cost) leaves the session unusable; `evaluate_and_route` in the `finally` block then raises
  too, the run is rolled back, tried again, and dead-lettered. In `RowPipeline` this is
  the state `spoilt`, from which only `RollBack` leads on.
* *Rows out of sight.* `modules/tools/orchestration.py:122-125` says of a row without an
  active rules config that it "surfaces as a review case rather than crashing the row". It
  does not: the error is swallowed, the row is neither labelled nor failed, and
  `determine_review_reason` finds nothing to review. That is the `unruled` exception of
  `UnjudgedIsReviewed`, which fails without it. The other exception is a proposal without an
  ASIN that the owner confirms: it is never searched or reviewed again. A rejected ASIN, on the other hand, is proposed
  again by the next pass.
* *Labels of doubtful matches.* A match of low confidence is classified, and put up for
  approval, before the owner has confirmed it; missing fees count as zero
  (`modules/rules/engine.py:174`).
* *Second passes.* A list processed twice, by the owner or by a redelivery after the
  commit, puts every gated row into the approval queue twice.
* *Status.* `PROCESSING` is never visible, since it is flushed and committed over.
  `COMPLETED` may stand beside a mapping that was never applied
  (`modules/normalization/service.py:80`), and beside a count of errors that an overlapped
  pass left (`modules/tools/orchestration.py:84`).
* *Parser.* The comment at `modules/ingestion/parsers.py:90` wants the keys "stable and
  unique", but a made-up name that equals a later header gives two columns one key, and a
  cell is lost (`:93-100`). It takes no header that looks made up: under a blank first header
  and two called "column", both the first and the third column are `column_1`. A title row
  above the header defeats the recognition of repeated headers (`:158-161`), and so does a
  repeated header with another number of cells: cut or padded to the header's width
  (`:108`), it is a row of data that equals the header. The rows are compared before None
  becomes the empty text and white space goes (`:158` against `:89`, `:105`), so that a repeated
  header with a None or a space elsewhere also stays, as a row of data equal to the header. The
  properties exclude these cases, and fail without that.
* *Router.* `GET /runs/compare` is declared after `/runs/{run_id}`
  (`modules/tools/router.py:103`, `:238`), which answers in its place.

## What is proved

Each theorem holds for every value of the constants that satisfies the named
assumptions, which TLC evaluates in the runs.

| Module | Theorem | States |
|---|---|---|
| `ApprovalQueueProofs` | `TypeCorrect`, `ColumnsAlwaysAgree`, `OneActive`, `NeverStranded` | `Spec => []TypeOK`, `[]ColumnsAgree`, `[]AtMostOneActive`, `[]NoneStranded` |
| | `Refinement` | `Spec => ImplementsLifecycle` |
| `ApprovalQueueStepProofs` | `DueTimeAlwaysDefined` | `Spec => []DueTimeDefined` |
| | `NeverPreempted`, `HoldingStaysSilent`, `DecisionsStand` | `Spec => NoPreemption`, `HoldingIsSilent`, `DecisionStands` |
| `ApprovalQueueOrderProofs` | `PositionsNeverCollapse`, `LogExplains` | `Spec => []PositionsAboveRank`, `[]AuditExplainsDecision` |
| | `OrderIsKept`, `ReorderedComesNext` | `Spec => OnlyExplicitReorder`, `ReorderedIsNextUp` |
| `ApprovalSessionsProofs` | `SessionsTyped`, `OneRowIsActive`, `RevocationsAlternate`, `NoticesReachTelegram` | `Spec => []TypeOK`, `[]OneActiveRow`, `[]RevokedOnce`, `[]NoticeNotSkipped` |
| | `SerialTablesAreConsistent`, `SerialCallsAreLifecycleSteps` | `Spec => []TableConsistent`, `CallsAreLifecycleSteps` |
| | `SerialImplementsLifecycle` | `Spec`, from an empty table and with `[]~overlapped`, implies `Lifecycle!Spec` |
| `RuleEngineProofs` | `DecisionTable` | the label of `Classify` is the one whose conditions in `LabelOf` hold, for all inputs and every config |
| | `GatedLabelTells` | a BUY or HIGH_RISK trace explains itself |
| `RowPipelineProofs` | `RowTypes`, `LabelDeserved`, `ApprovalExplains`, `NothingDropped` | `Spec => []TypeOK`, `[]LabelIsDeserved`, `[]ApprovalTellsWhy`, `[]UnjudgedIsReviewed` |
| | `DecisionStands`, `ConfirmedStays` | `Spec => OwnerDecisionStands`, `ConfirmedMatchKept` |
| `ListRunsProofs` | `RunTypes`, `OnePass`, `Honoured` | `Spec => []TypeOK`, `[]OnePassAtATime`, `[]RequestHonoured` |
| | `DecidedStands`, `ConfirmationStays` | `Spec => DecidedReviewStands`, `ConfirmationSurvives` |
| `SheetIntakeProofs` | `IntakeTypes`, `CompleteRuns`, `InjectiveProposal`, `StableProposal` | `Spec => []TypeOK`, `[]RunIsComplete`, `[]ProposalIsInjective`, `[]ProposalIsStable` |
| | `CellsStay`, `NoHeaderAmongRows` | `Spec => []PlainHeadersKeepCells`, `[]RepeatedHeadersAreDropped` |

*ApprovalQueue.* Assumed: `Items` is finite (a position is computed from a cardinality);
waits are natural and `MAX_REMINDERS` is at most six, the entries of
`_REMINDER_STATUS_BY_COUNT`; NULL is no key, number or enumeration value. The inductive
invariant is `IInv == TypeOK /\ ColumnsAgree /\ AtMostOneActive /\ NoneStranded`. `TypeOK`
needs `ColumnsAgree`: a call shifts the positions of the queued rows, which are numbers
because a queued row has one; and `ColumnsAgree` needs `TypeOK` for the rows a step leaves
alone. `ColumnsAgree` also says that an active row is not queued. So the row an answer
promotes is another than the one answered, which is what keeps exactly one flag set,
and a reminder leaves the set of queued rows as it was, which is what `NoneStranded`
needs. The refinement uses `AtMostOneActive`: after an answer the promoted row, and no
other, is shown. `DueTimeDefined` alone is not inductive: a row keeps its reminder count
and the time of its last reminder while it is queued after a revocation, and reads them
again when it is promoted; `TimingInv` adds that every row, active or not, with a reminder
counted has the time of it. `PositionsAboveRank` bounds the rows at positions up to
`MaxPosition`, which no answer keeps by itself: it moves the rows at n + 1 to n. `RankInv`
states it for every n, and is inductive because the promoted row is one of the lowest. The log
needs no more than `IInv`: an accepted call logs in the step that writes the resolution,
and a rejected one ends the log with an entry that explains nothing (`LatestAfter`).

*ApprovalSessions.* Assumed: `Items` is finite and NULL is no value of a column. The
statements that only read and assign share one description (`Reads`), and so do the flushes, so that
each part of the invariant is argued for six kinds of step. `Flags` is what the unique index
keeps: one flag in the table, one in every session's view of it, and, of two open
transactions, only one that gives a flag (`Apart`); a session that takes one while another gives
one may commit first or last. Through it one commit cannot put a second flag under another
session's view. `Justified` ties what is planned and written to its event and to the sent
messages. `Revoking` follows a revocation from its UPDATE to its commit: the row it has locked
is approved in the table and in its copy, so no other session can revoke it, and the flush
cannot leave the new status out as unchanged. Until a session's first assignment it has
planned and written nothing (`Unwritten`); the worker's next create plans nothing either,
but keeps what the last one wrote (`Silent`). How many transactions may be open is not used.

As long as no two transactions have been open at once, which is how the calls follow each
other when nobody is impatient, more holds: `TableConsistent` and `CallsAreLifecycleSteps`.
Both fail under an overlap, and so does `NoFlip`, as the runs `stranded` and `opposite_answers`
show. `Serial` adds to `IInv` what the one open session knows at each of its
statements (`Halfway`): its identity map agrees with what it sees, and from the flush on what
it sees is an `Outcome` of the committed table, that is a `Sound` table that is
unmoved or one recommendation of a set of items, decision or revocation further. Nothing of it
can be dropped: a resolve has flushed the retired item when it reads the queue (`Answered`), and
only because that is remembered is the table with the promoted item known to differ by one
decision; the worker's session has flushed the items it created before (`Created`), and only
because they are known to be new and to have entered together is its commit, with one item
more, still one `Recommend`. Since each `Outcome` is a step of the lifecycle or none, and only
`Commit` changes `rows`, the statements implement `ApprovalLifecycle`.

*RowPipeline.* Assumed: prices in the sheet are integers or one of the three other things
they can be, a hit has an ASIN and a confidence of 0..100, NULL is no row. The rules are
proved apart, section by section along the early returns, and cited. `Inv` adds to the
types what a pass carries along: between the step that stores a label and the end of
the pass the inputs the label came from are still there (`Classified`); a pass that left
the pipeline early either settled the row or holds a reason for a review, so the router
cannot miss it; every stored approval explains itself; and a decided entry or a confirmed
match is the same in `tx` and `db`.

*ListRuns.* Assumed: a list's rows are items, there are finitely many (a file has finitely
many rows), a message is received at least once and there is a first mapping, and NULL
is nothing else. `OnePassAtATime` is
inductive with the lock taken by the first flush. The others are not. `RequestHonoured` needs
that the version of the mapping a worker read is not older than the one its message
asked for, from `Receive` to `Commit` (`MessageOK`, `WorkerOK`). `DecidedReviewStands` needs that a
pending entry in an open transaction is never one that was decided meanwhile (`ReviewOK`):
an entry is inserted by one pass at a time, and an update does not write the status.
`ConfirmationSurvives` needs that a worker past its read holds a match that was not
confirmed, and that REJECTED, the one status over which PROPOSED is written, leaves its
trace in `refused` (`MatchOK`); the locks exclude each other (`MatchLockOK`). The counters need
an invariant of their own (`Bounds`): a pass has counted at most as many errors as its list
has rows, less those it has still to read and the one it is at, unless that has
failed already (`Open`). The version a pass used is not newer than the list's
(`WorkerBound`); it stays so because versions only grow. A visible message has receives
left (`MessageBound`).

*SheetIntake.* Assumed: a file is a sequence of tables of rows of cells, and the text
of a cell a sequence; uploads are bounded by a natural number; NULL is not the empty text, and no
header. `Inv` says how much of the
new list each stage of a request has, and that S3 keeps what it got; `MappingInv` that the
claims so far are injective, and that every pair of fields and headers that is no longer free
was beaten by a claim of at least its score. A claim of a best free pair keeps it, whatever
the scores.

The parser's theorems are about its operators (`FileInv` ties the rows of a list to its file).
What a run through a sequence computes would be shown by induction, which is not available
for an operator that stands for the data; instead each argument takes the least element
at which something fails (`Least`, from the well-foundedness of <). So does
`FlattenIs`, which shows that the recursive function behind `FlattenSeq` exists, and
`FlattenIsFlat`, that a row of the combined grid is a row of one of its tables. `KthOfIs`
counts: the ranks in a finite set are an injection into as many numbers, and hence reach
each of them. For `CellsStay`, two columns have one name only
if their base names are equal and both first, or one is the other's base name with a number
appended, which a plain header is not: `IsPlain` is exactly what the case split needs, the
header "column" included.
For `NoHeaderAmongRows`, a row that reads like the header could only come from the
first line of a later table, where it is the header itself, raw cell for raw cell, and dropped.

*Only model-checked.* The two liveness properties, `UnansweredIsHeld` and
`RequestSettles`, which are out of this prover's reach. Every other property of a passing run is a theorem. The six
properties of the other runs are false, and TLC shows why.

## What is not modelled, and why

* Export, run comparison and the other read-only endpoints: they join and format what
  other modules model.
* Scores: how well a header or a product title fits is a parameter (`Score`) or an input
  (`Candidates`). The thresholds and the choices that follow are modelled.
* Brand, case quantity and unit of a row: copied, and never decided upon.
* Message texts, summaries and the short code `D0001` (another name of the key, from a
  database sequence).
* HTTP, MCP, S3, SP-API and Keepa transport, tokens: pure I/O. A call may fail.
* Authentication (a stateless comparison), the creation of suppliers (one INSERT), settings,
  migrations, and Terraform but for the schedule, the redrive policy and the visibility
  timeout.
* Time in `ListRuns` and `ApprovalSessions`: a transaction may last as long as the others need; how
  long the owner waits for a lock has no unit there.
* A second rules config: only one is ever active, and nothing changes it while a list is
  processed but an administrator's SQL.
