# A verification project for epistle

epistle is a mail server: SMTP in and out, IMAP, POP3, ManageSieve, WebDAV, a
management API with JMAP, spam filtering, mail authentication and an evidence
log that proves what became of transactional mail. This directory holds TLA+
modules translated from its source, TLC configurations that check them on small
instances, and TLAPS proofs of the properties that matter most for every size.

    tlc -workers 2 -config QueueEvidence.cfg MCOutboundQueue   # one run
    tlapm OutboundQueueSafety.tla                              # one proof module

`PROJECT.json` lists the components, the runs, the map from definitions to
source lines, the mutants that show each property can fail, the findings, the
hazards and the theorems.

## Inventory

| Component | State | Operations | What is hard | What makes it correct |
|---|---|---|---|---|
| Queue worker (`queue/worker`) | in memory: waiting jobs, jobs in hand per entry, claims, destination holds, running conversations | scan, start, record, settle, expire, report, remove | conversations, the scan and operator commands interleave; a crash between any two writes | no second copy without a lost acceptance; verdicts final; every message settled; every failure told |
| Spool (`storage/spool`) | `tmp/` and `new/` files, one envelope per entry with one state per recipient, a lock file | store, list, load, update, remove | two processes edit the same files; staging, record and renames are separate steps | an accepted message is queued or recorded as abandoned; edits are not lost |
| Operator commands (`cli/queue`, `queue/cancel`, `evidence/cancel`) | none of its own | hold, release, retry, release-destination, remove | they run against a live worker; a removal can die half way | commands take effect and are not undone; a removal ends on record |
| Backoff (`queue/backoff`) | holds, rebuilt from the spool | note, step, held | memory and spool must agree | a destination that asked to slow down is left alone |
| Evidence log (`evidence`) | hash chain of records per day, head, seals, quota | append, cancel, abandon, seal, timestamp, purge, verify | crash inside an append, unconfirmed writes, a clock that goes back | one outcome per recipient; no sealed day changes; the chain has no gap |
| Mailboxes (`imap`, `storage`) | message files, flag, UID and mod-sequence sidecars, counters, index, VANISHED journal, change log | snapshot, append, store, expunge, index | sessions share the directory, several counters have no lock | UIDs unique and stable; mod-sequences grow; no expunge is missed |
| SMTP server (`smtp`) | session state, rate windows | commands, data, checks, sinks | pipelining, limits, deferred replies | nothing acknowledged that is not stored |
| DKIM rotation (`dkim/rotate`) | journal, key files, active signer | rotate, resume, withdraw, retire | crash at every step, DNS that lags | never signs with an unpublished key |
| ACME and TLS (`acme`, `tls`) | order, certificate files, served configuration | renew, watch, reload | files replaced while read | a mismatched pair is never served |
| Directory (`directory_store`) | accounts, file fingerprint | mutate, reload | watch against write | readers see one version |
| Spam filter (`antispam`, `db`) | greylist, bans, bayes counts, training queue, reputation | decide, record, train, prune | concurrent sightings, bounded queue | first sighting kept; a full queue loses only training |
| Admission (`net`) | connection counts | admit, release | every exit path releases | counts exact |
| Shutdown (`shutdown`) | running tasks | signal, drain | tasks that start during the drain | ends, and nothing is cut |

The remaining parts (parsers, formatters, DNS lookups, views, wizards,
importers, cryptography) keep little or no state of their own; `PROJECT.json`
lists each with the reason it is left out.

Interaction: SMTP, API and reports submit to the spool through `store_with`,
which writes the acceptance record to the evidence log; the worker reads the
spool on every scan and writes each verdict to the envelope, then to the
evidence log; the operator's commands edit the same envelopes under the spool's
`flock`; failure reports go through a sink back into the local mailbox or the
spool.

## Modules

| Module | Role |
|---|---|
| `OutboundQueue` | the queue worker, the spool it reads, the operator's commands: constants and their assumptions, state, one action per step, `Spec`, `FairSpec`, properties, and the mutated forms of definitions |
| `QueueContract` | what the queue promises, without the worker: entries that enter and leave, verdicts, copies taken, outcomes owed and on record. `OutboundQueue` instantiates it (`Contract`) and implements it; `ContractSafe` is proved of it |
| `OutboundQueueTypes` | proof of `TypeCorrect`; lemmas on what the helpers return |
| `OutboundQueueSafety` | the inductive invariant and the safety theorems |
| `OutboundQueueContract` | proof that `OutboundQueue` implements `QueueContract`, and what follows from the contract |
| `OutboundQueueWorker` | proofs about the worker's own books: claims, rounds, holds and reports |
| `EvidenceChain` | the append to the evidence log and its sealing, as actions without a specification of their own |
| `Acceptance` | extends `EvidenceChain` with those who use it: submissions through the spool, the reconciliation at start, the sealer, crashes |
| `AcceptanceProofs` | the inductive invariant of chain and spool, and their safety theorems |
| `Mailbox` | one IMAP mailbox with its sidecars, index and journal, sessions and deliveries |
| `MailboxProofs` | lemmas on sorted sequences and the client's numbers, the inductive invariants of the mailbox, and its safety theorems |
| `DkimRotation` | the state file, key files and DNS records of the DKIM key rotation and the background task that changes them |
| `DkimRotationProofs` | the inductive invariant of the rotation, and its safety theorems |
| `MCOutboundQueue`, `MCAcceptance`, `MCMailbox`, `MCDkimRotation` | the values TLC gives the constants |

Mutated forms (`Mutant...`) stand beside the definitions they change and are
used by no specification.

## The outbound queue

### State and code

* `env`, `rcpt`: `Envelope` and its `recipient_state`. `at` says whether the
  entry is in `new/` (`queued`) or was unlinked by the worker (`removed`) or by
  an operator (`canceled`). Attempt counts, reasons and hosts are left out:
  nothing checked here depends on them.
* `owed`, `evLog`: `outcomes_pending` of all envelopes, and the outcome records
  the log holds. Only entries with mandatory evidence appear in either, since
  the code only promises theirs. `evLog` is a set: the same outcome written
  twice is not told from once (the code allows it).
* `suppressed`: the suppression list, by address.
* `pc`, `ret`, `cur`, `slot`, `agenda`: where `Worker::run` is. It is one task;
  scan, completion, fill and settle are sequential code, so they share a program
  counter. `finish` is called from three places and returns to `ret`.
* `waiting`, `left`, `conv`, `answer`, `claims`, `holds`: `Schedule.waiting`,
  `Schedule.rounds`, the running conversations and what the remote said,
  `Claims`, `Worker.holds`.
* `opId`, `opWas`: the removal that holds the spool lock.
* `copies`, `excused`, `dsn`: history. `copies` counts acceptances by the
  remote, `excused` those the spool was never told of (reply lost, crash or
  failed write before the record), `dsn` reports handed to the sink.

### Actions and code

`ScanBegin`, `WriteWaiting`, `ScanLoad`, `ScanOverdue`, `QueueEntry`,
`QueueEntryError`, `ScanEnd` are `Worker::scan` and what it calls. `DropHeldJob`,
`DropStaleJob`, `StartJob`, `FillEnd` are `Worker::fill`. `Answer` and
`AnswerLost` are the remote. `Record`, `RecordGone`, `RecordFault` are
`Worker::complete`, and `AfterConversation` the writes that follow it.
`FinishGone`, `FinishFault`, `FinishExpire`, `NoReport`, `SendReport`,
`ReportRefused`, `MarkReported`, `Settle`, `Unlink` are `Worker::finish` cut at
each write, so that a crash, an operator or a remote can come between.
`OpHold`, `OpRelease`, `OpRetry`, `OpReleaseDestination` are one locked edit
each; `OpRemove`, `OpCancel`, `OpUnconfirmed`, `OpRefused`, `OpUnlink`, `OpDie`
are `remove_with` with its hook, step by step, the lock held throughout
(`WorkerMayWrite`, `OperatorMayWrite`). `Crash` clears memory and keeps the disk.

### Abstractions

* The clock, remotes and submissions move only while the worker waits in its
  select; operators and crashes also in the middle of its work.
* A scan reads all envelopes in one step.
* A failed write is a choice, within `MaxFaults`. The choice inside
  `RecordOutcomes` also stands for a crash between two outcome writes.
* `Worker::pass` has no caller in the program, so there is one scheduler: its
  early return for a second one cannot be taken and the `settling` mutex is free.
* Warm-up caps, holds of exchangers (as opposed to domains), the turns senders
  and domains take (any order is allowed), the delivery log, webhooks and
  metrics are left out.
* Times past `MaxTime` count as `MaxTime`; deferral counts stop where the step
  table no longer tells them apart (`OneMore`).
* `QueueEntryError` also covers a skip that was written before the refusal of
  unparseable addresses failed. A null sender, to whom no report is built, is
  the `gone` answer of the sink.
* The unlink of an entry is one step: once the envelope is gone the body left
  behind is invisible to every reader.
* `release` does not clear `cancelling`, as in the code.

### The contract

`QueueContract` sees `place` (absent, queued, gone), `verdict`, `taken`, `owed`
and `book`. The mapping in `OutboundQueue` reads them from `env`, `rcpt`,
`copies`, `owed` and `evLog`; the worker's memory does not appear. `Decide`
gives verdicts and owes their outcomes in one step, `Pay` writes debts and
strikes off some of those written, `Cancel` and `Late` are the records of a
removal and of the conversation it did not wait for, `Leave` lets mandatory mail
go only when it is settled. `KeepsContract` says that every step of the worker,
of an operator or of a remote, every failed write and every crash is one of
these steps or none.

## Acceptance and the evidence chain

`EvidenceChain` keeps the day files as sequences of records (`file`, `made`),
half a line after them (`torn`), checkpoints (`seals`), the head, the lock and
one call per writer. A hash is a number drawn once. `AppendBegin` takes the
lock, reads the last record before the append, repairs a torn line and refuses
a sealed day; `WriteLine` writes and syncs, with the three ends a failure has
(cut off again, left torn, in place but not confirmed); `WriteHead` writes the
head and lets go of the lock; `Die` is the death of a process at any of these.
`Seal` is one day of `seal_closed_days`.

`Acceptance` cuts `store_with` at each write and rename (`StageEml`,
`StageJson`, the hook's append and `HookDone`, `UnstageJson`, `UnstageEml`,
`RenameEml`, `RenameJson`, and `AbandonDone` when a rename fails after the
record), and has the start of the server (`Restart`, `StartAppended`,
`DiscardJson`, `DiscardEml`) one leftover at a time, a start that fails and
exits, `Crash`, the sealer and the clock.

* A clock reading is at most `Behind` days before the wall clock. The code
  believes a clock up to an hour behind the last record, so a day at most;
  `ChainAssumption` says so. With two days a record could go to a day before a
  sealed one and `ChainLinear` fails.
* `doubt` holds the acceptances whose append ended unconfirmed. For mandatory
  mail the submission is refused and its files removed, and no `abandoned`
  record follows: the log may then hold an acceptance of a message that was
  refused. `AcceptanceTraced` excludes exactly these. (The comment on `append`,
  that nothing was appended on an error, does not hold for this one.)
* A crash between the two renames leaves `new/*.eml` without an envelope;
  nobody reads it (`QueuedWhole` speaks of envelopes) and nothing removes it. The
  leftover in `tmp/` is reconciled.
* An empty or torn day file stops the sealing of the days after it until the
  next append repairs it; this is modelled (`Seal` needs a complete day) and no
  property promises that sealing comes about.
* Left out: mail with both local and remote recipients, quota, copies of the
  message kept as evidence, the gate, appends by the command line, purge,
  rotation of the signing key, timestamps, and loss of unsynced renames in a
  power cut.

## The mailbox

`eml`, `uidFile`, `flagFile`, `modFile`, `uidNext`, `modCtr`, `index` and
`journal` are the files of one mailbox; `snap` is each session's `Snapshot`,
`view` what its client believes the sequence numbers to be, `high` the
mod-sequence its last SELECT told. A message is the rank of its UUIDv7.

There is no lock on a mailbox, so an operation is cut at its file accesses:
`ReadGeneration`, `LoadIndex`, `ScanList`, `ScanOne` (one message),
`WriteUidNext`, `BuildSnapshot` are SELECT and the refresh behind NOOP, CHECK
and IDLE; `WriteFlags`, `ReadCounter`, `WriteCounter`, `Stamp` are STORE;
`Unlink` (one file), the counter and `Record` are EXPUNGE, MOVE and CLOSE.
`Stage`, `Publish`, `WriteNewFlags` are a delivery or an APPEND. `Crash` ends
all sessions and keeps the files.

* `Overlap = FALSE` in the passing run keeps two sessions' operations apart
  while deliveries and crashes come anywhere. With overlap the code has the
  behaviour of the finding `MailboxUids`, and a STORE beside an EXPUNGE may
  draw the same mod-sequence, so that a client synchronising between them can
  miss one; the properties of the passing run are those the code keeps
  without it.
* After a crash only `UidsSound`'s first half (a message keeps its UID) is
  promised: sidecars are written before the counter and files removed before
  the journal, so a crash between them can give a UID twice and lose an
  expunge from VANISHED. The other properties speak of the time before a crash.
* `IndexSound` and `QresyncComplete` leave out the flags of messages that
  arrived with some: a delivery writes them after the rename and changes no
  stamp, so an index built between the two keeps the message without them.
* `NumbersSound` is about mail that only deliveries add, whose lock orders ids
  and files; `MailboxNumbers` shows what an APPEND does.
* STORE is of one message and without UNCHANGEDSINCE; the number of files and
  the index are read in one step, and so are the listing and the UID counter.
  UIDVALIDITY, the change log, REPLACE, COPY into the mailbox itself and the
  retention archive are left out.

## DKIM rotation

`state` and `backup` are the journaled state file and its copy, `keys` the key
files, `txt` the records each domain shows, `signer` what the server signs
with, `run` the pass of the background task with its local copy of the state.
A key is a number, so that a key made anew under a selector differs from the
one before. A loop over records keeps those still to come as a set (`todo`) and
takes them in the order of the configuration, the ed25519 record of a domain
before its RSA one (`First`). Every write and provider call is a step: `Journal`, `MakeKey`,
`MakeRsaKey`, `DropDomains`, `Publish`, `Confirm`, `Swap` go forward;
`Withdraw`, `Unpublish`, `UnpublishKeys` back; `Retire`, `RetireKeys` remove the
replaced key; `SaveBackup` and `SaveState` are the two writes of a save;
`ServeRequest` and `ServeCleanup` take up the operator's files. `Crash`,
`Restart`, `Reconfigure` (between two starts), `Midnight` and `EndPause` (the
pause after a failure is over) are the surroundings.

* Time is counted in days and a pass takes no time. The overlap is at most the
  interval (14 and 90 days in the code), which `RotationAssumption` states.
* `excused.unsure` marks a commit whose write was in place and reported as
  failed: the server goes on with the old key while the file names the new one,
  until a start. `excused.left` are the key files a failed removal leaves.
* Domains are dropped and never added, since an added one has no records until
  the operator publishes them. Unreadable state files (beyond what
  `BackupUsable` says of the pair), keys of single domains, `dkim split`, the
  webhook, the error file and the signing itself are left out.

## Runs

| Run | Instance | Checks | States |
|---|---|---|---|
| `QueueEvidence` | 1 message with mandatory evidence, 2 recipients in 2 domains, 2 slots, removal by an operator, 1 crash, 1 fault, clock 0..2 | `NoUnexcusedCopy EvidenceKept NoneVanishes OneTrueVerdict ReportOnce StatusFinal NoCopyAfterVerdict KeepsContract` | 2.4 M |
| `QueueSharing` | 2 messages of 2 senders, 3 recipients, a shared domain, 3 slots, 1 per domain, two backoff steps, a destination released | `TypeOK OneConversation ClaimsExact ScanFresh HoldsCover` | 1.0 M |
| `QueueReports` | 1 message, 3 recipients in one domain (one unparseable, one without DSN), sink refuses or is gone, hold, release and retry, 1 fault | `FailureTold RoundsExact` | 2.1 M |
| `QueueSettles` | as the first with one slot and no operator, `FairSpec` | `EventuallySettled OwedIsWritten` | 0.2 M |
| `Acceptance` | 2 submissions of any class, 3 days, a clock up to a day behind, a start that takes 1 leftover, 1 fault, 1 crash | `TypeOK ChainLinear SealedFrozen ConfirmedKept HeadNamesRecord NothingUnrecorded AcceptanceTraced QueuedWhole AbandonedNeverQueued` | 1.4 M |
| `Mailbox` | 2 messages with or without a flag, 2 sessions, 2 commands, of which 1 may be a crash | `TypeOK UidsSound IndexSound NumbersSound QresyncComplete` | 1.3 M |
| `DkimRotation` | 2 domains, dual signing, days 0..4, interval and overlap 2, 1 fault, 1 crash, 1 request, 1 change of configuration | `TypeOK SignerVerifies OverlapKept NothingOrphaned BackupUsable WithdrawalFinal PendingEnds RequestServed` | 0.5 M |
| `LostBounce` | mandatory evidence and a refusing sink | `FailureTold` fails | |
| `LostRetry` | a retry during a conversation | `RetryHonoured` fails | |
| `HoldExpires` | a hold during a conversation | `HoldStopsClock` fails | |
| `MailboxNumbers` | an APPEND beside a delivery | `ClientAgrees` fails | |
| `MailboxUids` | two sessions that open at once | `UidsUnique` fails | |

What each property says, and of which code, is in the comment above it in its
module.

Why the bounds are enough to be interesting: two recipients of one entry are
the least for a conversation to end while another of the same entry runs, which
is what the claims, the round count and the expiry guard are about; two domains
let both run at once; two entries that share a domain are needed for the caps
and for a hold noted by one and obeyed by the other; a third recipient gives a
`too many recipients` answer something to leave. The give-up window is two
ticks and a retry one, so a recipient can be deferred, retried and expired. One
crash and one fault, at every point, cover each single failure and one of each
together. The theorems have no bounds: `MaxTime`, `MaxCrashes`, `MaxFaults` and
`MaxOps` are arbitrary naturals there.

Two submissions are the least for appends to interleave and for a start to find
more leftovers than it looks at; three days give a sealed day, an open one and
one the clock can fall back from. Two messages and two sessions let one session
remove what the other has numbered, and a client return to a mailbox changed in
its absence. Four days with an interval and an overlap of two hold two whole
rotations, the second beginning on the day the first one's key retires, which is the
tightest the assumption allows.

Deadlock is checked in every run: the worker that waits can always scan again,
a server can always be stopped and started, a session can always refresh and the
rotation's ticker comes again, so a state without a step would be one where
somebody is stuck.

### Fairness

`FairSpec` assumes that the worker's synchronous code runs on; that its select
comes back to the scan's tick and to each conversation that ended (tokio's
select picks at random among ready branches, hence strong fairness); that each
conversation is answered or times out (every step of the client has a timeout);
that the clock advances; that a stopped server is started again; that a removal
ends. Nothing is assumed of submissions, commands, faults or crashes, whose
number is bounded.

`DkimRotation` assumes that a pass that began goes on (it is sequential code in
one task, and every provider call has a timeout), that the ticker brings the
full pass again and again (every 60th minute; the minutes between look only for
requests, hence strong fairness on `Cycle(TRUE)`), that the pause after a
failure ends and that a stopped server is started again. Days need not pass for
a pending rotation to end.

### Findings

* `LostBounce`: the scan that writes the last owed outcome of an entry removes
  it without looking for a failure report still to be sent (`evidence.rs:197`),
  against the comment in `Worker::finish` (`mod.rs:524`).
* `LostRetry`: `queue retry` is overwritten when a conversation of the same
  entry is recorded after it (`recipients/mod.rs:206`), against `docs/cli.md`.
* `HoldExpires`: an entry held during a conversation can be expired at its end
  with the current hold counted (`mod.rs:504`), against `docs/cli.md`.
* `MailboxNumbers`: ids are drawn before files appear and APPEND shares no lock
  with deliveries, so a refresh can insert a message in the middle of the
  numbers while the client is told only EXISTS (`imap/mailbox/mod.rs:259`),
  against the module comment in `imap/session/sync.rs`.
* `MailboxUids`: two scans at once give one UID to two messages
  (`imap/scan.rs:48`), against the comment in `imap/session/literal.rs` that
  REPLACE relies on.

The worker's own removal puts the entry on hold first (`spool/mod.rs:583`), so a
crash inside it leaves a finished entry that only an operator can take out. In
the passing runs `EventuallySettled` therefore counts an entry on hold as
settled, and `FailureTold` is checked where no evidence is mandatory.

## Proofs

`OutboundQueueTypes` proves `Spec => []TypeOK` from `ConstantsAssumption` alone,
one step per action. Its lemmas give the type of each helper (`Recorded`,
`SettledNext`, `SlowDown`, `TakeClaim`, `DropClaim`, ...).

`OutboundQueueSafety` proves `EvidenceIsKept`, `ConversationsAreExclusive`,
`ScanStaysFresh`, `CopiesAreExcused`, `VerdictsAreFinal` and
`NoCopyFollowsVerdict`. None of these is inductive alone. `Inv` adds:

* `JobsOwn`: the recipients of a waiting or running job belong to its entry.
  Without it a conversation could answer for recipients of another entry.
* `CopiesAccounted`: beyond the excused copies a recipient has at most one, and
  that one is accounted for: its status is `delivered`, or a conversation not
  recorded yet holds the answer `ok` (`SaidOk`), or the entry left the queue
  and nobody talks for the recipient. This is what makes a start for a pending
  recipient safe: pending, queued and in no conversation, every copy it had is
  excused.
* `ReportsFailed`: a recipient with a report has failed.

The argument: `OneConversation` keeps talkers disjoint and pending, so a step
of `Worker::finish` (which skips claimed recipients) never meets one, so
verdicts are final; a verdict is written with its note of what is owed, and a
note is dropped only once the log holds it, so evidence is kept; a start looks
at the status again under the claim, so no copy follows a verdict. The lemmas
`QuietCases`, `StatusCases`, `EvidenceGrows` and `EntriesDoNotReturn` carry the
conjuncts over the many steps that do not touch what they speak of.

`QueueContract` proves `ContractSafe`: whatever keeps the contract keeps
`ContractInv`, assuming only that every recipient belongs to a message. `Kept`
and `GoneSettled` are what a sender of mandatory mail relies on; `OneVerdict`
needs `Undecided`, that an outcome without a verdict belongs to a message
already removed: without it a late record and a verdict could disagree.

`OutboundQueueContract` proves `ContractKept`, that `Spec` implements the
contract: each action has a lemma that names the contract's step it maps to, or
shows that it changes nothing the contract sees. `Books` is what the mapping
needs beyond `Inv`:

* `AboutToGo`: the entry the worker or an operator is about to unlink is queued
  and owes nothing, and the worker's has nobody pending. The check is made
  before the unlink, so this is what the code between the two must not undo.
* `OkTaken`: an answer `ok` means the remote took a copy.
* `IntendedOwed`: after a record, what the worker goes on to write is owed.
* `Undecided`: a pending recipient of whom the log knows a decision belongs to
  an entry that was removed during the conversation, which is over.

`NoneVanish` and `VerdictsAreTrue` are then read off `ContractInv`: nothing of
the worker is needed for them but that it keeps the contract.

`OutboundQueueWorker` proves the other invariants of the queue: `ClaimsAreExact`,
`RoundsAreExact`, `HoldsAreCovered`, `ReportsAreCounted` and `FailuresAreTold`.
`WorkerInv` is checked beside them by TLC and has five parts:

* `ClaimsExact` is inductive with `Inv`: a claim dropped takes no recipient of
  another conversation along because `OneConversation` keeps them disjoint.
* `Rounds`: `RoundsExact` counts a set of waiting jobs, so it needs that a job
  added is a new one. `JobsApart` says that an entry has one job for a
  destination, waiting or running; `ScanIdle`, that the scan queues entries
  without jobs. The job for the recipients a remote put off takes the place of
  the conversation that ends.
* `HoldsKnown`: memory knows each recipient's wait (`Cover`) while a job waits
  or runs or the scan has entries to queue, not only while jobs wait, as
  `HoldsCover` says: a conversation that ends may leave a new job. After a
  crash none of these is true until a scan has read the holds from the spool.
  `JobsTo` gives the hold the right destination; `NewPlain`, that a message
  just submitted has no backoff.
* `ReportsCounted`: a report that no crash or failed write accounts for is
  marked in the envelope, about to be, or of an entry that is gone (`Told`).
* `ToldFirst`: an entry is at its unlink with every failure reported unless
  `write_waiting_outcomes` removed it, which it does only to entries with
  mandatory evidence (`OwedMandatory`). `PlainFailuresTold` is therefore about
  the other entries, and `FailuresAreTold` assumes `Mandatory = {}`: with
  mandatory evidence the property fails, as `LostBounce` shows.

`AcceptanceProofs` proves every invariant of the `Acceptance` run. `ChainInv`:

* `Locked`: whoever is between the reading of the last record and the head of
  an append holds the lock, so there is one at most.
* `AtEnd`: what it read is still the end of the chain, no day after its own has
  a record, and its day is not sealed. The lock is what keeps this true between
  two steps; the sealer takes it too.
* `FilesMade`: files with records are made, and no file is of a day to come.
  With `Behind` at most 1 it gives `ReadsEnd`: `last_position_before_append`
  finds the end although it looks at one file only after the day of its clock.
* `Numbered`: no record has a number above the last one's, which is why a head
  that names the last record has nothing confirmed after it.

`SpoolInv` says that an append under way belongs to a caller that still waits
for it and, once written, carries the entry the caller wants (`AppendsOwn`);
that a start has the server to itself and discards a leftover only after its
end is recorded or when it needs none (`StartAlone`); and, for each submission
(`Sound`), where its files are by where it is, and where it can be once its
acceptance or its end is in the chain. `Traced` is stronger than
`AcceptanceTraced`: the envelope itself is queued or staged, also while the
submission is under way. The assumptions are `ChainAssumption` and
`AcceptanceAssumption`: the writers are the submissions and the start, the
entries they write are entries of the chain, and a clock is a day behind at most.

`DkimRotationProofs` proves every invariant of the `DkimRotation` run and
`WithdrawalFinal`, from `RotationAssumption` alone. `Inv` has two halves. What
the files, the records and the history say wherever the pass is (`Books`,
`SignsWell`):

* `InOrder`: the days the state names come in the order it got them, nothing is
  journaled while a replaced key waits, and a replaced key is due an overlap
  after the commit. A new selector is therefore none of the old ones, and what
  a withdrawal or a retirement removes is neither active nor configured.
* `KeysShown`, `ReplacedShown`: active keys, and replaced keys until they may
  go, are in their files and shown by every domain.
* `RecentNamed`: a selector that signed within the overlap is active, or
  replaced and due only after its overlap. `OverlapKept` follows.
* `BackupBehind`: the backup's active selectors are the configured ones, those
  of the state or those it replaced. `BackupUsable` follows.
* `SignsWell`: the server signs with the active keys; between the save of a
  commit and the switch, with the replaced ones.

And what each place of a pass has behind it (`PlaceInv`, `SaveInv`,
`BackupTaken`): the local copy of the state is the one on disk or the one about
to be saved, a loop without a failure has removed all that is not still to come,
a commit is saved only when every domain shows every new key, and a save takes
the backup of the state it replaces. A first form of `PlaceInv` let a replaced
key be excused before the switch; it is not inductive, since the server still
signs with that key, and the proof of `SwapKeeps` needs what it now says: the
replaced keys are still in use at the switch.

`Inv` was checked by TLC before it was proved, on the instance of the run and on
a larger one with six days, two faults and two requests.

`MailboxProofs` proves every invariant of the `Mailbox` run from
`MailboxAssumption`, for any number of messages, sessions, commands and crashes.
`MailboxTypes` holds whatever overlaps. The other four theorems assume
`~Overlap`, as the run does: with overlap a UID may name two messages
(`MailboxUids`), and all four rest on UIDs. The invariants they share, `Core`:

* `Alone`: one session at a time is inside an operation. `Effects` then
  describes each step by what it does to that session and to the files, so the
  later lemmas have one case per kind of step and never open an action again.
* `Arrivals`: what is in the mailbox has arrived, and ids are drawn in order.
* `Uids`: a name given to a message is in its sidecar while the message is
  there, and every UID given out is at most the counter on disk or the one of
  the scan under way (`Covered`). Without the second half a scan between its
  first sidecar and the write of `.uidnext` would seem to give numbers twice.
* `Mods`: no mod-sequence is above the counter, and one that a removal or a
  STORE has just written is above the stamp of the index and every client's
  HIGHESTMODSEQ.
* `Truth`: what a scan has read is still what the files say, and so is an index
  with the stamp of the counter, unless a removal has begun and not yet counted
  (`Dirty`). This is the step a test would hardly reach: a delivery beside a
  half-done expunge brings the count back, but the counter has moved by the
  time anybody opens.
* `Known`: every UID in a snapshot, a scan or the index was given to that
  message, and the messages a removal has passed are no longer there.

`IndexIsSound` follows from `Truth`: as many true records as there are files
are all of them. `QresyncIsComplete` adds `Missed`: a message gone is in the
journal above the client's HIGHESTMODSEQ or in the removal under way, a changed
one is stamped above it or in the STORE under way. `NumbersAreSound` adds
`Ordered`: while all mail is delivered, one delivery is under way at a time, and
what a session has not read yet comes after all it holds (`Fits`), so that
`changes()` only ever drops positions and appends. What `Dropped` and `Changes`
then compute is the content of the lemmas `DroppedAscending` and
`ChangesAscending`; they rest on `AscendingIs`, that an increasing sequence over
a finite set of numbers is the only one, which is argued with a least
counterexample because an induction over sequences is out of the prover's reach.

TLC checked the conjuncts of the invariants before they were proved, with two
and three messages and with both kinds of arrival.

Only model-checked: `EventuallySettled`, `OwedIsWritten`, `PendingEnds` and
`RequestServed` (liveness is out of the prover's reach). Every invariant and
every action property of a passing run is a theorem. The five violations are
TLC's alone.

## Plan

Done: `OutboundQueue` with its proofs and the refinement of `QueueContract`;
`EvidenceChain` with `Acceptance` and their proofs; `DkimRotation` with its
proofs; `Mailbox` with its proofs.

To prove next: which of the mailbox's invariants hold with overlap and in what
weaker form (a message keeps its UID while no other session scans), and what
`UidsSound` and `IndexSound` leave true after a crash.

To model next: holds of exchangers, warm-up caps and the senders' turns with
fairness between senders; ACME renewal with the TLS watch; greylist, bans and
the training queue; the SMTP session; the directory watch; the drain at
shutdown.

## Not modelled

Most of the repository's lines are not control over shared state, and a model of
them would say nothing a test does not: parsers and formatters (SMTP, IMAP,
MIME, Sieve, iCalendar, vCard, DNS, configuration), the command line's wizards
and views, importers, cryptography, statistics of the spam filter, handlers of
the API and JMAP that read a store and print it, DNS and other external services
beyond the answers the code reads, performance, and the tests. The modelled
parts are the ones where processes, crashes and failed writes meet the same
files; they are a small share of the lines.

Retry jitter and backoff lengths are only those the configurations list in the
runs; the theorems hold for any. The hazards in `PROJECT.json` without a
property carry the reason.
