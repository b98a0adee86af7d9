# Verification of ish

`ish` is an interactive shell: a line editor with history, completion and directory environments
around the `epsh` evaluator, with in-process `cp`, `mv` and `rmrf` built on the crates `ish-fs`,
`fdu-scan`, `fdu-delete` and `fdu-posix`. This directory holds TLA+ models of its concurrent,
crash-prone and multi-step parts, TLC configurations for small instances, and TLAPS proofs.
Paths below are relative to the repository root (`src/` in `PROJECT.json`'s paths).

    tlc -workers 2 -config MCQuarantine.cfg MCQuarantine      # one run
    tlapm QuarantineProofs.tla                                # one module of proofs

`PROJECT.json` lists every component, every run with its properties, which lines each definition
models, the hazards the properties are for, and for each property a mutated definition under which
TLC finds it violated.

## 1. The system

How the parts interact: the main loop (`shell.rs`) reads a line with the editor, plans it
(`dispatch.rs`), and evaluates it with `epsh` inside a capture session (`capture.rs`). External
commands become a foreground job (`epsh/jobs.rs`); `cp`, `mv` and `rmrf` run in the shell's process
under the foreground controller (`foreground.rs`), whose worker threads call `ish-fs` or
`fdu-delete`, which retire files through the journal of `fdu-posix`. Signals (`signal.rs`) reach all
of them through pending bits and a self-pipe. After the line, its occurrence goes to the history log
and `denv` refreshes the environment if the directory changed.

| Component | State | Operations | What is hard | What makes it correct |
|---|---|---|---|---|
| quarantine journal (`fdu-posix`) | recovery root with flock, session directories, header, intent records, captured entries | start with recovery, remove, remove_after_publication, remove_batch, stages, finish, drop | kill or power loss between any two calls, any call failing, other processes changing names, forked copies of a session | no object lost; every capture recorded; acknowledged removals durable; one session; truthful errors |
| history log (`history/store.rs`, `legacy.rs`) | log file with generation and frames, cursor per shell, legacy files | load, sync, add, reset, render, repair, salvage | two shells, torn tails, rollback after a failed write, reused inodes, damaged frames | acknowledged commands survive; a view is an exact prefix; the protocol does not damage its own log |
| history index (`history.rs`) | per-command usage, latest table, session recall with tombstones | apply, add, load, clear, context lookup | a condensed encoding (shared, tracked, split) that must answer like the plain list; clocks that repeat or go back | lookups equal a reference computed from all occurrences |
| foreground job (`epsh/jobs.rs`, `job.rs`) | member states, statuses, terminal owner, relays | wait, stop, resume, cancel, terminate | members exit, stop and are killed during the wait; every system call may fail | a stop is stable, the status is true, nothing unreaped, no signal to strangers, terminal back |
| capture relay (`capture.rs`) | tail, paused flag, stop pipe, terminal modes | relay rounds, pause, resume, finish | relay and prompt share a terminal; full queues | no key lost, doubled or reordered; finishing ends |
| foreground controller and signals (`foreground.rs`, `signal.rs`) | event channel, latest progress, cancellation, pending bits, self-pipe | run, poll, render, drain, cancel | full channel, dropped wake-ups, failing output, signals at any point | nothing lost, honest status, a cancelled operation returns, termination ends the shell |
| `denv` (`denv.rs`, `denv/failure.rs`) | trust entries, active record on disk, saved previous values, one evaluation | init, refresh, allow, deny, reload, on_exit, evaluation by bash or epsh | record and variables change in two steps; records of dead shells; files edited while hashed; scripts that never end | leaving a directory restores what entering changed; only approved bytes are evaluated; every operation returns |
| indexed scan (`fdu-scan`, tree of `fdu-core`) | deques, hold counters, parked workers, batches, pending counts, event channel | push, steal, park, publish, finish, cancel | lost wake-ups, completion order, cancellation | every directory finished once and after its children; the index is the tree; workers end |
| deletion (`fdu-delete`, `rmrf.rs`) | plan, recorded flags, outcomes, progress | create_plan, execute, record, remove the root | workers stop at different points; others touch the tree | one true outcome per planned entry; nothing outside the plan; rmrf returns |
| `ish-fs` planning, engine, records, dry run | plan, anchors, transfer records, hard-link groups, stages, queue | plan, rename, copy by discovery and workers, merge, publish, synchronize, retire | partial failure of trees, cancellation between copy and retirement, others changing files, power loss | no file is lost; reports are true; an undisturbed command does what was asked; it ends |
| `epsh` lexer, parser | position, pending here-documents, tokens | tokens, words, commands | nesting of quotes and substitutions | the tree is the one the text was written from |
| `epsh` evaluator, expansion, builtins | variables and scopes, descriptors with backups, traps, options, loop depth, children | every command form, redirections, expansions, builtins, cancellation | errors half-way through a command; processes in any order; cancellation at any point | output and status do not depend on the order; everything a command changed is restored; programs end |
| editor, input decoding, completion, history search | line, cursor, kill text, recall position, mode; reader buffers and paste state | every key, pastes, search, completion, directory picker | keys cut by reads, signals, pastes over the limit, given-back bytes, long key sequences | decoding independent of read boundaries; a narrowed search equals a full one; a completed word denotes what was offered |
| dispatch, frecency, prompt, listings, config, rendering | small caches | queries, drawing | text | not modelled |
| `formal/` (Lean), tests, benches, examples | - | - | - | not code of the program |

## 2. Modules and the code

* `Quarantine` - the journal, one action per system call or group of calls that no failure separates.
  `fs` is the file system running processes see: `at` maps every name the protocol can move to an
  object, `rec`, `intent` and `hdr` are records and headers (absent, pending, published; cached,
  durable, torn). `disk` is the set of states a power loss may leave: a namespace change adds a
  state, an fsync leaves only the current one, contents not synced may be torn. This is an ordered
  metadata journal, as ext4 and APFS keep one; a file system that reorders renames is not modelled. `lock` is the flock
  of the root with its open descriptors (a fork shares it), `ps` the processes. `authorize`
  callbacks are failing steps. The session directory is mode 0700, so other processes act
  only on the source and destination names.
* `QuarantineBatch` extends it with `remove_batch`, whose phases share journal syncs.
* `HistoryStore` - the log, its lock and the shells; `disk` as above. A frame carries its condition
  (whole, short, zero, bad payload, bad length) instead of bytes and checksums. The frames a view lacks
  are those behind the last id it knows (`New`); ids increase along the log. Until its sync the appended
  frame reaches the disk in any condition, its pages in any order; an unsynced frame of a killed shell is
  taken to be on the disk before the next one. A reset of an unreadable log gets any generation from the clock.
* `HistoryIndex` - the in-memory index next to the plain sequences it condenses.
* `ForegroundJob` - the wait loop, `resume_foreground` and `terminate` against a kernel in which
  `waitid` does not reap, SIGSTOP arrives later than it is sent, SIGCONT discards pending stops.
* `CaptureRelay` - relay thread, shell and prompt around one real terminal, one byte at a time.
* `ForegroundOp` - prompt, line and one in-process operation with its threads; the two halves of the
  signal handler (bit, then byte) are separate steps.
* `Postorder` - abstract: directories taken up and finished, each once, after those below it, and as
  complete only if those are. `IndexedScan` - the scan's threads; one step is one access to what they
  share (counters, park mutex and condition variables, a pending count, the finished list, the
  channel). `Removal` extends it with plan, executor and `rmrf`; the journal's `remove` is one step
  with the outcomes `Quarantine` allows. `Removal!Order` is the refinement: `known` and `verdict` of
  `Postorder` are read off the pending counts, and `FinishedInOrder == Order!Spec` is a property of the run.
* `EnvEval` - one evaluation of an `.envrc`: script, background children, pipes, failure channel,
  deadline, stopping the group. `DirEnv` extends it with shells, trust, layers and records; each
  access to the data directory is a step that may fail, a kill may come between any two. A trust entry
  knows which shells have its current file open: `fs::write` empties the file and then writes
  through its own descriptor, so of two shells that allow at once the later write stands, and a write
  to a file removed meanwhile is lost. The lookup reads the key's entry and then the legacy one as two accesses.
* `FsPlan` - operand mapping, refusals, collision policy and the dry run, as operators over a
  namespace. `FsTransfer` - one object: rename or stage, discovery and workers, publication,
  synchronization, retirement, merge. `FsEngine` - the operands in turn, hard-link groups across
  them, cancellation, reports, and other programs. `named` and `obj.safe` are what is on disk.
* `ShellText`, `ShellVars`, `ShellArith`, `ShellTest`, `ShellWord` - characters, variables with
  scopes, `$(( ))` in integers of `Width` bits, `test`, patterns with globbing and the expansion of
  words. `ShellLexer`, `ShellParser` - from characters to commands. `ShellSystem` -
  processes, descriptors, pipes, files, signals. `ShellBuiltin`, `ShellEval` - the evaluator as
  a stack of frames per process, one step per command or system call; an error, `break`, `return` or
  cancellation unwinds frames, each undoing what the code undoes on that path. `Epsh` - the
  specification; `EpshAnswers` - reference definitions for the pure parts.
* `Completion` (the line under edit, words, candidates), `InputReader` (wire, terminal queue,
  buffers, decoding), `Editor` (history search and recall, modes, keys, the loop).
* `QuarantineProofs`, `ForegroundJobProofs`, `DirEnvProofs`, `HistoryStoreProofs`,
  `HistoryIndexProofs`, `CaptureRelayProofs`, `ForegroundOpProofs` and `RemovalProofs` (the scan and
  the deletion) - theorems and their proofs, each about the module it extends (section 5).
* `MC*` modules give constants their values; `CaptureRelay.cfg`, `ForegroundOp.cfg`,
  `HistoryStore.cfg` and `QuarantineBatch.cfg` need none.

Composition: `QuarantineBatch` extends `Quarantine`; `Removal` composes scan, executor and `rmrf`;
`DirEnv` composes `EnvEval` with the shells; `FsEngine` composes plan and transfer; `Epsh` composes
ten modules; `Editor` composes reader, line and completion. Across runs, `Removal` and
`FsTransfer` use of the journal what `Quarantine` checks (an entry is removed, restored or reported),
and `Editor` uses of the relay what `CaptureRelay` checks (bytes given back are older than the queue).

## 3. Runs

Every property has a mutant of the code that violates it. The invariants of `quarantine`,
`history_store`, `foreground_job`, `foreground_op`, `capture_relay` and `dir_env`, and of `rmrf` the
refinement and `ReportExact`, are also proved for all values of the constants.

| Run | Instance | Properties |
|---|---|---|
| `quarantine` | 2 processes, 1 source name, destination, 3 objects, 2 sessions and a v1 session, 2 entries per session; 1 interference, 1 failure, 1 crash, 3 starts | `NothingLost`: every object is somewhere a person can find it; `Recoverable`: a captured object has a durable record, and recovery can settle it; `TruthfulReport`: what the caller is told is what happened, and an acknowledged removal survives power loss; `OneSession` |
| `quarantine_batch` | 1 process, a batch of up to 2 names, 2 interferences, 1 failure, 1 crash | `NothingElseLost` (with each entry's own record), `BatchOutcomes` |
| `history_store` | 2 shells, 1 legacy and 2 new occurrences, 5 operations, 1 failure, 1 crash, 1 damaged frame or header, any clock | `AckedSurvives`, `ViewExact`, `NoSelfDamage` |
| `history_index` | 2 commands, 3 directories (one inside another), 2 times, 4 occurrences | `ContextExact`, `RecallExact` (recall and the latest-occurrence table) |
| `foreground_job` | 2 members, a split pipefail pipeline and a negated converged command, 2 failing calls of eight kinds, 1 resume | `StableStop` (and the terminal is back), `ResultExact` (and nothing is left unreaped but what a failing call of `terminate` leaves), `GroupSignalsSafe`, `WaitReturns` (unless the group could not be killed) |
| `capture_relay` | 4 keys (one the suspend key), reads of 2, a slave queue of 1, 1 suspension, failing resumes | `KeysInOrder` (none lost or doubled, only suspend keys become signals, a paused relay writes nothing typed at the prompt), `FinishEnds` (and input moves) |
| `foreground_op` | 2 threads, one of them sending 2 events, channel of 1, progress 2, 1 signal of INT or TERM, 2 failing writes | `EventsDelivered` (events, last progress and an honest status), `CancelReturns` (and a termination ends the shell, and progress never goes back) |
| `rmrf` | a root of four entries, three of the five nodes directories; 1 early and 1 gated worker, queue, channels and budget of 1, batches of 2; an entry that appears late, one that fails, one interference, output that fails anywhere, cancellation anywhere | `ScanExact`, `FinishedInOrder` (refinement of `Postorder`), `ReportExact`, `RemovalEnds` |
| `dir_env` | 2 shells, nested projects, one variable; two process ids in two namespaces; one shell anywhere with up to 3 commands, an edit, a fault or kill; two shells that start in one project and take 2 or 3 decisions or reloads between them at once, with an edit, a fault, or a legacy entry; two shells with records of their own and a fault; one setup steps through evaluations (starts cost no command: `left.starts` lists them) | `LayerExact`, `TrustedOnly`, `CandidateWhole`, `OperationsReturn` |
| `fs_engine` | 26 requests (moves and copies within and across devices, trees with hard links, replacements, merges, refusals, dry runs), up to 2 workers and a queue of 1; 14 of them with failing calls, a cancellation and one act of another program | `NothingLost`, `OutcomeHonest`, `ResultExact`, `EngineEnds` |
| `epsh` | 76 sessions, many from `crates/epsh/tests`, 15 of which may be cancelled anywhere, and every question of `EpshAnswers` (patterns, arithmetic at 10 bits with every operation on the edges of the type and every base's numerals, `test`, splitting, parse trees of bounded size); at most 7 processes | `OutcomeExact`, `AnswersExact`, `ContextRestored`, `ProgramEnds` |
| `editor` | reads of 6 bytes, pastes of 2 characters, search limit 2, 2 to 5 keys of each kind from a few sets that together contain every binding; signals, hangup, given-back bytes | `EventsExact`, `SearchExact`, `CompletionDenotes`, `LineEnds` |

**Bounds.** Each is a named constant, counted down in `budget` or tested in a guard. One failure, one
crash and one interference suffice for every pair (fault, step); their combinations are
covered as all three may occur in one behaviour. Two occupants of each shared resource (processes,
shells, members, threads, entries) are needed for a race and enough for the protocols here, which
never count participants. A queue of one slot is full most often. Where the instances differ in kind
rather than size (`dir_env`, `fs_engine`, `epsh`, `editor`) a constant `Setups` or `Sessions` lists them and Init chooses one. Symmetry is declared only
for sets of interchangeable model values in runs without liveness properties. Deadlock checking is
off because every bounded system stops when its budget is spent.

**Fairness.** `ForegroundJob`: the waiting thread runs, a relay sees end of file after its writers
are gone, a sent SIGSTOP is delivered; nothing is assumed of the members themselves. `CaptureRelay`: the
relay thread and the shell run, a running child reads its input; the user may type nothing.
`ForegroundOp`: the main thread runs, an operation's threads that are sending run on, a cancelled
thread reaches its next checkpoint (the engine tests the token between steps, `engine/mod.rs:35`), an interrupted handler completes; the
user and uncancelled work may stall for ever. `Removal`: some thread that can step does; cancelling and other programs' acts are never forced.
`DirEnv`: a shell inside an operation goes on and the deadline passes; scripts may run for ever.
`FsEngine`: the engine's threads run. `Editor`: the reader and what is typed make progress; the user
need not type. `Epsh` writes the same condition without ENABLED: either steps are taken for ever or
again and again no process is ready, which is weak fairness of the whole system since `Ready` is the
disjunction of its guards; programs that wait for ever (`sleep`) are not ready. Scheduler fairness
for runnable threads is all of this. `Quarantine`, `QuarantineBatch`, `HistoryStore` and
`HistoryIndex` have safety properties only and no fairness.

**What the properties excuse.** The models follow the code where it falls short of what one might ask,
and the property then says so:

* `StableStop` excuses a failed `tcsetpgrp` and the hand-off inside the wait, which returns before the
  block that takes the terminal back.
* `FinishEnds` speaks of commands never suspended: after a suspension the relay may sit in a read
  that lost its byte to the prompt, or may have taken a read of 0 for a hangup. `KeysInOrder` does not
  say that a failed `fg` leaves the prompt its keys (the relay stays unpaused).
* `Recoverable` leaves out displaced objects, `NothingElseLost` the stranger of a batch.
* `AckedSurvives` and `ViewExact` end when a clock gives a reset of an unreadable log no newer generation
  than that log had: a cursor another shell kept may then fit the new file, and the code has no defence.
* `ContextExact` counts a directory's uses as the code shares them.
* `ScanExact` excuses a cancelled scan. `LayerExact` takes inherited variables as the shell's own.
* `ResultExact` (`FsEngine`) excuses flags below a merge and requests that another program or a flag
  obstructs; `OutcomeHonest` excuses a rename whose hard-link record could not be written. A report of
  DestinationPartiallyPublished may be over-cautious.
* `ContextRestored` counts, in `leaks`, the early `?` returns that leave loop depth, scope or
  the suspension of errexit behind. `AnswersExact` leaves out field splitting with blanks at the edges.
* `CompletionDenotes` leaves out the word `~`; `LineEnds` keys behind one that decodes to nothing.

## 4. What the models showed

Where the code does something else than a comment, a document or POSIX says; each was met while
modelling and is a behaviour of the model. The passing runs include these behaviours; the
excuses above are the only places where a property looks away.

Journal and file operations:
* `quarantine.rs:824` - a batch leaves `entry.captured` set when a captured stranger could not be
  restored, and then unlinks it with the rest; docs/rfc/ISH-32-capture-and-retire.md: "Only then unlink
  the verified capture".
* `quarantine.rs:477` - after a kill inside a replacing transfer, recovery clears the stage's record and
  then restores the displaced object to that stage's entry, where no record covers it;
  docs/filesystem.md:272: "each entry keeps its own intent record, and recovery treats each record
  independently".
* `quarantine.rs:433` - a crash between the header's unlink and the rmdir leaves a directory without a
  header that blocks the root; documented as conservative, nothing is lost.
* `indexed.rs` `next_task` - a cancellation that only it sees closes the queue without an event; the
  receiver takes the unfinished root for a complete one and deletion of a partly scanned tree begins,
  against README.md:175. The deletion then sees the cancellation itself.
* `engine/transfer.rs`, merge - blocking flags are deferred, but only files with a hard-link record get
  them back; against docs/filesystem.md:135-138. A flagged group that spans operands fails with EPERM,
  against docs/filesystem.md:182.
* `engine/mod.rs` `rename_object` - a plain `?` after the rename reports FailedBeforePublication although
  the source has moved; so does `replace_by_exchange` when it cannot exchange back.

History, jobs, capture, signals, environments:
* `history.rs` `load_from` - the lock is released between the sync that finds damage and the salvage; if
  another shell repaired the log in between, the salvage fails ("log is intact") and the shell
  exits, against history.rs:144 "A damaged record must not keep the shell from starting."
* `history.rs` `record_directory` - a command used first without a directory: its first directory is
  credited with that use too, against history.rs:44-45 and 367-368.
* `history.rs` `apply_snapshot` - another shell's repair changes the generation and empties this shell's
  recall, against history.rs:120-122.
* `jobs.rs` - the second terminal hand-off leaves with `?` before the terminal is taken back, against
  docs/rfc/ISH-5-foreground-job-outcomes.md:54-55.
* `capture.rs` - the relay loads `paused`, is paused, and then reads 0 under the prompt's modes, which it
  takes for a hangup; a failing resume leaves it unpaused at the prompt, against docs/architecture.md:121-123.
* `signal.rs` - one SIGINT at the prompt is both a pending bit and a byte, so it cancels the line and then
  the next line or operation, against shell.rs:839. `foreground.rs` `handle_signal` drops SIGWINCH.
* `denv.rs` - a shell started inside a project inherits `__DENV_STATE` and keeps a layer without a
  record; two edits within one second keep a stale layer that another shell has allowed.

epsh:
* parser: `a; b &` backgrounds the whole list (against the grammar in parser.rs:9-17); in `echo 2 >f` the word `2` is
  taken as a descriptor; two here-documents on one line may get each other's body; `for` does not read
  here-documents pending at its newline; `#` anywhere inside `$( )` starts a comment.
* expansion: `${10}` is unset; a field after a leading blank and a delimiter is lost; `$((x=1))` and
  `${x=w}` ignore `readonly` without a word. `test ! ! a` and `test ! = a` give 2.
* evaluation: an error inside a condition leaves errexit suspended for the session, `break` out of a
  condition leaves the loop depth raised, `for` over a readonly variable too; a failing expansion in a function call
  leaves scope and parameters; `exit` in a trap is swallowed; `(return 3)` gives 1; forked evaluators
  keep the parent's backup descriptors, so `x=$( { sleep 100 & } >/dev/null )` waits for the sleep;
  `sleep 100 & kill $!` kills only the evaluator in between; `read` does not see a cancellation;
  `getopts` with a missing argument keeps its place, and a readonly OPTIND recurses.

Editor:
* after a sequence that is no key, keys already in the buffer wait for further input; `ESC ESC [ A` loses
  the second ESC; the end marker of an oversize paste split over the two buffers waits for further input; a
  gap of more than 50 ms inside the end marker leaves the paste open.
* `cd ~<Tab>` replaces `~` by a bare name; completion before a closing quote leaves quotes unbalanced;
  a word with a quoted directory (`'a b/'c`) finds nothing; names that start with `~` are not quoted.
* a paste, Ctrl-d, -k, -u, -w, -y, Delete and completion keep the recall position, so Down then
  discards that text; Ctrl-R during recall overwrites the saved draft; Ctrl-P in the search is unreachable.
* docs/completion.md says prefixes match without regard to case and that 64 directories are the limit;
  complete.rs compares case and has no such limit.

## 5. Proofs

A run checks an invariant for one small instance; the theorems below state it for every value of the
constants, from the named assumptions of the module alone. Each proof has an inductive invariant,
checked by TLC on the run's instance before it was proved, one lemma per action, and a theorem that
collects them.

### The journal: `QuarantineProofs`

From `SlotAssumption` (bounds are naturals, the kinds of slots are disjoint, `None` is none of them):

* `SingleSession`: `OneSession`, for any number of processes, forks, crashes (and `TypeCorrect`: `TypeOK`).
* `Preserved`, `AlwaysRecoverable`, `Truthful`: `NothingLost`, `Recoverable`, `TruthfulReport`.

`OneSession` is not inductive. That a process creates a directory only in an empty root needs
`LockInv` (an owner holds the lock, and at `mkdir` the root is still empty); that `LockInv` survives each
step needs that every program counter inside a call belongs to the owner, and `TypeOK` needs which of a
call's locals are set where: `WellFormed`. `IInv` is the conjunction of these four.

The other three need `RInv == IInv /\ FilesInv /\ OwnerInv /\ AckInv`:

* `FilesInv`: *each* state a power loss may expose is sound by itself - every object in one place,
  every capture under a published record in a listed session. A step adds a state or replaces the set, so
  the invariant cannot speak only of the current one.
* `OwnerInv`: what the owner of a session knows at each program counter (the record it wrote is there,
  the entry it verified holds that object, the sync it made leaves one state).
* `AckInv`: what a caller was told is retired is retired in every exposable state.

`Recoverable` follows from the first and `TruthfulReport` from the other two.

### The history log: `HistoryStoreProofs`

From `BoundsAssumption` (bounds are naturals, inode numbers are positive, `None` is no shell):
`HistorySurvives`, `ViewsExact` and `NeverSelfDamaged` state `AckedSurvives`, `ViewExact`, `NoSelfDamage`.

`ViewExact` speaks of idle shells and is not inductive: a shell in the middle of a load, repair or
append will be idle later, and another shell's rewrite may come first. The inductive invariant `Sound`
says that `IInv` holds until a clock goes back (`ghost.clock`, for good), and, from a separate induction
(`Headers`), that without damaged bytes no clock is asked. `IInv` adds to `TypeOK`:

* `DiskInv`: in every exposable state ids increase, only the last frame is not wholly written, nobody was
  told of that one (`Loose`), and each acknowledged occurrence is in the log, a legacy file or the preserved damage.
* `GhostInv`: occurrences are numbered as they are written.
* `ShellsInv`: every shell `Agrees` with the log - if its generation is the log's, its cursor stands
  behind readable frames, with the id of the last of them, and its view is exactly those; a generation
  from the future does not exist - and the holder of the lock has read (`Snapshot`), is about to
  publish (`Publishes`) or is writing (`Appending`) what the log calls for.

### Foreground jobs: `ForegroundJobProofs`

From `ParametersAssumption` (at least one member; nothing about which calls fail): `SignalsSafe`,
`ResultsExact` and `StopsStable` state `GroupSignalsSafe`, `ResultExact` and `StableStop`. Members
exit, stop and are killed at any time, so nothing the loop has seen of a running member stays true; the
invariant keeps what does: `MemberInv` (a member recorded as exited or reaped is so for good, and its recorded status is the
kernel's), `OwnershipInv` (whom the shell still has to reap), `LoopInv` (what the scan in
progress has established of the members before the index), `LostInv`, `ResultInv` (which
results each exit of the loop carries), `TerminalInv` (who owns the terminal where). `ghost.left` names the
members a failing `waitid` or `waitpid` of `terminate` leaves; `LostInv` says that no wait looks at such a job again.

### The input relay: `CaptureRelayProofs`

From `RelayAssumption` (sizes of reads and of the slave queue are positive, any keys may be suspend
keys): `RelayInductive` states the inductive invariant, `KeysKept` states `KeysInOrder`, for any number
of keys and suspensions. `KeysInOrder` says where bytes are; `IInv` adds why each move keeps them there:

* `PhaseInv`: the relay holds a chunk in hand or a tail, never both - a tail is flushed before it reads
  again, so what is read goes behind what is held - and a write stops exactly at a suspend key.
* `CountInv`: the occurrences of a byte over the seven places it can be in add up to one, or to none
  if it became a signal. A step moves bytes between two places; the sum is what it keeps.
* `QueueInv`: the terminal holds the latest bytes typed, in order, everybody else older ones. So
  what the relay or the prompt reads next is later than all it has, and a given-back tail is earlier.
* `OrderInv`: what the command read, the slave's queue, the chunk and the tail, in that order, increase.
* `BirthInv`: while the relay is paused nothing typed at the current prompt is beyond a chunk that
  has not yet passed the load of the pause flag.

### Operations in the foreground: `ForegroundOpProofs`

From `OpAssumption` (bounds are naturals, the channel holds something, a wake-up is no event):
`OperationInductive` and `EventsReach`, which states `EventsDelivered`, for any number of threads, events
and operations. What the handler leaves for `poll` is not restricted at all: at every poll a signal may
be pending or not. `IInv` adds to `TypeOK`:

* `PhaseInv`, `LastInv`: the controller drains, takes the last progress and joins only when the
  operation's thread has finished, in that order; so after the last event nothing enters the
  channel, and after the last take nothing enters the cell.
* `ProgressInv`: the latest progress is on the screen, in the controller's hand, in the cell or with a
  thread that has not merged it yet - wherever it is, no wake-up is needed to find it before the join.
* `MadeInv`, `StreamInv`: of the events each thread has sent, what is rendered comes first, once and in order,
  the rest is queued behind it, and none is missing. That this survives a send, a wake-up, a receive
  and a dropped wake-up are four lemmas about sequences.
* `OutcomeInv`: the user's cancellation stands exactly if a signal was seen, and the first error is
  either the controller's or still the watchdog's.

### Directory environments: `DirEnvProofs`

From `EffectAssumption`, `PathAssumption`, `SetupAssumption` and `NoneAssumption` (an `.envrc` sets, drops
or leaves each variable; paths are sequences of directories; setups fill the slots; sentinels are no
contents): `CandidatesWhole`, `OnlyTrusted` and `LayersExact` state `CandidateWhole`,
`TrustedOnly` and `LayerExact`, for any number of shells, kills and edits. `IInv` has five parts:

* `EvalInv`: what an evaluation's phase implies about its child, pipes and channel: a record on the
  failure channel is there until it is read, so a channel found closed and empty means no helper was called.
* `FileInv`, `TrustInv`: an entry is torn, absent or a body some standing decision allows
  (`decided`, a history: what is allowed while an allow is under way stands beside it, a finished allow
  or deny ends what stood before it), also what each shell with the entry open may still write; and the legacy entry
  behind an absent one is no older decision; a deny removes the legacy entry first, and without that
  order the second half would bring it back. `OnlyTrusted` so says for two shells that decide
  at once that what is evaluated was approved by one of them, at the moment its entry was read.
* `OpInv`, `ShellInv`: a shell's variables are its own under the layer its record undoes, at every point
  at which record and variables differ.

The proof attempt found that two CASE expressions of the model had overlapping arms; they are now IF.

### The order of the scan: `RemovalProofs`

From `ScanAssumption` (finite tree and threads, the root is its own parent, sizes are positive, `None`
is no entry): `ScanInOrder` states `FinishedInOrder`, that the pending counts implement `Postorder`, for
any tree, number of workers and limits. The gate, the park protocol, the budget and the channel
need not be restricted: whoever runs, the counts are right. `IInv` adds to the types:

* `Fresh`, `Grounded`, `Rooted`, `QueueFresh`, `Apart`: a directory still to be scanned or released has one token, in
  one place - a thread's task, a held or kept task, the queue, or a release in an Outbox; a child is
  taken up only by the one thread that reads its directory.
* `Counted`: a pending count is at least the tokens of the directory, the releases carried up to it
  and its unfinished children. So the step that lowers it to zero knows that no child is left.
* `Blamed`, `Together`: what is incomplete below a directory is already recorded in it, or in the release on
  its way. So the last decrement decides rightly.
* `Orderly`: what each program counter holds in its locals.

Every step of the scan then leaves `known` and `verdict` alone (`Untouched`), takes up one child
(`Registers`), or lowers a count (`Releases`), which at zero is `Finish` and otherwise a stutter.

### The report of a deletion: `RemovalProofs`

From `ScanAssumption`, `RemovalAssumption` and `TreeAssumption` (every entry is below the root, and what
appears late appears with all that is in it): `RemovalKeeps` states the inductive invariant and
`ReportsExact` states `ReportExact`, for any tree, batch sizes, failures, cancellations and interference. `RInv` is:

* `Walks`: the frames of a walk lead down from its directory, and a batch and its results are files of
  the top frame. A walk was handed over by the group, which no longer has it to do.
* `StillAhead`: what a thread has ahead - the unvisited rest of its frames with all below, its
  batch, its open directories - is neither recorded nor removed.
* `Results`: what was removed is recorded or among the results of some thread, and results say what happened.
* `Flow`: each recorded outcome is exactly once among the unsent ones, in the channel or in rmrf's report.
* `Stages`: how the phases of executor and rmrf fit, and that the end is the last event.
* `Kept`: what is in place has its parent in place; what is held is told to the journal's recovery.

The territories of different walks are disjoint, as the tree has no cycle, so a step of one thread
disturbs no other. Each step is shown to move entries from ahead to the results (`Shifted`) or into the
record (`Reported`), and one lemma (`Advance`) concludes for all threads. The second half of `ReportExact`,
that success means that nothing is left, follows from `Kept`: if no child of the root is in place, nothing is.

The attempt found a flaw of the model, now corrected: a directory that another program took away could leave
replaced entries in place. It also made explicit, in `TreeAssumption`, that nothing
is there from the start inside a directory that appears late.

### The history index: `HistoryIndexProofs`

From `IndexAssumption` (directories are sequences, `NoDir` is none of them, times and bounds are naturals,
no command is the tombstone): `RecallsExact` states `RecallExact` and `ContextsExact` states
`ContextExact`, for any commands, directories, times and number of occurrences. `IInv` adds to `TypeOK`:

* `Rows`: the table of latest occurrences holds the last occurrence of each command, sorted, and each
  command's entry finds its row.
* `Slots`: each recalled command is in the slot its entry names, everything else is a tombstone,
  and slots are in the order of the last recalls; `Bounded` bounds the tombstones.
* `Contexts`: what each of the four forms of a command's records stands for (`Shape`). A shared code
  stands for all its uses, a tracked directory for those that have a directory, a map for each one's own.

Both lists are made by leaving entries out. The model says so by ranks (`Kept`: the entry with i
kept positions up to it comes i-th) instead of by a recursion over the list, so
that the lemmas about it (`KeptIs`, `KeptSeq`, `RankSame`) need only cardinalities. `RowsMoved`, `SlotsRemembered` and
`SlotsCompacted` follow one command through a repetition and the reclaiming of slots. `ShapeRecorded` and
`ShapeOther` follow a record through sharing, tracking and splitting, and `ContextFollows` reads
the answer off the shape by either walk of the lookup. `Shape` holds only of commands each
of whose uses without a directory follows one with a directory; `ContextExact` excuses the others (section 4).

### What stays with TLC

* Liveness: `WaitReturns`, `OperationsReturn`, `FinishEnds`, `CancelReturns`, `RemovalEnds`,
  `EngineEnds`, `ProgramEnds`, `LineEnds`. The prover does not reason about ENABLED or fairness.
* What recursive definitions compute: `FsPlan`, `FsTransfer`, `FsEngine`, the modules of epsh, `Completion` and `Editor`
  describe trees and texts with recursive operators, for which there is no SMT backend. So
  `NothingLost`, `OutcomeHonest` and `ResultExact` of `FsEngine`, and all of `epsh` and `editor`. Where a proof
  needs ancestors (`Upward`) or the least of a set of numbers, the definition is by closure or the
  well-foundedness of the naturals is used.
* `ScanExact`: that an accepted scan has every entry needs, besides `RemovalProofs`, an account of
  every message between a thread's Outbox and the tree, in order.
* `NothingElseLost` and `BatchOutcomes` of `QuarantineBatch`: its steps interleave several entries of
  one session, so the whole of `OwnerInv` would have to be restated per entry and phase of the batch.

## 6. What is left

Every component that can lose data, hang or mislead the user has a model. Of the theorems worth having, in
this order: `ScanExact`, by following each entry from the scan to the Outbox, the channel and the tree, with
the tokens of `RemovalProofs` for completeness; the two properties of `QuarantineBatch`, with `OwnerInv` per
entry; and the recursive operators of `FsEngine` rewritten as recursive functions, after which
`NothingLost` comes into reach.

## 7. Simplifications and what is not modelled

Byte layouts, checksums and text formats are abstracted to their outcomes; of variants per operating
system the Linux one is modelled. Within the modelled components:

* Jobs and relay: descendants of members, SIGCONT from outside, window sizes and output copying.
* Scan and deletion: deques are one set, atomics sequentially consistent; the removal of a path that
  is not a directory and the loop over several paths.
* `ish-fs`: a check and the system call it guards are one step, and a journal session is atomic (its own
  steps are in `Quarantine`); nobody substitutes directories; aliases below renamed trees,
  nested mounts, descriptor and memory budgets, extended attributes and the spool file of records are left out.
* epsh: a pipeline's forks are one step, pipes are unbounded, reads of a line atomic, files made by redirections are not
  seen by globbing, `test` and `cd`; descriptor numbers of transient pipes, here-documents' pipes,
  SIGPIPE, `kill` of groups, `kill -l`, listings, host policies, timeouts, sinks and xtrace are left out.
* Editor: offsets count characters, a wide character has width 2; zero-width characters, letter case,
  ranking ties, the bonus of the directory in ranking, caches and drawing are left out. A read is never interrupted
  (handlers use SA_RESTART). A gap after Escape is always noticed, none occurs inside a sequence.

Not modelled: rendering, prompt, listings, configuration, diagnostics (output text); `dispatch.rs` and
`frecency.rs` (classification and ranking without state); the output buffer of a capture session;
directory readers and most of the platform layer (decoding of kernel records, copy methods, metadata),
whose results the models take as nondeterministic; `formal/`, tests, benches and examples.
