# jma-mail in TLA+

A verification project for `jma`, the command and daemon that keeps a local
Maildir and a JMAP server in sync through a SQLite state database. It models
the synchronisation core, checks it with TLC on small instances, and proves
what it can with TLAPS. Paths below are relative to `src/`, the repository.

## 1. The system

### Components

| Component | State | Operations | Talks to |
|---|---|---|---|
| Cycle engine (`sync/engine.rs`) | the cycle in progress | `run`: resolve mailboxes, dedupe, scan, fetch, reconcile, filter, execute, checkpoint | everything below |
| Reconcile (`sync/reconcile.rs`, `sync/plan.rs`) | none: pure | `reconcile()` from observations and known rows to a `SyncPlan`; `into_filtered` | engine |
| Executor (`sync/execute.rs`) | the plan, the edges of its server calls | one phase per kind of action; the cursor ratchet | maildir, server, DB |
| Scan (`maildir_ops/scan.rs`) | none | `scan_folder`, `scan_paths` | maildir, `local_state` |
| Dedupe (`sync/dedupe.rs`) | none | delete younger copies per folder and Message-ID; feed `LocalIndex` | maildir |
| State DB (`state/`) | `message_map`, `local_state`, `mailbox_map`, `jmap_state`, `folder_checkpoint` | upserts and deletes in short transactions; a partial UNIQUE index on `maildir_id` | engine, executor |
| Maildir store (`maildir_ops/store.rs`) | files in `cur/` and `new/` | deliver, promote, reflag, move, unlink | user's mail programs |
| JMAP calls (`jmap/`) | the server's objects and state string | `Email/changes`, `query`, `get`, `import`, `set`, blob download; `Mailbox/*` | server, other clients |
| Mailbox bindings (`sync/bindings.rs`, `jmap/mailbox.rs`, `maildir_ops/sentinel.rs`, `layout.rs`) | `mailbox_map`, sentinels on disk | bind, create, rename, orphan | engine |
| Daemon (`daemon/runner.rs`) | trigger channel, session, backoff | coalesce triggers, run a cycle for each batch, reconnect | engine, hook, watcher, event source |
| Watcher (`daemon/watcher.rs`, `classify.rs`, `sync/self_writes.rs`) | debounced file events, cache of own writes | send `LocalChange` triggers | maildir, daemon |
| Event source (`daemon/eventsource.rs`) | SSE stream, last states, watchdog | send `RemoteChange` triggers | server, daemon |
| Hook (`daemon/hook.rs`) | `running`, `pending` | `trigger`, `run_loop`, retries | daemon, a shell command |
| Locks (`maildir_ops/lock.rs`, `state/db.rs`) | two file locks | `acquire_mutator_locks` | processes |
| Janitor (`janitor/`), removal and drift (`maildir_ops/`) | none | prune, rebind, destroy duplicates | all stores |
| Retry and discovery (`jmap/retry.rs`, `discovery.rs`) | cached URL | bounded backoff around a call | server |
| Configuration, CLI, auth, wizard, TUI, profile, headers | - | input and output | user |

### What is hard

Three stores change under the engine's feet: the maildir (the user's mail
programs), the server (other clients) and the state DB, which the engine writes
in many small transactions between awaits. A cycle works from observations that
are stale by the time it acts. It may die at any point; every cycle must be safe
to run again over whatever the last one left. The email cursor must neither lose
another client's change nor make the engine meet its own changes as foreign ones.
Message-IDs are the only identity that survives the loss of the DB, and they are
not unique. `PROJECT.json` lists the hazards with the line where each bites and
the properties that watch it.

### What makes each component correct

- *Engine, reconcile, executor, scan, dedupe, DB, store together*: no message is
  lost; the tables agree with each other; quiet cycles converge; what the user
  moved stays moved; nothing is destroyed that nobody deleted; after a DB loss
  nothing is transferred twice; the cursor passes no foreign change.
- *Fetch*: nothing is passed by between the pages, chunks and states of a fetch.
- *Download phase*: each blob is stored once or the phase reports failure; it
  ends, and leaves nothing in `tmp/`.
- *Mailboxes, orphans, removal, janitor*: whatever becomes of mailboxes and
  maildirs, mail nobody removed is somewhere; a mailbox is destroyed only when its
  maildir was removed, a maildir only when its mailbox is gone; a cache that is
  reused mirrors the server.
- *Daemon, watcher, event source*: every change is followed by a cycle that
  looks at it; no state of the server is taken for old news before the DB has it.
- *Hook*: one run at a time, no request forgotten, no run per request.

## 2. The modules

| Module | Models | Kind |
|---|---|---|
| `Reconcile` | `reconcile.rs` for messages, `plan.rs` | pure operators: an observation and the rows to a plan |
| `SyncCycle` | engine, executor, scan, dedupe, DB, maildir, server | state machine over `Reconcile` |
| `MCSyncCycle` | - | `SyncCycle` with the environments TLC uses |
| `Transfer` | what a download phase promises | abstract specification |
| `Downloads` | the download phase of `execute.rs`, blob retries, `limits.rs` | state machine; implements `Transfer` |
| `Pull` | fetch and cursor: `jmap/email.rs`, `fetch_remote_state` | state machine, composed with `Transfer` |
| `Resolution` | `decide_mailbox_action`, bindings, orphan finalizers | pure operators, extends `Reconcile` |
| `Folders` | the folder half of a cycle with users, clients and crashes | state machine over `Resolution` |
| `Janitor` | rebindfolders, prune, remotededupe, drift | actions beside those of `Folders` |
| `MCFolders` | - | accounts for `Folders` and `Janitor` |
| `Watch` | runner, watcher, classifier, self-write cache, event source | state machine |
| `Hook` | `hook.rs` | state machine |
| `ReconcileProofs`, `SyncProofs`, `SyncTableProofs`, `FoldersProofs`, `DownloadsProofs`, `PullProofs`, `WatchProofs`, `HookProofs` | - | proofs |

How they fit: `SyncCycle` has a message cycle in detail and takes the fetch, a
download and the set of folders as simple steps; `Pull`, `Downloads` and `Folders`
are those steps in detail, with the rest simple. `Pull` uses the download phase
through `Transfer`, which `Downloads` implements. `Folders` uses the same
`Reconcile` as `SyncCycle`. `Watch` has a cycle as two steps, the scan and all
the rest, and asks only whether cycles look where they must. Operators named
`..._Mistake` or `..._<slip>` stand before the definition they corrupt and are not
part of a model; `PROJECT.json` puts them in its place to show that a property
notices.

### Reconcile

An observation is a record of sets: what the scan saw (`news`, `flagged`, `dels`, `seen`),
the index of the dedupe walk, the server's answer (`remote`, `destroyed`, `initial`). `R`
is `message_map`, a function from emails to rows. Each rule of the source is one set:
`DetectedMoves` is the move pre-pass, `Drifted` and `DeleteConflicts` are
`handle_known_remote`, `Rebinds` and `Rescues` are Branches A and B of `try_adopt_remote`,
`LocalAdopts` and `Uploads` are `handle_local_new`, and so on. `PlanOf` puts them in one
field per executor phase. The one choice reconcile leaves to hash order, which new file of
a Message-ID is remembered, is the argument `byMid`. `Observation` and `Plan` are the
types of what goes in and comes out; a `Row` that is there has a file in a synced folder.

### SyncCycle

| Variable | In the code |
|---|---|
| `disk`, `nextFile` | files by maildir id: `cur/` or `new/`, folder, Message-ID, flags |
| `server`, `nextEmail`, `ver` | the server's Email objects and Email state; `at` is the version of an email's last change, so `Email/changes` is a comparison |
| `foreign`, `own` | the versions made by others and by this cycle's own calls |
| `rows`, `ls`, `cursor`, `dirty` | `message_map`, `local_state`, `jmap_state`, and the folders that differ from `folder_checkpoint` |
| `pc`, `dir`, `todo`, `obs`, `ids`, `newState`, `plan`, `imported`, `failed`, `mirrors`, `held` | the locals of one cycle |
| `budget` | the environment: which of `Environments` a behaviour has, what is left of its steps, and the account's `conflict_strategy` |
| `removed`, `foreignMove`, `calm`, `quiet` | ghosts, read by properties only |

A cycle is cut where the code awaits the network, commits a transaction or
touches one file: `StartCycle` (dedupe and index), `ScanFolder` once per folder
in binding order, `FetchChanges` or `QueryMailboxes`, `GetEmails`, `GetState`,
`MakePlan`, then the executor's phases in its order: `AdoptAll`, `DownloadOne`,
`LocalFlag`, `LocalMove`, `LocalDelete`, `UploadOne`, `CommitUpload`,
`RemoteSet`, `MirrorSet`, `AdoptPairs`, `AdvanceCursor`, and `Checkpoint`. Each
phase has the ways it goes wrong in the code: a batch the index refuses, a blob
that is gone, a file that moved, an import the server refuses, an id it will
not update. `CycleDies` ends a cycle anywhere; `DiesAfterDisk` ends it between a
file operation and the transaction that records it. Between any two steps the
user (`UserActs`) and other clients (`ServerActs`) act.

### Abstractions

- A flag set stands for a file name's suffix and for its keywords: on the six
  standard flags the conversions of `flags.rs` are inverse, other keywords decide
  nothing. `jmap_keywords` and `flags` of a row are one field.
- An email is in one mailbox, or outside the synced ones. A file has a
  Message-ID; those without one are never synced. Sizes are left out.
- Ids are numbers: a lower file id is an older file, and the emails of an answer
  are handled in id order.
- A server call is atomic, `Email/changes` is one page, and `Email/set` one
  call; a set that is accepted always advances the state, and one that changes
  nothing returns `oldState = newState`.
- The unique index is checked after a transaction, not after each statement.
- Only full-scope cycles; folders and mailboxes are fixed.
- A mail program renames a file in place to change its flags and reads `new/`
  only to move the file to `cur/`.

### Downloads and Transfer

`Downloads` is `download_messages` with its two tasks. The producer
(`run_download_stream`) starts requests up to `concurrency` (`Launch`), each of
which arrives, is retried with a new `tmp/` file, or gives up (`Arrives`,
`do_retry`, `GivesUp`); a finished one is taken from the stream (`Yields`) and
sent over the bounded channel (`Sends`). It polls its requests only while it is
not sending, as `buffer_unordered` does. The writer (`download_batch`) takes items
and either counts them (`RecvTransient`, `RecvHard`) or renames the file and commits
the row in two steps (`finalize_message`, `CommitRow`). It leaves its loop when the
channel is closed, or at once when a file or row cannot be written; either way
it drops the receiver, and a producer that sends after that drops its stream
(`SendFails`). `JoinProducer` decides between success, failure and another pass
at half the concurrency (`NextPass`). `tmp` has the emails with an open temporary
file, which `Drop` unlinks. Pauses have no length.

`Transfer` is what the rest of a cycle may rely on: a set of emails is requested,
each is stored at most once, and success means all are. `Downloads` implements
it under the mapping `want <- jobs, have <- rows` and a `status` that is `running`
from the request to the end of the last pass.

### Pull

The mailbox is the sequence `box` in the order of `Email/query`; `log` has one
entry per change, so the Email state is its length, and `oldest` the state the
server can still compute changes from. A cycle goes through the pages of
`Email/changes` or, without a usable state, the probe, the positions asked for
in any order, or the serial pages without a total, then the chunks of
`Email/get`, then reads the state (`get_current_state`), applies, downloads
through `Transfer`, and saves the cursor last. The server changes between any two
of these. `CycleFails` ends a cycle anywhere and keeps what the DB has. Only pull:
the local side is `SyncCycle`'s.

### Resolution, Folders and Janitor

`Resolution` reads a snapshot `in` (`MailboxesInput`): the listing, `mailbox_map`,
the sentinels found on disk, the maildirs. `FirstCycle` ... `Unchanged` are the
verdicts of `decide_mailbox_action`; `PendingWrites`, `MetadataWrites`, `NewMailboxes`,
`PullRenames`, `PushRenames` and the two routes to `LocalOrphans` are what the engine
stages for each. `CreateRemotes`, `ResurrectCreate`, `BlockedOrphans`, `CounterMoveLocals`
and `CounterMoveRemotes` are the folder part of reconcile.

| Variable of `Folders` | In the code |
|---|---|
| `tree`, `emails` | the server's mailboxes and emails |
| `dirs`, `disk` | maildirs with their `.jma.mapping` sentinels; files by maildir id |
| `cache`, `rows`, `ls` | `mailbox_map`, `message_map`, `local_state` |
| `mcur`, `ecur`, `unseen` | the Mailbox cursor (none, behind or at the server's structure), whether there is an Email cursor, and the emails changed since |
| `pc`, `cyc`, `plan`, `reply` | the cycle: its phase, `MailboxBindings` and the folder actions, the message plan, a server call whose effect nothing has recorded yet |
| `mlater`, `later`, `mine`, `broken`, `held`, `failed` | what others and the cycle's calls changed since the fetch: what the ratchet and the checkpoint decide from |
| `setup`, `acts`, `crashes`, `mail`, `gone`, `forfeit` | the account and ghosts |

A cycle is `Resolve`, `Scan`, `Fetch` (which fetches and reconciles),
`ApplyUnconditional`, then the executor's phases in their order (`Phases`), the Email
cursor and `ApplyPending`. Each maildir that is made, renamed or removed and
each mailbox call is a step; a mailbox call and what it writes to sentinel and
`mailbox_map` are two (`CreateRemote`, `LandCreate`), and so are the rename of a
directory and what follows it (`RenameLocal`, `FollowRename`). A step that writes
several things in a row, rows, a maildir and its sentinel (`CreateLocal`), `local_state`
and sentinel (`FollowRename`), `mailbox_map`, `local_state` and sentinel (`LandRename`),
may stop after any of them: a fault is logged and the cycle goes on as the code does, or
the process dies (`Outcomes`, `Ends`). So may the removal of a tree, in the rescue, in
`remove_dir_all` or before its transaction (`RemovalCutShort`), and a rename may be
refused (`RenameRefused`). Users and clients do not act between the writes of one such
step, which have no await between them but for none that reads what they touch. A message
phase is one step. The user
moves, makes and removes maildirs, moves mail, loses sentinels or the DB; another
client creates, renames and destroys mailboxes, delivers, moves, copies and expunges
mail; a cycle dies between any two steps.

`Janitor` adds the commands. `Begin` takes both locks: no cycle and no other
command runs, but users and clients do. A command first plans from what it
sees and then writes entry by entry: a sentinel at a time, a directory tree at
a time, which may fail and be left for later (`PruneEntryFails`), a chunk of
duplicates at a time, of which the server may refuse any. `Groupings` are the samples `rebindfolders` may draw.

Abstractions: a folder is a sequence of one or two names, which is all that
nesting needs, so another client makes and moves mailboxes at most one level below a
top-level one; `namespace.rs` is the identity; flags are left to `SyncCycle` and
policy `ServerWins` is the one TLC checks; a rescue maildir is one place.

### Watch

A file is in one of the places `new`, `cur`, `curS` or gone; a path is a file and a
place. `events` has the paths in the debouncer. `Flush` classifies any subset the
debouncer may emit (`CanEmit`), drops what the self-write cache knows completely
(`matches_all`), and puts at most one trigger into `notifyQ`; `Forward` is the task
between that channel and the runner's. `StreamOpens`, `StreamFails`, `Watchdog`,
`ReceiveState` and `SendRemoteChange` are the event source. The runner connects
(from the configured or the cached URL, with discovery), opens its session,
receives a trigger, waits out the coalescing window, and runs a cycle: `Scan`
reads what the merged trigger says to look at, `Exchange` does everything else,
records its own writes in the cache, and moves the cursor. A transient failure
goes through `SleepsBackoff` to a new session; a hard one is logged, and ends the
daemon only when it is `connect` that fails. `WindowElapses` merges what has arrived and
waits for both names of a rename: that they arrive within `coalesce_window_ms` is the
timing assumption of `DEVELOPMENT.md:472-478`, which nothing in the code enforces.
`excused` is a ghost with the changes lost in a way the documentation accepts.
`Unseen` is what may have changed without a cycle having looked; a folder
that came or went after the scan of the running cycle (`Misread`) is part of it, although
the exchange is about to make the table wrong about it and has not yet. `OnItsWay`
says what will make a cycle look: a path in the debouncer, a trigger in flight, a pushed
state that is new, a scan that has seen it (`WillSettle`), or anything that
brings a full cycle. Of the structural paths only those count that fire whatever a cycle
binds in the meantime (`Signals`).

### Hook

`running` and `pending` are the two booleans of the code. A caller takes the
lock in `TriggerBusy` or `TriggerIdle`; the latter leaves it in `spawning` until
`Spawn`, since the code spawns after it unlocks. The task goes `top`, `command`,
`ended`; `Settle` is the critical section at the foot of `run_loop`. The command
itself succeeds or fails; that it ends is assumed.

## 3. The runs

| Run | Environment | Checks |
|---|---|---|
| `hook` | three callers, 11 retries asked for | types and the retry clamp, one run at a time, no lost request, bounded follow-ups; every request is answered |
| `sync_steady` | 2 user steps (new, flag, move, delete), 1 client step; LocalWins with a DB that is kept, ServerWins with one the user may lose; fairness | types; the tables agree; two quiet cycles pull and push everything; the cursor; only deletions destroy; no second download, no second import, eventually in sync |
| `sync_crash` | ServerWins; 1 user step of any kind but a rename in place, 1 client step, 1 crash, 1 refused id; or 1 or 2 moves of the user, 2 client steps that duplicate, move and destroy, and full, pull-only and push-only cycles | nothing lost; the cursor; the user's moves stick; live emails keep their file |
| `downloads` | 4 emails, 2 requests at a time, 2 attempts, 4 failures | types and concurrency; nothing forgotten, nothing stored twice, nothing left in `tmp/`; a phase ends; `Transfer` is implemented |
| `pull` | 3 emails, 2 server changes, 1 failing cycle; pages of 1, chunks of 2; totals or not, a garbled row, a forgotten history | types; the cursor passes nothing by; destructions are applied; mail that stays arrives |
| `watch` | 1 file, 2 folders, channels of 1, any 2 acts of the environment | types and capacities; no change is forgotten, and each is seen in the end; only gone files destroy; only a cycle that fails for good makes the event source deaf; a silent stream is reopened |
| `folders` | accounts of two or three mailboxes; see below | types; nothing lost; a reused cache mirrors the server; only removed maildirs and gone mailboxes are destroyed |
| `sync_lost`, `sync_unflag`, `pull_clamped`, `watch_unavailable`, `folders_none` | the smallest environment that shows a disagreement | see below |

### The bounds

All `sync_*` runs have two folders, two Message-IDs, six files and five emails at
most (more than the budgets can use: deadlock checking shows that no bound
ever stops the engine, except where noted), and start after a first sync of one
message with any flags, in `new/` or `cur/`, downloaded or uploaded.
`Environments` is a set of environments in one state space, each with its steps, the
kinds of step that occur in it and its `conflict_strategy`; `MCSyncCycle` names them.
`sync_steady` has `KeptDb` (LocalWins, no loss of the DB) and `LostDb` (ServerWins, where
the user may lose the DB and the server moves nothing). It keeps the user out of the
gap between two folder walks (`UserPhases`) and clients out of the gap between the
initial query and the read of the state (`QuietQuery`): both gaps break a property
(hazards, and "Seen" below), and the run says what holds outside them. It has full
cycles only, since pull-only and push-only ones drop work for good ("Seen"), and no
clearing of flags by the user, which is `sync_unflag`. `sync_crash` has
`Broken` (one disturbance of each kind) and two of `Copies` (several emails with one
Message-ID and cycles in one direction: all three kinds with one step of the user, full and
pull-only ones with two), and acts everywhere; it leaves renames in
place and second crashes to `sync_lost`. It does not check for deadlock: a plan the
unique index refuses is refused in every later cycle, each cycle's `Email/set`
advances `ver`, and `MaxVer` ends it. It says that crashes lose nothing, not that they
transfer nothing twice. One message, then up to three more, and two or three
disturbances with up to two full cycles after them reach every rule of reconcile
and every phase of the executor with something of another actor before, inside and
after it. `calm` counts undisturbed full cycles up to two: one may still meet its
own changes or what the one before left held, two must not.

`downloads`: four emails over two requests and a channel of two fill the pool, the
channel and the hand between them at once, with one more waiting; four
failures let an email exhaust its attempts in one pass and fail in the next.
It may stop when all is stored, so deadlock is not checked; `PhaseEnds` is the
property that says so of a phase. `pull` likewise may rest. Its pages of one and
two mails make every boundary between pages and chunks occur; `QuietQuery` keeps
the server still while it is listed, since an email that arrives between query and
state is passed by (below), and `ServerPage >= QueryPage` since the opposite is
`pull_clamped`. `NothingSkipped` excuses the rows that do not parse (`dropped`).

`watch`: capacity one makes both channels full at once. One file is enough, since
a batch, a cache entry and a scan treat files one by one and a second only adds
paths to sets; two folders are what a rename needs. `SplitsEchoes` and `Overlaps`
are FALSE: the debouncer keeps the two names of a rename together, and a file
does not change again before its last change is synced; with either of them TRUE
and three acts on one file, TLC finds `DestroysOnlyGone` and `NothingForgotten`
violated, in ways listed below. No server of the run answers 5xx, which ends a daemon
with a cached URL: `watch_unavailable`. `NothingForgotten` and `EventuallySeen` excuse
what a failed cycle had taken from the channel and what changed while no stream was open
(`excused`): the code accepts both until the next change. What is left of a reconnect is
`OnlyHardErrorsDeafen`: a state that was announced is not dropped as old news while the
DB lacks it and no fetch is on its way. Deadlock is not checked: a daemon may be dead.

`folders`: `Setups` is a set of accounts, each with its own bounds, in one state
space of 800,000 states: any two acts of user or client (`TwoActs`), on
nested mailboxes under three deletion policies, with one crash under the policy that
deletes on both sides, and on a flat account with one crash under `delete-remote`
alone; lost sentinels and rows repaired by the commands, up to four acts (`Repairs`,
`Unbindings`); nested maildirs with a server that refuses ids (`Nestings`); copies
of mail and `remotededupe` (`Copied`); maildirs a cycle cannot rename (`Mounted`),
whose user makes none, since one made below the old name breaks `OnlyRemovedFolders`
("Seen"). The accounts with a crash are those whose
cycles destroy mailboxes, where a crash can leave half a deletion behind.
Operations of the user are quantified over the folders an account names. Two acts
and a crash reach every conflict of renames, orphans and resurrections and every
partial failure of a folder phase; what three acts add is mostly names that are
reused. `Reuse` FALSE keeps a name or path from being given again before a
cycle saw it free: with TRUE both `Only...` properties fail (below). `TwoActs`
removes maildirs only where the policy covers it, the rest being `folders_none`.

Every action of the next-state relations fires in some passing run.

### Fairness

`sync_steady` assumes that cycles are started again and again (the daemon, or
whoever runs the command) and that a started cycle goes on. `hook` assumes that a
caller past the lock reaches its spawn (there is no await between) and that the
runtime polls spawned tasks. `downloads` assumes that both tasks are polled and
that a request ends, which the client's timeout sees to. `pull` assumes that
cycles go on. `watch` assumes that each task and thread runs, and that a lost link
comes back. Nothing is assumed of the user, other clients or failures; their
budgets end.

### Disagreements found

1. `sync_lost`: a file renamed within its folder is adopted and its email
   destroyed by the same plan. A crash between `Email/set` and its mirror then
   deletes the file too: the message is lost.
2. `pull_clamped`: with a total, the pages of `Email/query` are asked for in steps
   of `QUERY_PAGE_SIZE`; a server that clamps the page leaves gaps that no later
   cycle fills, which the comment at the constant says cannot happen.
3. `sync_unflag`: `UpdateRemoteKeywords` pushes the keywords of the flags that are set;
   a flag the user clears is never cleared on the server, and the row then says that it
   is. `flags.rs:52-66` has the patch that would clear it.
4. `watch_unavailable`: a 5xx at a reconnect with a cached URL drops the URL; the
   discovery that follows gets the 5xx as a plain-text error, which is not taken for
   transient, and the daemon ends, although `runner.rs:191-195` and `624-628` say that
   transient connect failures are retried forever.
5. `folders_none`: under the default policy the user removes a maildir; the next
   delivery makes it again, and the cycle after that takes the other mail for
   deleted and destroys it on the server.

### Seen, and not made runs of their own

TLC showed these with other constants than the runs use, or they follow from the
code that was modelled; each is excluded from a run by the constant named, or is
outside what the properties say.

Messages:

- Two emails with the Message-ID of a destroyed one both take its row in one
  cycle, or two rows pair with one new file: the unique index refuses, in this cycle and
  in all later ones. A pair whose target already has a row, or copies delivered
  while the bound email is expunged, do the same (`IndexRefuses`; `PairsRefused` and
  `AdoptRefused` of `Folders`).
- A new file that the user moves to another folder during the walk is found new in both. Moved
  back between the two uploads it is imported twice, and the unique index refuses
  the second row, which fails the cycle (`IndexRefuses` at the commit of uploads).
  It takes three steps of the user, one more than the runs allow.
- `TablesAgree` needs a message that is one file and one email: with a copy, a file moved back
  in the middle of a cycle leaves row and `local_state` in two folders. So does a
  pull-only cycle in which Branch A takes the row of a file the scan paired as moved.
- `UserMoveSticks` speaks of cycles that are not pull-only, and even there more than one
  crash or user step makes it fail: after a crash between
  the `Email/set` of a `MoveRemote` and its pair adopt, a second move of the file is
  undone. `LiveRowsKept` fails with four steps of other clients.
- An email delivered between the initial `Email/query` and the read of the Email
  state is never downloaded (`QuietQuery` FALSE).
- A row of `Email/get` that does not parse is fetched again only if the email
  changes again; the comment at `jmap/email.rs:853` says the next `Email/changes`
  lists it.
- An initial sync that fails after its downloads, with the email destroyed before
  the next: the file stays, since the initial path reports no destroys.
- A pull-only cycle adopts the user's move and drops the `MoveRemote`; no later
  cycle pushes it.
- A file moved from a folder not yet walked to one already walked is taken for a
  deletion (`UserPhases`). After a DB loss an email that another client moves between
  query and get is uploaded as a duplicate. Under LocalWins a crash between a
  `MoveLocal`'s rename and its transaction ends in `DestroyRemote`.

Folders:

- A name given again before a cycle saw it free (`Reuse` TRUE): `CreateLocalMailbox`
  stamps the maildir that is there with another mailbox's sentinel, and the
  mailbox it stood for counts as removed and is destroyed under delete-remote; a
  mailbox destroyed and created anew under its name loses its new maildir under
  delete-local. The same when a maildir is moved onto a path the cycle has taken
  for an ancestor of a new one, or when renames of both sides cross a crash and
  a lost sentinel.
- A maildir without its sentinel (put back from a backup) whose mailbox is renamed
  on the server before the next cycle counts as removed: the scan looks at the new
  folder, where nothing is before `RenameLocalMailbox`, and `LocalFolderDeleted`
  needs no more. The cycle then moves the maildir and destroys the mailbox under
  delete-remote; under both, the next one removes the maildir too and its mail is
  lost. `engine.rs:334-346` calls this event "the user deleted the folder". TLC
  finds `OnlyRemovedFolders` and `NothingLost` violated with a flat account, `unmark`
  for the user and `rename` for the server; no account of the run has both.
- Under policy none the mail of a mailbox destroyed during a cycle is deleted on
  disk; a crash between the destroy of a mailbox and the drop of its row
  resurrects it empty; a child resurrected under its dead parent's id is refused
  in every cycle.
- Under LocalWins with delete-remote a mailbox with mail nobody has fetched is
  destroyed, and ServerWins resurrects it, the reverse of `config.rs:234-241`. Under
  LocalWins with delete-local a crash between the creation of a resurrected
  mailbox and its sentinel makes the next cycle delete its folder.
- `resurrect_remote_orphans_for_server_wins` gives a mailbox its maildir back but
  not its mail: the rows of its id are indexed before the executor drops them.
- A conflict that LocalWins decides and the server rejects moves the Mailbox
  cursor past the server's rename, and the cache that is reused afterwards is not
  the server's view (`engine.rs:809-812`). A nested selection without its parent
  loses its path, and so its binding, when the cache is reused.
- A rename of a maildir that fails (another filesystem) is logged and the cycle goes on
  as if the maildir were in its new place. If the user has made a maildir below the old one,
  `create_remote_mailboxes` takes the old folder for an unbound ancestor, makes a mailbox
  for it and overwrites its sentinel. The next cycle finds no maildir of the renamed
  mailbox and, under delete-remote, destroys the mailbox and its mail on the server; the
  files stay on disk. TLC shows it with `mkdir` added to the account `Mounted`.
- A rename whose target directory exists is retried in every cycle.
  `prune` clears the Mailbox cursor alone, and one that is killed before that leaves
  the cursor at a cache that lacks a mailbox: `Janitor` lets no prune die, and
  `ReuseSound` excepts one at work.
- Two maildirs with the same sentinel are bound in turns, as the directory walk
  has it. After a DB loss and a rebind of a renamed folder the server's path gets
  a second maildir.
- The consensus of `rebindfolders` may bind a maildir to a mailbox that has one,
  which its own check refuses for `--bind` (`rebindfolders.rs:331-341`).
- Two emails with one Message-ID in one mailbox can both have files between
  cycles; `remotededupe.rs:412-420` asserts they cannot.

Daemon:

- The two names of a rename from `new/` to `cur/` in two debounced batches: the
  first is a deletion and destroys the email (`SplitsEchoes`, `Overlaps`), against
  `DEVELOPMENT.md:476`.
- The triggers of a cycle that fails for a transient error are gone, and the new
  session does not scan everything: what they announced waits for the next
  change (`excused`). A 401 inside a cycle is only logged.

## 4. The proofs

`HookProofs` proves `TypeOK`, `SingleRun`, `NoLostTrigger` and
`BoundedFollowUps` for any set of callers and any number of retries, from
`RequestedAssumption` alone. None is inductive. The invariant `IInv` adds `Slot`
(`running` holds exactly while some `run_loop` is alive or about to be spawned,
and a caller holds the slot in one way) and `Spent` (the runs a request can
still cost add up to two). Without `Slot`, a caller that finds `running` false
could meet a live task; without `Spent` the bound is not kept by `BeginRun`.

`DownloadsProofs` proves every safety property of the download phase for any set
of emails, any concurrency and number of attempts and any number of
failures, and that the phase implements `Transfer`. None is inductive but the
types. The invariant `DInv` adds `Control` (what each task may hold in each state of
the two: a writer that waits to join has dropped the channel, a phase that is over
has nothing in flight), `Apart` (an email is in one place of the pipeline only: not
started, requested, finished, in the producer's hand, in the channel, at the
writer, or put aside), `Undelivered` (what is in the pipeline has no file and no
row yet), `Kept` (until something fails for good, what was asked for has its row
or is on its way) and `Open` (a temporary file belongs to something in flight).
`Apart` is what the rest leans on: without it an email requested twice could be
delivered twice, and a file unlinked for one item would leave another without
it. `PhaseImplementsTransfer` follows the steps: `CommitRow` is `TStore`, the
request is `TBegin`, `JoinProducer` is `TFinish`, `TFail` or a stutter, and
everything else is a stutter; that it is `TFinish` only when all is stored is
`Kept`.

`ReconcileProofs` proves `PlanWellFormed`: reconcile maps any typed observation
and rows to a typed plan, in which every action names files, emails and synced
folders. Its only step that is not bookkeeping is that the rules that pick one of
several rows always can: `LeastExists` derives the least element of
a bounded set from the library's theorem that inclusion of finite sets is well
founded.

`PullProofs` proves the safety properties of `Pull` for any emails, any page and
chunk sizes and any number of changes, failures and restarts. `PullTypes` and
`PullAppliesDestructions` hold on any server. `PullSkipsNothing` assumes
`QuietQuery` (the mailbox keeps still while it is listed) and `QueryPage <=
ServerPage` (whole pages): `pull_clamped` shows that it fails without the second.
`NothingSkipped` is not inductive: a cycle moves the cursor in its last
step, by what it fetched in its first. The invariant `PInv` follows what was
fetched: `Remembered` (the DB knows what changed up to its cursor), `Fetched`
(what changed up to the horizon the cycle reached is known, named by
`Email/changes`, or got), `Listed` (what the mailbox holds is named, or on a page
still to be asked for), `Stored` (it has its row or the download phase has it),
`Fresh` (a row is not older than the state saved with it), `Swept` and `Gone` (a
destruction up to the horizon is in hand and final). That the pages asked for
cover the mailbox is `PositionsCover`, an argument about quotients; that each email has a last
change, `LastInExists`, rests on `LastOfAll`.

`SyncProofs` proves `TypeOK` (`SyncTypeCorrect`) for any folders, messages,
flags, bounds and conflict policy, with all environments on, from the named
assumptions on the constants. `TypeOK` is inductive as it stands, because it says
more than the shape of each variable: a file or row that is there is in a synced
folder, plan and observation are well formed, and `cursor`, `newState` and
`own` do not pass `ver`. There is one lemma per action; `DiskSteps` serves both
an action and its crash after the file operation.

`SyncProofs` also proves `CursorSkipsOnlyOwn` for any folders, messages, flags,
bounds and conflict policy, with all environments on. It is a statement about
single steps that needs an invariant, `Clock`: the versions the cycle made and
those others made are disjoint and lie at or below the server's version. Each step
is first classified by what it does to the clock (`Still`, `OwnTick`,
`ForeignTick`) and to the cursor (`CursorStep`), each kind is shown to keep
`Clock`, and `WalkChainFollowsEdges` says that a walk consumes one unbroken run
of the cycle's own versions; disjointness does the rest.

`SyncTableProofs` proves that `message_map` and `local_state` agree. `NamesStay` has
no hypothesis: a maildir id or an email id never stands beside two Message-IDs, in
any table, observation or plan, and no two rows share a file, although a plan is
carried out long after what it was made from has changed. `MessageTablesAgree`
follows one message: while it is at most one file and one live email (`Single`), its
row and its file's `local_state` name the same folder, whatever happens to the
other messages. `TablesAgreeCorrect` is the same for all of them. `TablesAgree` is far from
inductive, since a plan writes both tables from what the scan and the fetch saw before.
The invariant `TableInv` is the conjunction of

- `FilesNamed`, `EmailsNamed`, `EmailsUsed`, `UniqueFiles`: whose is each id;
- `Phased`: behind the phase the executor is in nothing is left to do, outside its
  phases there is no plan, outside the scan no observation;
- `Scanned`: what the walk found of the message, by whether its folders are still to
  be walked: found moved, found new, found gone, and each at most once;
- `Planned`: what the plan has for it. Adopts, moves, deletions, uploads and pairs are
  apart from each other (`Apart`), what is still to arrive has neither row nor state
  (`Arriving`), what is planned for a row starts from the folder the row is in
  (`RowsFit`, `PairsFit`), and pair adopts land only what the server moved
  (`FailedLate`);
- `Agree` itself.

One lemma per action of `SyncCycle` shows the part that it can disturb; `PlannedMade`, the
step that makes the plan, is the largest. The two hypotheses on the constants: no cycle is
pull-only, where `TablesAgree` fails (above), and the user does not act during the walk,
as in `sync_steady`. TLC found no counterexample with the user acting in the walk, so the
second one is needed by the argument and not known to be needed by the code. `Single`
holds in every state of `sync_steady`, so the theorem is about states that occur.

`SyncTableProofs` also proves that mail is not lost, over `TableInv`. `MessageKept` follows one
message: while it is one file and one live email (`Single`) and nobody has removed it,
its email is not destroyed and no step takes its file. `NothingLostCorrect` and
`DestroysOnlyDeletedCorrect` say for all messages what the runs check. The engine
destroys an email because its file is not there, and deletes a file because its email was
destroyed, so each half is safe only by the other, and both go into `MailInv`:

- `Unharmed`: the email is not destroyed, so no local deletion is of its file (`Doomed`);
- `Present`: so every file that a table, an observation or a plan names for the message
  is on disk;
- `Combed`: so a file that is not where its row has it is found by the same walk in the
  folder it is in, unless it is in `new/`, which the scan leaves alone;
- `Placed`, `Taken`: but a file in `new/` is where its `local_state` says, since mail
  programs move what they touch to `cur/` and what a plan binds is where it was found;
- `Spared`: so the pre-pass has a move for it, and the plan no destruction. This closes the
  circle.

The hypotheses, beyond those of `TablesAgree`, leave out what is known to break the
statement, one by one: files that get a new name (`sync_lost`); the crash between the
rename of a `MoveLocal` and its transaction (`TornMove`), which leaves a file of `new/`
where no table has it, the one exception to `Placed`; and mail programs that act during the
walk, for which `DestroysOnlyDeleted` fails. Every other crash, the loss of the
DB, refusals, moves out of the synced set and dropped server histories are within the theorems.
TLC found no state that breaks `MailInv` with LocalWins, two steps of the user, one of
another client and one crash, a search it completed, nor in larger ones it did not.

`WatchProofs` proves the safety properties of the daemon for any files, folders and
capacities, any number of events and any servers. `WatchTypeCorrect` has no hypothesis; its
content is that no task puts a trigger into a full channel and the runner never takes
the head of an empty batch, which needs `Staged`: what the runner holds in each of
its states. `OnlyHardErrorsDeafenCorrect` has none either: the event source never
takes a state for old news that the DB has not reached, unless a cycle failed for good.
A state the event source has seen is followed through permit, channel and batch to the
cycle that fetches (`FetchOrdered`), step by step; the invariant `Heard`, that no state is
heard of before the server is in it, is what makes the exchange reach it.

`DestroysOnlyGoneCorrect` and `NothingForgottenCorrect` assume `~SplitsEchoes` and
`~Overlaps`, and TLC shows that each fails without either. Neither is inductive. A cycle
destroys an email because a path-scoped scan was given names and the file has none of
them, so what matters is which names of a rename have arrived. `FilesInv` says it of each
file: the paths on their way are those of its last rename, and name it if there is a file
(`Bursts`); when part of the burst has left the debouncer the rest is `late`, and the
current name is with the one or the other (`Together`); `late` paths keep the window open,
so a scan has all or nothing of a burst (`Complete`); own writes are never split
(`Uncached`), so a batch dropped as an echo takes the whole burst with it; and until the
cycle that scanned is over neither the server nor the user touches the file again
(`InTurn`, `Exact`). `VerdictIs` then says that a scan finds a file changed exactly when
it is, if it looks at all. `NothingForgotten` is inductive over that: most steps are shown
to keep everything on its way (`MovesKept`) or to set a full trigger going (`FullKept`),
and four carry an argument: a batch is dropped only if it is of live files in `new/` or an
echo (`FlushKept`), a merged trigger covers its parts (`WindowKept`), a scan takes over
what its trigger carried (`ScanKept`), and what still differs after the exchange was not
acted on, hence still on its way (`ExchangeKept`). The proof corrected the model:
`NothingForgotten` used to hold in the run only because two folders are too few. With
three and an act more, a folder renamed while a cycle was between scan and exchange and
then moved out of the tree was lost without being excused; `Misread`, `Signals` and the
wider `excused` of `MoveFolderOut` name what the code really promises there.

`FoldersProofs` is about `JSpec`, the folder half of a cycle with the user, other clients,
crashes and the commands of the janitor beside it, for any mailboxes, folders, mail, policy,
layout, number of acts and crashes. Its assumptions are those on the constants: folders of one
or two names (`PathsAssumption`), accounts that are well formed (`SetupsAssumption`), and
those of `Resolution` and `Reconcile`.

- `FoldersTypeCorrect` proves `FTypeOK` from the invariant `Typed`: the stores (`Stores`)
  and what a cycle or a command holds (`Control`: what it resolved, its plan, a call the
  server has answered, what is left to do). `FTypeOK` says that only mailboxes the cycle
  looked at are up for destruction, which rests on `Phased`: in each phase, what the scan
  has found is about live mailboxes or about orphans that may be deleted. Without it a
  plan could move mail into a mailbox that has no folder in this cycle.
- `ReuseSoundCorrect` proves `ReuseSound`, what the comment "The reuse path is sound" in
  `engine.rs` claims. It is far from inductive: the mapping is written at the start of the
  executor, after each accepted rename and at the end, and the cursor that vouches for it
  last. The invariant `Reusable` follows a cycle from the listing to the cursor.
  `LookedMirrors`: what the cycle looked at is how the server is, unless the structure
  changed since (`mlater`). `LookedAtCache`: while it looks, the mapping is what it looked
  at, and is the listing if the cursor was fresh. `Accounted`: every mailbox of the
  listing has a row that is as the cycle found it, or is still to be written (`cyc.pend`),
  or is still to be renamed on the server (`cyc.push`). `RenamesOver`: behind the phase of
  the renames the third is empty. `AnsweredStructural`: between the server's answer to a
  call of the cycle's own and the row that follows it, neither the cursor nor the cycle
  takes the structure for unchanged. So when the last rows are written and none had to be
  left out, every row is as the cycle found the mailbox. There are two hypotheses. Every
  mailbox is selected (`Selection = {}`): a nested selection without its parent breaks the
  statement (section 3). `RefusalsHarmless`: the server refuses a rename only after the
  structure changed during the cycle, or for a mailbox whose row is as the cycle found it;
  a rejected `ConflictLocalWins` is a case it leaves out, and breaks the statement
  (section 3); a parent replaced by another mailbox of its name is the other, which no
  account of the run has (names are not reused). TLC finds that every behaviour of the
  `folders` run satisfies it, so the theorem is about those behaviours and not about an
  empty set.
- `DeletesAsConfiguredCorrect` is the folder policy: no step of a cycle takes a mailbox
  away without `delete-remote`, nor a maildir without `delete-local`, except that a rename
  moves it. What may be deleted is decided once, in `Fetch`, and `AsConfigured` says that
  no later step adds to it.

TLC confirmed the parts of `Reusable` on the accounts of the `folders` run before they
were proved.

Only model-checked: convergence, liveness, the loss of messages that are more than one
file or email, the other action properties of `SyncCycle`, `EventuallyPulled` of `Pull`,
`EventuallySeen` and `StreamRecovers` of `Watch`, and `NothingLost`, `OnlyRemovedFolders`
and `OnlyGoneMailboxes` of `Folders`. Liveness under fairness is out of the prover's
reach, and so is what a recursive definition computes. `PullConverges` and `PushConverges`
need an inductive strengthening over two whole cycles. `NoRedownload` fails where a crash
parts a file in `new/` from its row, and where the server moves an email out of the synced
mailboxes while its file is in `new/` without one: what is left of it once these are
excluded is for `sync_steady`. The three of `Folders` hold for the accounts of the run
and not for all: section 3 lists accounts that break them, and the hypotheses that would
exclude these have not been found.

## 5. The plan

1. `Reconcile`, `SyncCycle` and their runs; `Hook`; first theorems. *(done)*
2. `Watch`; `Downloads` with `Transfer` and its proofs; `Pull`. *(done)*
3. `Resolution`, `Folders`, `Janitor`. *(done)*
4. `TablesAgree` as a theorem, over `SyncTypeCorrect`: what a plan says of a row
   stays true until the executor gets there. *(done)*
5. `NothingLost` as a theorem, over `TablesAgree`. *(done)*
6. `NothingSkipped` of `Pull` as a theorem, from `QuietQuery` and
   `QueryPage <= ServerPage`. *(done)*
7. The safety properties of `Watch` as theorems. *(done)*
8. `walk_chain` over arbitrary edges (servers that reuse states, split sets).
9. `FTypeOK`, `ReuseSound` and the folder policy of `Folders` as theorems. *(done)*
10. `NothingLost` of `Folders`, once its exceptions have a common cause; `Folders` with
    `LocalWins`, three acts, and names that are reused, once the code decides those cases.

## 6. Not modelled

- Configuration, CLI, authentication, the wizard, TUI, profiling and header
  parsing are input and output that no property here depends on. The options that
  decide behaviour are constants.
- Strings: `namespace.rs` (role folders, encodings, rename rules), message
  headers, flag suffixes and blob bytes. Names and Message-IDs are values.
- The locks' implementation. `flock` is tried and never waited for, so two
  processes cannot wait for each other; `Janitor` has both locks as one guard.
- Sizes of requests: how a large `Email/set` or `Email/get` of ids is split by
  `limits.rs`, beyond the chunks of `Pull`; concurrency among uploads.
- Schema migrations, and the SQL behind the tables.
- Signals, the length of pauses, and the hook's command.
- Dry runs, reports, prompts and the local dedupe command of the janitor, whose
  choice of files `SyncCycle` has.

`PROJECT.json` has the status of every component.
