# opengoose in TLA+

opengoose is a board of work items ("Wanted Board") shared by rigs: operators, workers
driven by a language model, and an evolver that learns skills from their ratings. The
board is a SQLite database behind `Board`; the HTTP API, the command line, MCP tools,
workers and the evolver call it concurrently. Workers check their results in a sandbox, a
virtual machine of the project's own that is forked from a snapshot.

This directory models the parts in which the order of things matters. TLC checks them on
small instances; for the board, its merge, the workers, the evolver, the console of the
sandbox and the dashboard the main properties are also proved with TLAPS, for every value
of the constants.

    tlc -workers 2 -config MCBoard.cfg MCBoard       # one run; see "Runs"
    tlapm BoardProofs.tla                            # one proof module

`PROJECT.json` holds the same as data: components, runs, the mutant of each property, the
source lines of each definition, findings, hazards, theorems.

## 1. Inventory

Paths are under `src/crates/`.

| Component | State | Operations | Where it is hard | What makes it correct | Here |
|---|---|---|---|---|---|
| **Board: life cycle** `opengoose-board/src/work_items` | rows of `work_items` | post, claim, submit, unclaim, mark_stuck, retry, abandon, ready, claimed_by, children | each call is several awaits; a call can be dropped between two of them; submits of siblings overlap | legal transitions only; the holder fits the status; a finished family of sub-tasks finishes its parent; no wake-up is lost | `Board` |
| **Board: dependencies** `relations.rs`, `board.rs` | table `relations` | add_dependency, blocked_item_ids | check and insertion are two awaits | no cycle; `ready()` offers nothing that is blocked | `Board` (edges and result of the search; not its traversal) |
| **Board: CowStore** `store/`, `branch.rs`, `merge.rs` | copy of the rows in memory, commits, branches | branch, update, remove, merge, persist, restore | two stores written one after the other; a merge against concurrent calls; failed saves, restarts | no one-sided change of a resolved field is lost in a merge; the two commit logs agree; the copy is the rows | `CowBoard`, `MergeRules`, `MergeOrder` |
| **Board: compaction** `work_items/helpers.rs` | descriptions | compact | a language model answers inside a transaction | finished items only | `CowBoard.Compact` (one step per item) |
| **Board: stamps** `stamps.rs`, `stamp_ops.rs` | table `stamps` | add_stamp, low stamps, mark_stamp_evolved | several evolvers mark one stamp | each low stamp handled at most once | `Evolver` (rows and marks; not the decayed score) |
| **Worker** `opengoose-rig/src/rig` | task, cancellation, `Notified` | sweep, resume, listen, scan, claim, execute with retries | two workers and the rest of the world on one board; crash and restart | no item left held; nobody sleeps over work; attempts end | `PullLoop` |
| **Worktrees** `worktree.rs` | directory and branch per rig and item | create, attach, remove, sweep | removal is two git commands; sweep against use | the worktree in use stays | `PullLoop` |
| **Worker pool** `opengoose/src/worker_pool.rs` | map of handles | spawn, remove, cancel_all | spawn awaits between check and insertion; removal gives up after 10 s | a worker whose id nobody else has is not disturbed (that an id is not started twice is refuted) | `PullLoop` |
| **Evolver** `opengoose-evolver` | its agent, its work items | run, process_stamp, run_sweep | a stamp lost between mark and result; a database call refused on the way; its own item claimed by others; one evolver per process | each low stamp leads to a skill, a stuck item or an admitted loss, once | `Evolver` |
| **Learned skills** `opengoose-skills/src/evolution`, `loader.rs`, `lifecycle.rs`, `metadata.rs` | `SKILL.md` and `metadata.json` of a skill | write, update, refine, count scores and uses, promote, sweep | two files per skill; metadata read, changed and written back in steps, by several processes | text and version fit | `SkillFiles`, `Evolver` |
| **Installed skills** `opengoose-skills/src/manage` | copies, clones, `.skill-lock.json` | add, remove, update, list | commands share a clone and the lock file without exclusion | what an undisturbed command installs is whole and recorded | `SkillStore` |
| **Conversation log** `opengoose-rig/src/conversation_log`, `opengoose/src/logs.rs` | JSONL files | append_entry, list, clean by age and size | appends in two writes; removal by an old listing | entries stay apart and complete; a cleanup removes the oldest | `ConversationLog` |
| **Sandbox: pool, machine** `pool.rs`, `vm.rs`, `snapshot.rs`, `client.rs`, `opengoose/src/sandbox_gate.rs` | snapshot files, cached machine, the process's one virtual machine | acquire, release, reset, save, fork, validate | two first users; a crash between two files; reset that fails half-way; a machine that changes threads | one machine has one user; a snapshot is whole; sessions are separate | `Sandbox` |
| **Sandbox: console** `vring.rs`, `virtio.rs`, the exec loop of `vm.rs`, `guest/init` | rings in shared memory, the device's buffers | queue handlers, exec, snapshot, restore, reset | 16-bit wrap; notifications suppressed; late answers | bytes in order; nobody waits for ever; an answer belongs to its command | `Ring`, `Fifo`, `Console` |
| **Sandbox: file system** `virtio_fs.rs`, `fuse/` | inode and handle tables | every FUSE request | counts kept by the guest; a worktree that changes | inodes live as long as they are referred to; one path has one id | `FuseFs`, `FileIds` |
| **Sandbox: boot** `boot.rs`, `initramfs.rs`, `machine.rs`, `uart.rs` | download cache, memory layout, boot loop, watchdog | ensure_kernel, boot, run_until_marker | processes share the cache; a guest that never comes back | the kernel is whole; what is loaded does not overlap; a boot ends | `Boot` |
| **Web dashboard** `opengoose/src/web`, the page's script | bridge task, broadcast channel, event streams, the page's view | subscribe, forward, fetch, reconnect | registration against notification; lagging receivers; crossing answers | an announced change reaches the page | `Dashboard` |
| **Terminal chat** `opengoose/src/tui` | lines on screen, reply tasks, one channel | submit, stream, commands, quit | several answers in one channel and list | answers do not mix; the chat does not stay busy | `Chat` |
| Rigs, memories, beads | single tables | register, remember, prime | check then insert | - | not modelled: single statements |
| Operator, middleware, work modes, agent factory | sessions | chat, on_start, validate | none of their own | - | verdicts are inputs of `PullLoop` |
| Other web pages, CLI, headless, MCP tools | - | calls of the board | requests dropped half-way | - | they are `Callers`, `Droppable`, `Remote`, `Outside` |
| Hypervisor, device tree, archive format, registers | binary layouts | - | no protocol of several actors | - | not modelled |

How they interact. Callers share the board's database and, inside one process, its `Notify`
(work) and `stamp_notify` (ratings). A worker registers for `Notify`, scans `ready()`, claims
an item and works in its own worktree; a post, submit, unclaim, retry or abandon by anyone
wakes all workers of that process. Another process has the same database and its own `Notify`.
Each call that commits a row afterwards writes the copy in memory, under the write lock which a
merge holds from staging to swapping in. The evolver is woken by ratings and posts and claims work
items like any other rig; skills it writes are files shared by every process of the user, like the
logs, the installed skills, the kernel cache and the snapshot. A worker's validation acquires a
machine from the pool of its process, mounts its worktree (the file system) and runs a command (the
console). The dashboard's bridge is one more waiter on `Notify`.

## 2. Modules

| Module | Extends | What it is |
|---|---|---|
| `WorkItem` | | statuses, transition table, ownership checks |
| `WorkLifecycle` | `WorkItem` | **abstract specification**: one row at a time, by legal transitions, changing hands only through Open |
| `Board` | `WorkItem` | rows, relations and the calls in flight, one step per await; implements `WorkLifecycle` |
| `PullLoop` | `WorkItem`; `WorkLifecycle` as `Rows` | pool, workers, worktrees, crash, on the abstract board |
| `MergeRules` | `WorkItem` | the merge of one item and of a branch, as operators |
| `MergeOrder` | `MergeRules` | branches of one item merged in every order |
| `CowBoard` | `MergeRules` | rows, copy, commit log, branches, merge, restart |
| `Ring` | | one virtqueue: descriptors, slots and 16-bit indices, as operators of driver and device |
| `Fifo` | | **abstract specification**: buffers offered, taken and returned in order |
| `Console` | `Ring`; `Fifo` for each queue | console device, exec loop, kernel driver and init of the guest |
| `FileIds` | | **abstract specification**: a node id is given to one path, and never again to another |
| `FuseFs` | `FileIds` as `F` | the file system of a sandbox and its client |
| `Sandbox` | | snapshot files, pool, gate, in several processes |
| `Boot` | | kernel cache, memory layout, boot loop and watchdog |
| `SkillFiles` | | the two files of a learned skill, and how they are written |
| `Evolver` | `SkillFiles`, `WorkItem` | the evolvers of several processes |
| `SkillStore` | | add, remove, update of installed skills |
| `ConversationLog` | | writers and cleaners of the logs |
| `Dashboard`, `Chat` | | the two front ends |
| `BoardProofs`, `CowProofs` (with `MergeRules` and `MergeOrder`), `PullLoopProofs`, `ConsoleProofs`, `EvolverProofs`, `HomeProofs` (of `Sandbox`), `UiProofs` (of `Dashboard` and `Chat`), `HostProofs` (of `FuseFs`, `Boot`, `ConversationLog` and `SkillStore`, through `MCHost`) | their subject, `TLAPS` | theorems |
| `MC...` | their subject | instances |

`MCUi` (`Dashboard` and `Chat`) and `MCHost` put components into one run that share no variable. `MCUi`
extends the first and instantiates the second under a name; `MCHost` extends `FuseFs` and instantiates
`Boot`, `ConversationLog` and `SkillStore`, and has two specifications: `GuestSpec` for `FuseFs` and `Boot`
(`MCGuest.cfg`), `HomeSpec` for `ConversationLog` and `SkillStore` (`MCHome.cfg`). Of the two components of a
specification either moves only while the other is in its initial state: each is explored completely, and only
the meaningless interleavings of the two are left out. `MCCowBoard` extends `CowBoard` and instantiates `MergeOrder`
and `Board`; `part` says which of the three a behaviour is of, for the whole of it. Where a liveness property is at stake, fairness of a component is stated as its own formula
`Fairness` and holds for the part that runs.

Each module keeps, before a definition, its mutants: the same definition with a mistake one could
make in that code. For every property of a passing run one of them is named in `PROJECT.json`;
with the mutant in place TLC refutes the property in that same run.

### Board

`status`, `owner`, `parent` are columns of the rows; `"Absent"` is an id with no row. `blocks` is
the relations table. `call[c]` is what caller `c` is in the middle of: the await it stands at
and what it has read so far. `waiters` are the pending `Notified` futures. `due` is a history
variable for the property about automatic completion and guards nothing.

A transaction or a single statement is one step. So `transition()` (read, check, update, commit) is
one; `post()` is three (`Post`, `InsertItem`, `Notify`); a `submit()` that finishes the last sub-task
is five (`Submit`, `ReadSiblings`, `ReadParent`, `CompleteParent`, `Notify`); `ready()` is three
queries (`LoadRelations`, `LoadBlockers`, `LoadOpen`); `add_dependency()` is two. A call refused by
its guard returns an error and is no step. `Abort` drops a caller's future, or fails its query, at
any await. Title, tags and priority play no part here; ordering of `ready()` neither.

### PullLoop

`worker[t]` is the task of `Worker::run`: `pc` is its await, `todo` the items it still has to look at,
`item` the one at hand, `back` where it returns to. `tree[r][i]` is on disk and outlives `Crash`.
`announcing` holds whoever has committed and not yet called `notify_waiters()`.
Verdicts of the model, of middleware and of git are choices, each failure taking the path the
code gives it. So are errors of SQLite: `Refused` is a call of the board that returns one, at every
await where a worker stands at such a call, and the worker goes on the way the code does; `left` remembers
an item whose claim was left so, because the call that was to end it or to find it again was refused.
`Shared` are the rig ids that are started twice, by two spawns that overlap or one that follows a removal which
gave up; `WorkUndisturbed` and `ClaimsAccounted` speak of workers whose id is their own, while those who share
one do to each other, and to the rest of the board, whatever the code lets them. `retry()` is not among the calls of `Outside`, because no production code
calls it; if it were used on an item a worker holds, `WorkUndisturbed` would not survive it.

### CowBoard, MergeRules, MergeOrder

A row is a record (`status`, `holder`, `priority`, `tags`, `text`, `at`); `text` is title and
description, `at` is `updated_at` counted in writes. A call commits its row and stands in `calls[c]`
until `Sync` brings the copy up to date. `Stage`, `Persist`/`PersistFails`, `SwapIn` are the parts of
`merge()`; `merging` is the write lock and also keeps the branch for the property. `Restart`
rebuilds the store from the tables. `NewTags` are the tags a new item may have. `MergeOrder` has one item and any number of
branches, each with one change of it, and merges them in every order; `MergeConverges` is what
can be said of the result whatever the order: status and holder are those of the only branch that changed them, or of the
last writer of the item if it changed them; the priority is the highest written; the tags are all that were written unless three branches
touch them and one takes some away. What the documentation promises beyond that (`OneSidedKept`, `StatusIsMax`,
`OrderIrrelevant`) is stated beside it and refuted. Which calls may follow which is `Board`'s subject; here a call
is any legal transition. The hash a commit carries is left out, as nothing reads it. Branches,
merge and compaction are public API with tests, but no production caller yet.

### Evolver, SkillFiles

`stamped` and `evolved` are the rows of `stamps` and their mark, `items` the evolvers' work items,
`skill` the two files of every learned skill (`SkillFiles.Files`: the text, and the version, score and
uses that the metadata holds). `ev[e]` is one evolver: `pc` is the database call, file or answer it waits for,
`batch` the stamps it has read. `Mark`, `Load`, `Post`, `Claim`, `Ask` and `Decide` (the model), `WriteText`, `WriteMeta`,
`Submit` and `Stick` are the steps of `process_stamp()`. Metadata is counted up in two steps, as the code does it: `ReadMeta` and
`WriteBack`, for the scores (update_effectiveness_versioned) and for the uses (update_inclusion_tracking), so that what another
process wrote in between is overwritten. `DbFails` is a database call that is refused, at every await of the kind: while the
item is posted, after which the marked stamp has none; while it is submitted or marked stuck, after which it stays claimed. "work
item not found" (pipeline.rs:134) takes the same path: no production code deletes an item, and `opengoose board stamp` looks it
up before it stamps. `AgentCreated` is the evolver's own agent, made on
first need. A sweep rewrites dormant skills between passes. `Survivor` is a process that is always started
again; others may be gone for good. `promote` is the command that copies a skill to the global place,
file by file (`PromoteStart`, `PromoteCopy`), and then reads the metadata of the copy and writes it back with
`promoted_to` (`PromoteRead`, `PromoteStamp`). The month after which a skill is dormant, crashes, failed writes and promotions share the bound
`MaxEvents`. `trouble` and `lost` are history: they name the mishaps the code admits, and the properties
say that nothing else is lost or unpaired: metadata written back over newer text makes `trouble`, a refused call makes `lost`. Some of what the code does shows only there: stamps are given by
`opengoose board stamp`, another process, so only the timer finds them; metadata is always written with
version 1 for a new skill in a rig; the catalogue with its cap (`build_catalog_capped`), which counts uses too, has no production
caller, so that of all workers and evolvers only evolvers write metadata back.

### Ring, Fifo, Console

`Ring` is a virtqueue as both sides see it: `availIdx`, `usedIdx` (numbers modulo `Width`, 2^16 in the code),
the slots, and each side's last seen index. Its operators are the steps of driver and device; `Fifo` is what
they promise. `Console` has four of them (receive, transmit and their control queues), the device's
buffers (`dev`), the exec loop (`host`), and the kernel's driver with init as its only user (`guest`). The guest
and the device run on one thread: the guest leaves `vcpu.run()` between any two of its memory accesses,
and the handler of the exit then runs to its end, hence handlers are operators on one record (`ProcessTx`, `DeliverRx`,
...) and one step. `snap` is the snapshot, which holds rings and the driver's memory and not the pending interrupt.
`host.late` marks a machine on which a command has timed out. What init does between mounting and running
a command is one step.

### FuseFs, FileIds

`inodes`, `pathIno`, `handles` are the tables of `VirtioFs`; `tree` is the worktree on the host, which
other programs change (`Write`, `Mkdir`, `Delete`). A request is answered within the exit its
notification causes, its answer waits in `replies` until the client takes the interrupt. The client
counts references as the FUSE protocol says (`nlookup`), and sends `FORGET` later and in any order.
`SetRoot` is the change of root when a machine gets a new session. Attributes, the bytes of files and writes
of the guest (all refused: the guest has an overlay of its own) are left out. `FileIds` says that an id once
given to a path is never given to another.

### Sandbox

`name` and `content` are the directory of the snapshot, with inodes, because a mapping outlives the name of its file;
`pool` is `SandboxPool` per process (the `OnceLock`, the cached machine, its mutex) and `hv` the process's one machine.
A thread's steps are those of `acquire()` and of the gate around it: `Look`, `DropStale`, `Boot`, `Marker`, `SaveMeta`,
`OpenMem`, `SaveMem`, `Share`, `Lock`, `Take`, `Create`, `Mount`, `Command`, `Release`. The calls of a virtual processor are those of
the thread that made it (hvf.rs:259): `maker` remembers it, and `Dropped` is what the drop of a machine
does, nothing on another thread, where its failures are ignored (hvf.rs:449, :458): the process then has a machine in nobody's hands (`LOST`),
and can make no other. Only tests and benchmarks call release(); they are the `Releasers`. `trouble` says
that a snapshot was overwritten while in use, or left torn.

### Boot

`dir` and `content` are the cache of kernel and busybox: curl and tar write temporary names that all processes share, and
`rename` moves them. `my[p].plan` is the layout of kernel, initramfs and device tree computed from
their sizes; `late`, `dog`, `kick` are the loop's clock, the watchdog and the request to leave the
guest. Registers, exits other than the marker's, the cpio format and the device tree's contents are left out.

### ConversationLog, SkillStore

`log[f]` is a file with its generation (a file removed and created again is another), its pieces (text or newline) and its time.
A writer opens, writes the text, writes the newline; a cleaner lists, removes by age, and removes the
oldest until the rest fits. `SkillStore` has a process per command, with a program counter: clone,
discover, copy file by file, then read, truncate and write the lock file.

### Dashboard, Chat

`rev` counts changes; a call commits (`Change`) and later notifies (`Announce`); `bridge`, `rx`, `wire`, `page`, `fetch`, `view` are the stages to the
screen. `expected` is history: what the page has been promised. In `Chat`, `lines` is the list on screen, `reply[n]` the
task that streams the answer to input `n`, `channel` the one channel all of them send through.

## 3. Properties and runs

| Run | Instance | Shows |
|---|---|---|
| `board` | 3 items, 2 rigs, 2 callers, one droppable; 303,603 states | a parent whose last child finished is in some call's hands (`CascadeOwed`) and gets out of them (`CascadeCompletes`); every step is one of `WorkLifecycle` (`ImplementsLifecycle`) |
| `board_parts` | copy: 1 item, 2 branches, 1 caller, 4 writes, 2 merges; order: 3 branches of 1 item; calls: 2 items, 3 callers, two of them listening, one linking; 4,164,344 states | one chain of commits in memory and on disk through failures and restarts (`LogsAgree`); until the first merge the copy is the rows (`MirrorMatchesRows`); a merge loses no one-sided change of status, holder, priority or tags (`MergeKeepsResolvedFields`); what three merges leave in every order (`MergeConverges`); registering before scanning loses no wake-up (`WakeupOwed`); what `ready()` returned is unblocked by all edges it had read (`ReadyResultUnblocked`) |
| `board_link_race` | 2 linkers | refuted: `NoDependencyCycle`, see "Findings" |
| `merge_one_sided` | 2 branches | refuted: `OneSidedKept`, see "Findings" |
| `pull_loop` | 2 workers, 1 item, 1 retry, removals, crash, refused calls, fair; 277,007 states | a worker sleeps only over items hidden by a failed claim (`SleepJustified`); an item leaves the worker's hands (`ItemLeft`); a sleeper notices an open item (`WakesUp`) |
| `pull_loop_shared` | 3 tasks of 2 ids, one of which is started twice, a caller of another process; 1,999,231 states | the item a worker with an id of its own is on and its worktree stay its own (`WorkUndisturbed`); its claims are resumed, and no error path but a refused call forgets one (`ClaimsAccounted`) |
| `console` | rings of 2, indices modulo 4, 2 commands, 1 reset; 79,391 states | each queue is a FIFO (`QueuesAreFifos`); bytes neither lost nor reordered (`StreamIntact`); an answer is its own command's until one has timed out (`AnswerIsOwn`); whoever waits for the other side will be told (`SleeperIsWoken`); exec() ends (`ExecEnds`) |
| `guest` | file system: 2 names, 4 ids, 2 handles, 1 change; boot: 2 boots of 2 processes, 1 mishap; 314,093 states | references balance (`RefsBalance`); what a client has open and lists is consistent (`GuestView`); ids are stable (`IdsAreStable`); the cached kernel is whole (`ImageWhole`); loaded parts do not overlap (`PlacedApart`); a boot ends (`BootEnds`) |
| `sandbox` | 2 processes, 3 threads, one of which gives machines back, 1 save, 1 mishap; 162,638 states | a machine runs on registers and memory of one boot unless a snapshot was overwritten in use or torn (`WholeUnlessTrouble`); no session sees another's (`SessionsAreSeparate`); the process's machine has one owner, and gets lost only from one thread to another (`MachineOwned`); a validation ends (`ValidationEnds`) |
| `evolver` | 2 evolvers, 2 stamps, 2 events, refused calls, fair; 1,135,970 states | a stamp is worked on once (`OncePerStamp`), and leads to a skill, a finished item or an admitted loss (`StampsAccounted`); text and metadata fit unless something named went wrong (`SkillPaired`); a stamp is taken up (`StampTaken`) |
| `ui` | dashboard with 1 slot, 3 inputs of chat; 173,007 states | a change announced is on the page or on its way (`RefreshOwed`) and arrives (`PageCatchesUp`); answers do not mix (`AnswersApart`); the chat becomes free again (`BusyEnds`) |
| `home` | 1 worker, 2 chats, 1 cleaner; 2 skill commands, 1 mishap; 1,213,608 states | a log reads as the entries completed in it and the one under way (`LogComplete`); a cleanup removes the oldest and no more than it must (`CapacityKept`); a command that runs alone installs whole skills (`InstalledWhole`) |

Larger instances of the worker are in `MCPullLoopItems.cfg` (2 items, 2,282,251 states) and
`MCPullLoopRestart.cfg` (3 tasks, a caller of another process), too long for the list above.

### Bounds, and why they are enough

* *Board.* Sub-tasks are one level deep (proved), so a parent and two children hold every overlap of
  siblings; two callers make the two submits overlap, the droppable one of them loses its rest. The
  lost wake-up needs a listener, a changer and a linker. What lies beyond, more items and
  callers, is covered by the theorems.
* *PullLoop.* Two workers compete for an item; two items are needed for a failed claim to
  hide the second (`MCPullLoopItems`). A third task is a restart after a crash while another still runs; an outsider
  of another process is one whose changes notify nobody here (`MCPullLoopRestart`). In `pull_loop_shared` the third task
  is the second worker of an id (`Shared`), beside a worker with an id of its own; there workers are removed only while a task is
  still to be started (`RemovedBeforeLast`), so that what a removal leaves behind meets a new worker. `MaxRetries` 0, 1 and 2 are "none" and
  "some": the code's constant is 2.
* *CowBoard.* Items are merged independently, so one item meets every combination of base,
  branch and copy; two merges are the least with a parent that is not the first; `MaxClock` = 4 is
  post, call, edit of each branch.
* *MergeOrder.* Every edit of three branches is enumerated, as is the order of the merges; the branches are numbered by the
  time of their change (`EditsInOrder`), which names them and excludes nothing, and one rig holds. Three is the least at which
  tags and last writers depend on the order; the theorem is about any number. Two kinds of item are the base, one on offer and one held with every tag.
* *The parts of `board_parts`* share no variable, and a behaviour is of one of them (`part`): each is explored as if alone.
* *Console.* `Size` = 2 and `Width` = 4 let the indices wrap in every history; two commands are a late
  answer and its victim; `Room` = 1 makes a line span buffers. The theorems hold for any size that divides `Width`.
* *FuseFs.* One directory with two files has listings of more than a page, paths that share a prefix and a
  deletion that takes a subtree along; four ids are one more than paths, so that a path can get its second id.
* *Boot.* Sizes are chosen around the page and the end of memory; two boots share the cache; one mishap is
  a failure at any one place.
* *Sandbox.* Two processes and two threads in one of them; one save and one mishap, since every further one
  starts from a disk that `Init` already allows (no snapshot, an old one, memory alone).
* *Evolver.* The second stamp counts against, updates or replaces the skill of the first; two events
  are a crash and what it leaves for a sweep or a promotion. Refused calls have no bound.
* *Dashboard, Chat.* A channel of one slot lags at the second change. Three inputs are two answers and a command.
* *ConversationLog, SkillStore.* Two appenders of one file and one file that is removed meanwhile; two commands of
  two repositories offering the same name.

`CHECK_DEADLOCK FALSE` in every configuration: these systems may rightly stop, with every
item closed, every worker ended or asleep, or the bound on writes and merges reached. Symmetry is
used only in runs without liveness properties.

### Fairness

* `Board.FairSpec`: weak fairness of each caller's steps *inside* a call. tokio polls a task until it
  returns, the database answers; nobody is obliged to start a call. (A droppable caller may abort at
  any await, and `due` writes its obligation off.)
* `PullLoop.FairSpec`: weak fairness of each task's own steps and of each notification; it includes that the language
  model, the middleware and git answer in the end, which the code relies on, having no time-out around them.
  No fairness of posts, spawns, removals or crashes.
* `Console.FairSpec`: the guest's thread runs, and the exec loop polls. Commands and resets are free. The answer itself may
  never come: then the time-out ends the command.
* `Sandbox.FairSpec`: strong fairness of each thread's step, because the mutex of the pool is taken and released by
  others in turn, and tokio's and std's mutexes do not starve a waiter for ever.
* `Evolver`: weak fairness of the steps of `Survivor`, strong of the creation of its agent, which may fail now and then but not
  every time.
* `Dashboard.Fairness`, `Chat.Fairness`, `Boot.Fairness`: tasks are polled, answers to requests come (or fail), time passes and the
  watchdog runs. Nothing is asked of the user, of the guest, or of callers of the board beyond ending their call.

## 4. Proofs

All in TLAPS, from the named assumptions on the constants alone (`RigsAssumption`, `BoardAssumption`,
`NoItemAssumption`, `OrderAssumption`, `CowBoardAssumption`, `PullLoopAssumption`, `RingAssumption`,
`ConsoleAssumption`, `EvolverAssumption`, `SkillFilesAssumption`, `NothingAssumption`,
`SandboxAssumption`, `DashboardAssumption`, `ChatAssumption`, `FuseFsAssumption`, `BootAssumption`, `ConversationLogAssumption`, `SkillStoreAssumption`), which TLC evaluates on the instances. Where a theorem needs more
it is a hypothesis of its own, named in the table.

| Theorem | States | Argument |
|---|---|---|
| `BoardProofs` `TypeCorrect` | `[]TypeOK` of `Board` | inductive by itself |
| `OwnerCorrect` | `[]OwnerMatchesStatus` | inductive by way of the next |
| `LifecycleRefinement` | `Board` implements `WorkLifecycle` | each action that writes a row is one action of it; Create needs that an absent row has no holder |
| `DepthCorrect` | `[]SubTaskDepth` | `DepthInv`: the parent a pending post has checked stays fit, because rows do not vanish and keep their parent |
| `CascadeCorrect` | `[]CascadeOwed` | `CascadeInv`: a parent that is due is held and all its children are Done, and a call that may complete an item completes one that has sub-tasks, hence no sub-task, so it makes no other parent due; of overlapping submits, the one that finishes the last child comes to `ReadSiblings` afterwards |
| `ReadyCorrect` | `[]ReadyResultUnblocked` | `ReadyInv`: what the second query did not find blocked had all its blockers Done, and Done is final |
| `AcyclicWithOneLinker` | `[]NoDependencyCycle` if at most one caller links | `LinkInv`: the edge on its way in still closes no cycle; without the condition the property is false (`board_link_race`) |
| `NoLostWakeup` | `[]WakeupOwed` in one process without aborts | `WakeInv`: the same between the queries; a change that opens or finishes an item has its notification to come |
| `MergeCommutes` | operators of `MergeRules` | two changed items with different times |
| `OneSideKept` | operators of `MergeRules` | field by field |
| `MergeOfMany` | `[]MergeConverges` of `MergeOrder` for any number of branches, and of the specification that is run | `OrderInv`, what each field of main is after *some* of the merges: `TimesInv` (main's time is the latest merged), `ScalarInv` (status and holder are the last writer's or some merged branch's that changed them), `PriorityInv`, `TagsInv`; one merge changes them field by field (`MergeFields`) |
| `ResolvedFieldsKept` | `MergeKeepsResolvedFields` of `CowBoard`: status, holder, priority and tags, the fields merge_work_item() resolves | `CowInv` = `ItemsOK` and `StagedOnCopy`: what is about to be swapped in is the merge of the copy as it is *now*, which the lock guarantees |
| `CommitLogsAgree` | `[]LogsAgree` | `LogInv`: the commits in memory are a chain with ids in order (`CommitsOK`), a merge has staged exactly one more, and the table has it once it is saved; the id given next is above all others, also after a restart |
| `MirrorKept` | `[]MirrorMatchesRows` for one caller | `MirrorInv`: a row is copied, or is about to be by the call that has committed it (`Underway`); two callers on one item may copy in the other order than they committed |
| `PullLoopProofs` `TypeCorrect` | `[]TypeOK` of `PullLoop` | with `Placed`: what a task's locals hold at each await |
| `WorktreeStays`, `ItemStays`, `WorkStays` | the parts of `[]WorkUndisturbed`, whichever other ids are started twice and whoever calls from other processes | `OneTask`: an id that is not spawned a second time names one task, so its rows and trees change by that task alone, and `MineInv`: what a task has at hand or on its list is its rig's (`Kept`); what others may do to a row never takes it from a rig |
| `NoClaimForgotten` | `[]ClaimsAccounted` | `MindInv`: an item a rig holds is at hand, on its list, found again by the next task's first query, or left by a refused call (`left`) |
| `SleepsForAReason` | `[]SleepJustified` | `SleepInv`: whoever waits was registered when it scanned; an item opened since has its notification to come (`OpensAnnounced`) |
| `QueuesCorrect` | every queue of `Console` implements `Fifo` | remainder arithmetic; the slots between the indices hold the offered descriptors; no descriptor is offered twice (`WellKept`), so by counting there is room (`RoomLeft`); the handlers compose the four steps of a ring; the snapshot satisfies the same |
| `StreamKept` | `[]StreamIntact` of `Console` | `StreamInv`: the two chunks of line c have the places 2c - 1 and 2c of one stream; what is in the device, in a ring's buffers, with the driver or with init is a segment (`Seg`, `Chain`), and `Flow` says that they join, from the answers read to the commands sent. Each handler moves chunks across one joint (`AnswersServe`, `InputsDeliver`, ...) or none; that the buffers a ring lists keep what they hold needs `WellKept`. The snapshot is a machine whose stream is empty, so it may go on from any number of commands (`FlowRests`) |
| `AnswersAreOwn` | `[]AnswerIsOwn` | `HostInv`: until a time-out at most one command is out, and by `SegLineEnd` the next whole line is the answer to number `base + 1` |
| `SleepersWoken` | `[]SleeperIsWoken` | `Tells`: a handler that gives back a receive buffer raises the interrupt; the snapshot is taken of a guest that is awake (`SleepInv`) |
| `EvolverProofs` `TypeCorrect` | `[]TypeOK` of `Evolver` | with `Placed` |
| `WorkedOnOnce` | `[]OncePerStamp` | `Traced`: an evolver at work on a stamp is the one that marked it, and marks are never taken back |
| `NothingLeftBehind` | `[]StampsAccounted` | `StampsLeft`, `ItemsLeft`: by the shape of a step (`Handled`), a marked stamp and a claimed item are in somebody's hands until they are finished, stuck, or lost to a crash or to a refused call |
| `SkillsPaired` | `[]SkillPaired` | `PairInv` = `TextInv` (which stamp a text being written names), `WriterInv` (who is between the two files is alone with them) and `CopyInv` (what is copied has not changed since). Any other step leaves the metadata fitting its text (`Softly`) or makes `trouble`, as does writing back what was read before a newer text came. The proof attempt found two ways to mix a pair that the model counted as harmless: a score counted in the copy between the copying of the two files, and a torn file as source of a promotion; both now make `trouble` |
| `HomeProofs` `SandboxTypes` | `[]TypeOK` of `Sandbox` | with the next two |
| `MachinesOwned`, `SessionsApart` | `[]MachineOwned`, `[]SessionsAreSeparate` | `OwnInv`: where a thread is says whether it owns the machine of its process and who has used it since its last reset; `MakerInv`: whoever holds a machine made it, or it came from a `Releaser` of the same process, so a machine is lost only on the way from one thread to another |
| `WholeMachines` | `[]WholeUnlessTrouble` | `FilesInv` (the two files never share an inode, and each save makes new ones) and, while there is no trouble, `QuietInv`: a snapshot that anybody has loaded is the one on disk, and nobody is saving |
| `UiProofs` `TypeCorrect`, `RefreshKept` | `[]TypeOK`, `[]RefreshOwed` of `Dashboard` | with `Sound`: a change is owed, woken, pending, on the wire, asked for or shown, in this order |
| `ChatTypes`, `AnswersShown` | `[]TypeOK`, `[]AnswersApart` of `Chat` | `TaskInv`: while the loop goes on one reply task at most is at work, and the channel holds its texts alone, numbered on from those taken, with Done last; `ScreenInv`: the texts taken are those on screen, and what the agent says below the question at work is its answer. `agent_busy` is what keeps a second task away |
| `HostProofs` `KernelWhole` | `[]ImageWhole` of `Boot` | `BootInv`: the inode of `Image` has no other name, whoever unzips has it open, and whoever unpacks an archive writes another; an inode in use is not given out again (`UnusedInode`, by counting: each process and each name holds one at most) |
| `NothingOverlaps` | `[]PlacedApart` of `Boot` | `LayoutApart`: page alignment of the division, for any sizes; a plan is taken only if its last piece fits |
| `ReferencesBalance` | `[]RefsBalance` of `FuseFs` | `FuseInv` = `FuseTypes` (the two tables are inverse to each other, ids below the next one) and `Balanced`: the sums over answers on the way and FORGETs to be sent move with the table; a page of a listing by recursion over its names (`LookupAll`) |
| `ViewConsistent` | `[]GuestView` of `FuseFs` | `OpenInv`: what is open, or about to be, has a handle of its own and an id that the guest holds, which by `Balanced` cannot go (`Pinned`); `ListInv`: one page at most is on its way to a directory stream, and while nothing changed what was got is the beginning of the entries |
| `IdsStable` | `FuseFs` implements `FileIds` | each step leaves the tables so that live ids keep their path and new ids are not below the next one (`Evolves`), or starts over |
| `LogsRead` | `[]LogComplete` of `ConversationLog` | `LogInv`: in the file that is there the pieces alternate, entry and newline, in the order of `finished`, and at most one writer is halfway, with its entry last (`WholeLog`, `BegunLog`); a writer of a file that was removed has an older generation. What the reader makes of such pieces is a recursive function: `Recursion` (a function given by its first value and its step exists) and `Induction` (over the least exception, `LeastOf`) give `ReadsUpTo`, and two pieces of a line at a time `ReadsWhole` and `ReadsBegun` |
| `CapacityIsKept` | `[]CapacityKept` of `ConversationLog` | `OldestGone`: a cleanup's count is the size of what is left of its listing, and the last it removed was needed. The sizes are counted as pairs of log and piece, so that one log can be taken out of a sum (`TotalSplit`) |
| `InstallsWhole` | `[]InstalledWhole` of `SkillStore` | `StoreInv` = `StoreTypes` (what a command has in its locals where it is) and, of a command that runs alone, `Copied` (the clone is the revision it found, what is copied is complete but for its list), `Reported` (what it reports is whole and in the lock file or in what it writes there) and `Once` (no name is done twice, so nothing reported is emptied again) |

Every safety property that a passing run checks, invariant, action property or refinement, is proved, some under the hypotheses
that the table names. What only TLC checks, and why:

* Liveness (`CascadeCompletes`, `WakesUp`, `ItemLeft`, `ExecEnds`, `BootEnds`, `ValidationEnds`, `StampTaken`, `PageCatchesUp`, `BusyEnds`): it
  needs ENABLED under fairness, which tlapm does not reason about.
* What a recursive definition computes for *every* input: functions on numbers are reasoned about (`Recursion`,
  `Induction` in `HostProofs`, `OneFlattening` for `FlattenSeq` in `ConsoleProofs`), over the least exception and not by
  the library's induction theorems, which the installed provers cannot instantiate.

None of the invariants needs a bound: `CowProofs` holds for any clock and number of merges, `ConsoleProofs` for any size of
ring, number of commands and resets.

## 5. Findings

Two are runs that TLC refutes. `board_link_race`: two add_dependency() at once can close a cycle (`board.rs:171`).
`merge_one_sided`: a description or title that only one branch changed is gone after two merges, because where both sides
changed the item these fields are taken from the base (`merge.rs:133`), though ARCHITECTURE.md:392 lets a one-sided change stand.
The others have a configuration or a property one can put into a run's configuration:

| Property | How | What the code does |
|---|---|---|
| `ParentFollowsChildren` | `MCBoardParent.cfg` with `MCBoard` | submit() completes the parent only if somebody has claimed it; otherwise it stays Open for ever (`transitions.rs:101`, against ARCHITECTURE.md:135) |
| `SleepOnlyWithoutWork` | in `MCPullLoopItems.cfg` | a worker whose candidate was marked stuck after the scan goes to sleep over another open item (`rig/worker.rs:98`) |
| `StuckKeepsTree` | in `MCPullLoopItems.cfg` | the worktree of a stuck item, kept "for debugging", is removed by the guard's drop (`rig/worker.rs:165`, against :164 and ARCHITECTURE.md:506) |
| `OneWorkerPerRig` | `MCPullLoopTwice.cfg` with `MCPullLoop` | two spawn() of an id start two workers, which resume the same items and use the same worktrees (`worker_pool.rs:56`, `:95`) |
| `StatusIsMax` | `MCMergeDocumented.cfg` with `MCCowBoard` | of two statuses the later is taken, so Done can go back to Claimed (`merge.rs:95`, against ARCHITECTURE.md:395) |
| `OrderIrrelevant` | in `MCMergeDocumented.cfg` | with three branches status, holder and tags depend on the order of the merges (`merge.rs:140`, against ARCHITECTURE.md:400) |
| `EvolvedIsProcessed` | `MCEvolverMarked.cfg` with `MCEvolver` | a stamp is marked before its item is posted; if the database refuses the post the stamp is never looked at again (`loop_driver.rs:78`, against ARCHITECTURE.md:572 to 585 and :667) |
| `VersionNeverBack` | `MCEvolverVersion.cfg` with `MCEvolver` | scores are counted in metadata read earlier, which overwrites the version another evolver has written since (`effectiveness.rs:40`, against `writer/mod.rs:116`) |
| `NoMachineLost` | `MCSandboxLost.cfg` with `MCSandbox` | a machine given back to the pool by one thread and dropped by another, when its reset fails, is not destroyed, and the process can make no other (`pool.rs:59`, `hvf.rs:449`, `:458`, against `hvf.rs:259`) |
| `MachineWhole` | `MCSandboxRace.cfg` with `MCSandbox` | two first users of a pool write one snapshot; a machine's registers and memory are of two boots (`vm.rs:128`, against `vm.rs:71`) |
| `ShowsBoard` | `MCDashboardStale.cfg` with `Dashboard` | answers that cross leave an older board on the page, until the next event (ARCHITECTURE.md:766) |
| `QuitLeaves` | `MCChatQuit.cfg` with `Chat` | `/quit` sets a flag that nobody reads (`commands.rs:70`, `keys.rs:12`) |
| `AlwaysEnds` | in `MCGuest.cfg` | the watchdog kicks once; if it was ahead of the loop's clock a guest that never leaves the vCPU keeps the boot for ever (`boot.rs:443`) |
| `EvolverReadsLog` | in `MCHome.cfg` | the worker writes its log under goose's session id, the evolver reads `task-{id}` (`evolver/lib.rs:80`) |
| `OnlyOldRemoved` | in `MCHome.cfg`, without symmetry | a log appended to after the listing is removed by its old age (`retention.rs:49`) |
| `UpdatesAll` | in `MCHome.cfg` | an update rewrites one scope's copies only (`update.rs:5`, against `skills/mod.rs:44`) |
| `EntriesKept` | in `MCHome.cfg`, without symmetry | a torn lock file counts as empty, and the next command writes it back with one entry (`lock.rs:38`) |

Met while modelling and kept in the model as the code has it:

* A merge saves *every* item of the copy over its row. A row committed by a call whose copy is still to be written
  goes back, even if the branch did not touch it; the call then writes the copy, and copy and rows
  disagree. ADR-1 (ARCHITECTURE.md:840) calls the merge atomic; it is, with respect to the copy only.
* Two calls on one item may write the copy in the other order than the rows.
* Since fields are merged one by one, status and holder of a merged item can come from different sides.
* With three branches neither the last writer nor the union of tags is guaranteed: the merged item carries
  one time for all fields, so if the last branch left the status alone the earlier ones' times are lost with its merge; and
  tags that a merge brought back to the base's count as unchanged. `MergeConverges` says what is left.
* An item removed on a branch is not deleted from the table and is back after a restart.
* A tie of times goes to the branch, so the merge commutes only for different times.
* Evolver: a work item an evolver had claimed when it crashed is never resumed, nor one whose submit() or mark_stuck() the
  database refused (`pipeline.rs:353`). `promoted_to` and `promoted_at` go with the next
  typed rewrite of metadata. The sweep drops duplicates by name before it looks for dormant ones.
* Sandbox: `SandboxSession` never calls `release()`, though pool.rs:14 and client.rs:77 say so; `fork_from` leaks
  its mapping when the machine is not created (`vm.rs:139`); the pool's `OnceLock` is not rebuilt when
  the memory file is gone; `invalidate_cache()` has no caller.
* File system: the references that a directory listing gives are never forgotten, so the table grows with every name ever listed.
* Boot: a machine booted while the download of busybox failed is snapshotted without shell tools; an `Image`
  that was cut off is taken for whole ever after; the 100 ms promised at boot.rs:496 are not run.
* Dashboard: claims and stuck items notify nobody; a page does not fetch after a reconnect until the next event.
* Logs, skills: a failed removal is not subtracted, so concurrent cleanups remove too much; `remove` in one scope drops the
  lock entry of the other scope's copy; the chat logs only the user's line.

## 6. Hazards

`PROJECT.json` lists 40, each at its line, with the properties that would catch it. Some more were left out, being
about one call or one value: items removed on a branch (store/merge.rs:72),
the connection held while the summariser answers (helpers.rs:117), the process environment changed by spawns
(worker_pool.rs:132), a branch that survives its worktree (worktree.rs:165), retry() of an item at work (transitions.rs:149),
which has no production caller.

## 7. Not modelled

The definitions stand for about 5,900 source lines. The crates hold about 16,000 lines outside their unit
tests (which sit in the same files); what is left is listed here.

* Rigs, memories, beads: single statements without an order of steps to get wrong, apart from the check-then-insert of
  register_rig, which a unique key guards.
* Operator, middleware, work modes, agent factory: prompts and external commands; what they decide is an input.
* Other web pages, CLI, headless runner, MCP tools: thin callers of what is modelled; arguments and rendering have no state.
* The text of skills, prompts and their parsing; the decayed trust score (real numbers).
* Drawing, scrolling, the log view of the terminal.
* Registers, timers, the hypervisor's calls, attributes and bytes of files, cpio and device tree formats: data with no
  protocol of several actors. apply_to_host(), read_file() and write_file() run commands over the console as exec() does.
* Traversal of the dependency graph: modelled by what it finds.

The map covers 17 % of the lines of the implementation, of which about half are tests inside the source files.
