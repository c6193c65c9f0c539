------------------------------ MODULE CowBoard ------------------------------
(***************************************************************************)
(* The two stores of the board: the rows of SQLite and the copy of them in *)
(* memory (CowStore) that branches are taken from and merged into.  A call *)
(* commits its row first and brings the copy up to date in a later await;  *)
(* a merge holds the lock of the store while it saves the merged copy over *)
(* the rows.  Which calls exist and when they are allowed is Board's       *)
(* subject; here a call is one legal transition of one row.                *)
(***************************************************************************)
EXTENDS MergeRules, FiniteSets, SequencesExt

CONSTANTS
  Items,        \* ids of work items
  Callers,      \* tasks that call the board, each one call at a time
  Names,        \* rigs that work on a branch
  Kinds,        \* what they do there: "claim", "priority", "tag", "describe", "remove"
  NewTags,      \* the tags they may add there
  NoCall, NoBranch, NoMerge,
  MaxClock,     \* bound on the number of writes
  MaxCommits    \* bound on the number of merges

ASSUME CowBoardAssumption ==
  /\ Names \subseteq Rigs
  /\ Kinds \subseteq {"claim", "priority", "tag", "describe", "remove"}
  /\ NewTags \subseteq Tags
  /\ MaxClock \in Nat /\ MaxCommits \in Nat

VARIABLES
  rows,       \* table work_items
  log,        \* table commit_log
  store,      \* CowStore: items (its `main`), commits, next
  branches,   \* the branch each rig has taken
  merging,    \* the merge that holds the write lock of the store
  calls,      \* calls whose row is committed and whose copy is not yet written
  clock       \* Utc::now()

vars == <<rows, log, store, branches, merging, calls, clock>>

Tables == [Items -> WorkItems \cup {NoItem}]

Commits == [id : Nat, parent : Nat \cup {-1}, branch : Names]

Stores == [items : Tables, commits : Seq(Commits), next : Nat]

Calls == [step : {"posted", "insert", "update", "describe"},
          item : Items, value : WorkItems \cup {NoItem}]

Merges == [staged : Stores, saved : BOOLEAN, base : Tables, data : Tables]

ASSUME NothingAssumption == NoCall \notin Calls /\ NoMerge \notin Merges

TypeOK ==
  /\ rows \in Tables
  /\ log \subseteq Commits
  /\ store \in Stores
  /\ branches \in [Names -> [base : Tables, data : Tables] \cup {NoBranch}]
  /\ merging \in Merges \cup {NoMerge}
  /\ calls \in [Callers -> Calls \cup {NoCall}]
  /\ \A c \in Callers : calls[c] # NoCall =>
       (calls[c].value = NoItem <=> calls[c].step = "posted")
  /\ clock \in 0..MaxClock

EmptyStore == [items |-> [i \in Items |-> NoItem], commits |-> <<>>, next |-> 0]

Init ==
  /\ rows = EmptyStore.items
  /\ log = {}
  /\ store = EmptyStore
  /\ branches = [n \in Names |-> NoBranch]
  /\ merging = NoMerge
  /\ calls = [c \in Callers |-> NoCall]
  /\ clock = 0

Unlocked == merging = NoMerge

Tick == clock < MaxClock /\ clock' = clock + 1

-----------------------------------------------------------------------------
(* Calls: the row first, the copy later *)

\* Caller c has committed `value` as row i and goes on with `step`.
Commit(c, i, value, step) ==
  /\ calls[c] = NoCall
  /\ rows' = [rows EXCEPT ![i] = value]
  /\ calls' = [calls EXCEPT ![c] = [step |-> step, item |-> i, value |-> value]]
  /\ UNCHANGED <<log, store, branches, merging>>

\* post(): the INSERT, of which only the id is known so far.  Branches change the
\* priority it was posted with, calls never do.
Post(c, i) ==
  /\ calls[c] = NoCall
  /\ rows[i] = NoItem
  /\ Tick
  /\ \E text \in Texts :
       rows' = [rows EXCEPT ![i] = [status |-> "Open", holder |-> NoRig, priority |-> P1,
                                    tags |-> {}, text |-> text, at |-> clock + 1]]
  /\ calls' = [calls EXCEPT ![c] = [step |-> "posted", item |-> i, value |-> NoItem]]
  /\ UNCHANGED <<log, store, branches, merging>>

\* post() reads the row again before it copies it.
Reread(c) ==
  /\ calls[c] # NoCall /\ calls[c].step = "posted"
  /\ calls' = [calls EXCEPT ![c].step = "insert", ![c].value = rows[calls[c].item]]
  /\ UNCHANGED <<rows, log, store, branches, merging, clock>>

\* claimed_by after a transition to status `to` by rig r.
HolderAfter(to, r, holder) ==
  IF to = "Claimed" THEN r ELSE IF to = "Open" THEN NoRig ELSE holder

\* transition() and claim(): one legal transition, with its holder.
Transact(c, i) ==
  /\ rows[i] # NoItem
  /\ Tick
  /\ \E to \in Statuses, r \in Rigs :
       /\ CanTransitionTo(rows[i].status, to)
       /\ Commit(c, i, [rows[i] EXCEPT !.status = to, !.at = clock + 1,
                          !.holder = HolderAfter(to, r, @)], "update")

\* compact(), one item: a shorter description, written back by field.
Compact(c, i) ==
  /\ rows[i] # NoItem
  /\ rows[i].status \in {"Done", "Abandoned", "Stuck"}
  /\ Tick
  /\ \E text \in Texts :
       Commit(c, i, [rows[i] EXCEPT !.text = text, !.at = clock + 1], "describe")

\* Mutant of Sync: post() uses update_in_main as well, which ignores a new id.
SyncKnownOnly(c) ==
  /\ calls[c] # NoCall /\ calls[c].step # "posted"
  /\ Unlocked
  /\ LET i == calls[c].item IN
       store' = IF store.items[i] = NoItem THEN store
                ELSE [store EXCEPT !.items[i] = calls[c].value]
  /\ calls' = [calls EXCEPT ![c] = NoCall]
  /\ UNCHANGED <<rows, log, branches, merging, clock>>

\* Mutant of Sync: without waiting for the lock.
SyncUnlocked(c) ==
  /\ calls[c] # NoCall /\ calls[c].step # "posted"
  /\ store' = [store EXCEPT !.items[calls[c].item] = calls[c].value]
  /\ calls' = [calls EXCEPT ![c] = NoCall]
  /\ UNCHANGED <<rows, log, branches, merging, clock>>

\* insert_to_main, or update_in_main of an id that is there; compact() takes the
\* time again for the copy.
Sync(c) ==
  /\ calls[c] # NoCall /\ calls[c].step # "posted"
  /\ Unlocked
  /\ LET i == calls[c].item  old == store.items[i]  new == calls[c].value IN
       store' = IF old = NoItem /\ calls[c].step # "insert" THEN store
                ELSE [store EXCEPT !.items[i] =
                        IF calls[c].step = "describe"
                        THEN [old EXCEPT !.text = new.text, !.at = clock + 1] ELSE new]
  /\ IF calls[c].step = "describe" THEN Tick ELSE UNCHANGED clock
  /\ calls' = [calls EXCEPT ![c] = NoCall]
  /\ UNCHANGED <<rows, log, branches, merging>>

-----------------------------------------------------------------------------
(* Branches *)

\* branch(): a snapshot of the copy.
TakeBranch(n) ==
  /\ branches[n] = NoBranch
  /\ Unlocked
  /\ branches' = [branches EXCEPT ![n] = [base |-> store.items, data |-> store.items]]
  /\ UNCHANGED <<rows, log, store, merging, calls, clock>>

\* What a closure given to Branch::update may make of an item.
Edited(n, item) ==
  {[item EXCEPT !.status = "Claimed", !.holder = n] : x \in {"claim"} \cap Kinds}
    \cup {[item EXCEPT !.priority = P0] : x \in {"priority"} \cap Kinds}
    \cup {[item EXCEPT !.tags = @ \cup {x}] : x \in IF "tag" \in Kinds THEN NewTags ELSE {}}
    \cup {[item EXCEPT !.text = x] : x \in IF "describe" \in Kinds THEN Texts ELSE {}}

\* update(): the closure may set updated_at, or forget it.
Edit(n, i) ==
  /\ branches[n] # NoBranch /\ branches[n].data[i] # NoItem
  /\ \E e \in Edited(n, branches[n].data[i]) :
       \/ /\ Tick
          /\ branches' = [branches EXCEPT ![n].data[i] = [e EXCEPT !.at = clock + 1]]
       \/ /\ branches' = [branches EXCEPT ![n].data[i] = e]
          /\ UNCHANGED clock
  /\ UNCHANGED <<rows, log, store, merging, calls>>

RemoveItem(n, i) ==
  /\ "remove" \in Kinds
  /\ branches[n] # NoBranch
  /\ branches' = [branches EXCEPT ![n].data[i] = NoItem]
  /\ UNCHANGED <<rows, log, store, merging, calls, clock>>

Discard(n) ==
  /\ branches[n] # NoBranch
  /\ branches' = [branches EXCEPT ![n] = NoBranch]
  /\ UNCHANGED <<rows, log, store, merging, calls, clock>>

-----------------------------------------------------------------------------
(* merge(): stage on a clone, save, swap in; the write lock is held throughout *)

\* append_commit on store s: the next id, the last commit as parent.
AppendCommit(s, n) ==
  LET parent == IF s.commits = <<>> THEN -1 ELSE Last(s.commits).id IN
  [items |-> s.items, next |-> s.next + 1,
   commits |-> Append(s.commits, [id |-> s.next, parent |-> parent, branch |-> n])]

Stage(n) ==
  /\ branches[n] # NoBranch
  /\ Unlocked
  /\ store.next < MaxCommits
  /\ LET b == branches[n]
         merged == [store EXCEPT !.items = MergeInto(@, b.base, b.data)]
     IN  merging' = [staged |-> AppendCommit(merged, n), saved |-> FALSE,
                     base |-> b.base, data |-> b.data]
  /\ branches' = [branches EXCEPT ![n] = NoBranch]
  /\ UNCHANGED <<rows, log, store, calls, clock>>

\* persist(): every item of the copy over its row, and the commits not yet in the
\* table, in one transaction.
Persist ==
  /\ ~Unlocked /\ ~merging.saved
  /\ rows' = [i \in Items |-> IF merging.staged.items[i] = NoItem THEN rows[i]
                              ELSE merging.staged.items[i]]
  /\ log' = log \cup {new \in ToSet(merging.staged.commits) : \A l \in log : l.id # new.id}
  /\ merging' = [merging EXCEPT !.saved = TRUE]
  /\ UNCHANGED <<store, branches, calls, clock>>

\* The transaction fails: the clone is dropped.
PersistFails ==
  /\ ~Unlocked /\ ~merging.saved
  /\ merging' = NoMerge
  /\ UNCHANGED <<rows, log, store, branches, calls, clock>>

SwapIn ==
  /\ ~Unlocked /\ merging.saved
  /\ store' = merging.staged
  /\ merging' = NoMerge
  /\ UNCHANGED <<rows, log, branches, calls, clock>>

\* A table's commits in the order of their ids.
ById(table) ==
  CHOOSE s \in [1 .. Cardinality(table) -> table] :
    \A j, k \in DOMAIN s : j < k => s[j].id < s[k].id

\* Mutant of Restored: numbering goes on with the last id.
RestoredOffByOne ==
  LET commits == ById(log) IN
  [items |-> rows, commits |-> commits,
   next |-> IF commits = <<>> THEN 0 ELSE Last(commits).id]

\* restore(): numbering goes on after the last commit.
Restored ==
  LET commits == ById(log) IN
  [items |-> rows, commits |-> commits,
   next |-> IF commits = <<>> THEN 0 ELSE Last(commits).id + 1]

\* The process stops at any moment and connects again.
Restart ==
  /\ store' = Restored
  /\ branches' = [n \in Names |-> NoBranch]
  /\ merging' = NoMerge
  /\ calls' = [c \in Callers |-> NoCall]
  /\ UNCHANGED <<rows, log, clock>>

Next ==
  \/ \E c \in Callers : \/ Reread(c) \/ Sync(c)
                        \/ \E i \in Items : Post(c, i) \/ Transact(c, i) \/ Compact(c, i)
  \/ \E n \in Names : \/ TakeBranch(n) \/ Discard(n) \/ Stage(n)
                      \/ \E i \in Items : Edit(n, i) \/ RemoveItem(n, i)
  \/ Persist \/ PersistFails \/ SwapIn
  \/ Restart

Spec == Init /\ [][Next]_vars

-----------------------------------------------------------------------------
(* Properties *)

\* The commit log in memory is the one on disk, up to the one commit of a merge
\* that has been saved and not yet swapped in: no merge that failed leaves a
\* commit behind, and no id is given out twice, across restarts too.
LogsAgree ==
  /\ log = ToSet(IF ~Unlocked /\ merging.saved THEN merging.staged.commits
                 ELSE store.commits)
  /\ \A a, b \in log : a.id = b.id => a = b
  /\ \A a \in log : a.parent = a.id - 1

\* A field that only one side changed since the branch was taken.
FieldKept(base, branch, main, after) ==
  (branch = base => after = main) /\ (main = base => after = branch)

\* The fields merge_work_item resolves.
Resolved == {"status", "holder", "priority", "tags"}

\* The copy after a merge, against the branch, its base and the copy before.
BothSidesKept ==
  \A i \in Items :
    LET old == merging.base[i]  branch == merging.data[i]
        main == store.items[i]  after == store'.items[i]
    IN  /\ branch = NoItem /\ old = NoItem => after = main
        /\ branch # NoItem /\ old # NoItem /\ main # NoItem =>
             \A field \in Resolved : FieldKept(old[field], branch[field], main[field], after[field])

\* Merging loses no change of either side to the status, the holder, the priority or
\* the tags: whatever calls wrote to the copy while the branch was out is still there,
\* unless the branch wrote the same field.  Of title and description nothing is said:
\* merge_work_item takes them from the base when both sides changed the item, and an
\* edit of either side is lost (OneSidedKept of MergeOrder, refuted).
MergeKeepsResolvedFields == [][SwapIn => BothSidesKept]_vars

\* Until the first merge the copy holds what the rows hold, times apart, whenever no
\* call is in flight: post, transitions, compaction and restarts keep it up.  It takes
\* calls one after the other: two calls on one item may write to the copy in the other
\* order.  After a merge it no longer holds, see the README.
MirrorMatchesRows ==
  log = {} /\ Unlocked /\ (\A c \in Callers : calls[c] = NoCall) =>
    \A i \in Items :
      IF rows[i] = NoItem \/ store.items[i] = NoItem THEN store.items[i] = rows[i]
      ELSE [store.items[i] EXCEPT !.at = 0] = [rows[i] EXCEPT !.at = 0]

=============================================================================
