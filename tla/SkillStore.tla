----------------------------- MODULE SkillStore -----------------------------
(***************************************************************************)
(* `opengoose skills add`, `remove` and `update`: skills of git            *)
(* repositories copied into the installed skills of the home or the        *)
(* working directory, and the lock file that says where each name came     *)
(* from.  Every command is a process; nothing keeps two of them apart, and *)
(* each may be interrupted.  A repository is cloned into one directory     *)
(* whoever clones it.  A file is the repository and revision it is from.   *)
(***************************************************************************)
EXTENDS Naturals, FiniteSets

CONSTANTS
  Procs, Names,
  Offers,        \* repository -> names of the skills in it
  FilesAt,       \* revision -> files of a skill, SKILL.md among them
  MaxCommands,   \* bound: commands
  MaxMishaps     \* bound: failures of network or disk, interrupted commands

Repos == DOMAIN Offers
Revisions == DOMAIN FilesAt
Scopes == {"local", "global"}
None == "none"

SkillStoreAssumption ==
  /\ None \notin Names \cup Procs \cup Repos
  /\ Offers \in [Repos -> SUBSET Names]
  /\ 1 \in Revisions /\ Revisions = 1 .. Cardinality(Revisions)
  /\ {MaxCommands, MaxMishaps} \subseteq Nat

VARIABLES
  revision,   \* of each repository, as it is served
  clone,      \* the directory a repository is cloned into
  installed,  \* scope -> name -> directory
  lock,       \* .skill-lock.json: unreadable or not, name -> repository
  pc, my,     \* of a command: where it is and its locals
  commands, mishaps,
  alone       \* history: commands that had no other beside them and no failed lock file

counts == <<commands, mishaps>>
vars == <<revision, clone, installed, lock, pc, my, counts, alone>>

NoDir == [there |-> FALSE, files |-> {}]
NoClone == [by |-> None, revision |-> 0, files |-> {}]
NoEntries == [n \in Names |-> None]
Fresh == [job |-> None, scope |-> "local", repo |-> None, revision |-> 0, filter |-> None, names |-> {},
          name |-> None, list |-> {}, entries |-> NoEntries, source |-> NoEntries, todo |-> {}, done |-> {}]

At(p, l) == pc[p] = l
Goto(p, l) == pc' = [pc EXCEPT ![p] = l]
Set(p, new) == my' = [my EXCEPT ![p] = new]
Mishap == mishaps < MaxMishaps /\ mishaps' = mishaps + 1

Begin(p, new, l) ==
  /\ At(p, "idle") /\ commands < MaxCommands
  /\ commands' = commands + 1
  /\ Goto(p, l) /\ Set(p, new)
  /\ alone' = IF \A q \in Procs : At(q, "idle") THEN {p} ELSE {}
  /\ UNCHANGED <<revision, clone, installed, lock, mishaps>>

Stop(p) == Goto(p, "idle") /\ Set(p, Fresh)

\* A failed `add` ends the command; update::run() reports it and goes on.
Fails(p) ==
  IF my[p].job = "update" THEN Goto(p, "next") /\ UNCHANGED my ELSE Stop(p)

-----------------------------------------------------------------------------
(* add::run() *)

Add(p, r, scope) ==
  Begin(p, [Fresh EXCEPT !.job = "add", !.repo = r, !.scope = scope], "clear")

\* Mutant of ClearClone: what is there is taken for the clone.
ClearNothing(p) ==
  /\ At(p, "clear")
  /\ IF clone[my[p].repo].by = None THEN Goto(p, "git") /\ UNCHANGED my
     ELSE Goto(p, "discover") /\ Set(p, [my[p] EXCEPT !.revision = revision[my[p].repo]])
  /\ UNCHANGED <<revision, clone, installed, lock, counts, alone>>

\* clone_repo(): what is there goes first.
ClearClone(p) ==
  /\ At(p, "clear")
  /\ clone' = [clone EXCEPT ![my[p].repo] = NoClone]
  /\ Goto(p, "git")
  /\ UNCHANGED <<revision, installed, lock, my, counts, alone>>

\* git clone makes the directory, and fails if there is one again.
StartGit(p) ==
  LET r == my[p].repo IN
    /\ At(p, "git") /\ clone[r].by = None
    /\ clone' = [clone EXCEPT ![r] = [by |-> p, revision |-> revision[r], files |-> {"SKILL.md"}]]
    /\ Set(p, [my[p] EXCEPT !.revision = revision[r]])
    /\ Goto(p, "checkout")
    /\ UNCHANGED <<revision, installed, lock, counts, alone>>

FinishGit(p) ==
  LET r == my[p].repo IN
    /\ At(p, "checkout") /\ clone[r].by = p
    /\ clone' = [clone EXCEPT ![r].files = FilesAt[clone[r].revision]]
    /\ Goto(p, "discover")
    /\ UNCHANGED <<revision, installed, lock, my, counts, alone>>

\* git leaves nothing behind of a clone that fails.
GitFails(p) ==
  LET r == my[p].repo IN
    /\ \/ At(p, "git") /\ clone[r].by # None /\ UNCHANGED <<clone, mishaps>>
       \/ At(p, "checkout") /\ clone[r].by # p /\ UNCHANGED <<clone, mishaps>>
       \/ At(p, "checkout") /\ clone[r].by = p /\ Mishap /\ clone' = [clone EXCEPT ![r] = NoClone]
    /\ Fails(p)
    /\ UNCHANGED <<revision, installed, lock, commands, alone>>

\* discover_skills(), select_skills(): all, the one asked for, or what the user ticks.
Found(p) == IF "SKILL.md" \in clone[my[p].repo].files THEN Offers[my[p].repo] ELSE {}

Discover(p) ==
  LET wanted == IF my[p].filter = None THEN Found(p) ELSE Found(p) \cap {my[p].filter}
  IN /\ At(p, "discover")
     /\ \/ \E names \in SUBSET wanted \ {{}} :
             Set(p, [my[p] EXCEPT !.names = names]) /\ Goto(p, "next skill") /\ UNCHANGED clone
        \/ /\ my[p].filter = None \/ wanted = {}
           /\ clone' = IF wanted = {} /\ Found(p) # {} THEN clone
                       ELSE [clone EXCEPT ![my[p].repo] = NoClone]
           /\ Fails(p)
     /\ UNCHANGED <<revision, installed, lock, counts, alone>>

\* install_skill(): the directory is emptied; copy_dir_recursive() reads what to copy.
InstallSkill(p) ==
  LET source == clone[my[p].repo] IN
    /\ At(p, "next skill")
    /\ \E n \in my[p].names :
         /\ installed' = [installed EXCEPT ![my[p].scope][n] = [there |-> TRUE, files |-> {}]]
         /\ IF source.by = None THEN Fails(p)
            ELSE /\ Set(p, [my[p] EXCEPT !.names = @ \ {n}, !.name = n, !.list = source.files])
                 /\ Goto(p, "copy")
    /\ UNCHANGED <<revision, clone, lock, counts, alone>>

CopyFile(p) ==
  LET source == clone[my[p].repo]
      target == installed[my[p].scope][my[p].name]
  IN /\ At(p, "copy")
     /\ \/ \E f \in my[p].list \cap source.files :
             /\ target.there
             /\ installed' = [installed EXCEPT ![my[p].scope][my[p].name].files =
                  {g \in @ : g[1] # f} \cup {<<f, my[p].repo, source.revision>>}]
             /\ Set(p, [my[p] EXCEPT !.list = @ \ {f}])
             /\ UNCHANGED pc
        \/ my[p].list = {} /\ Goto(p, "read") /\ UNCHANGED <<installed, my>>
     /\ UNCHANGED <<revision, clone, lock, counts, alone>>

\* A file or the directory is gone by now, or the disk is full.
CopyFails(p) ==
  /\ At(p, "copy") /\ my[p].list # {}
  /\ \/ ~(my[p].list \subseteq clone[my[p].repo].files) /\ UNCHANGED mishaps
     \/ ~installed[my[p].scope][my[p].name].there /\ UNCHANGED mishaps
     \/ Mishap
  /\ Fails(p)
  /\ UNCHANGED <<revision, clone, installed, lock, commands, alone>>

\* The clone goes when all are installed.
FinishAdd(p) ==
  /\ At(p, "next skill") /\ my[p].names = {}
  /\ clone' = [clone EXCEPT ![my[p].repo] = NoClone]
  /\ Goto(p, IF my[p].job = "update" THEN "next" ELSE "done")
  /\ UNCHANGED <<revision, installed, lock, my, counts, alone>>

-----------------------------------------------------------------------------
(* The lock file *)

\* read_lock(): a file that does not parse is an empty one.
Entries == IF lock.torn THEN NoEntries ELSE lock.entries

\* add_entry() and remove_entry() read it, and write it only if there is a change.
ReadLock(p) ==
  LET source == IF my[p].job = "remove" THEN None ELSE my[p].repo IN
    /\ At(p, "read")
    /\ IF source = None /\ Entries[my[p].name] = None
         THEN Goto(p, "done") /\ UNCHANGED my
         ELSE /\ Set(p, [my[p] EXCEPT !.entries = [Entries EXCEPT ![my[p].name] = source]])
              /\ Goto(p, "truncate")
    /\ UNCHANGED <<revision, clone, installed, lock, counts, alone>>

\* std::fs::write(): in place.
TruncateLock(p) ==
  /\ At(p, "truncate")
  /\ lock' = [lock EXCEPT !.torn = TRUE]
  /\ Goto(p, "write")
  /\ UNCHANGED <<revision, clone, installed, my, counts, alone>>

WriteLock(p) ==
  /\ At(p, "write")
  /\ lock' = [torn |-> FALSE, entries |-> my[p].entries]
  /\ Set(p, [my[p] EXCEPT !.entries = NoEntries, !.name = None,
                          !.done = IF my[p].job = "remove" THEN @
                                   ELSE @ \cup {<<my[p].scope, my[p].name, my[p].repo, my[p].revision>>}])
  /\ Goto(p, IF my[p].job = "remove" THEN "done" ELSE "next skill")
  /\ UNCHANGED <<revision, clone, installed, counts, alone>>

\* The disk is full: before it is opened, or in the middle.
LockFails(p) ==
  /\ pc[p] \in {"truncate", "write"} /\ Mishap
  /\ Fails(p)
  /\ alone' = {}
  /\ UNCHANGED <<revision, clone, installed, lock, commands>>

-----------------------------------------------------------------------------
(* remove::run(), update::run() *)

Remove(p, n, scope) ==
  Begin(p, [Fresh EXCEPT !.job = "remove", !.name = n, !.scope = scope], "remove")

RemoveDir(p) ==
  /\ At(p, "remove")
  /\ installed' = [installed EXCEPT ![my[p].scope][my[p].name] = NoDir]
  /\ Goto(p, "read")
  /\ UNCHANGED <<revision, clone, lock, my, counts, alone>>

\* Every entry of the lock file, one after the other.
Update(p) ==
  Begin(p, [Fresh EXCEPT !.job = "update", !.todo = {n \in Names : Entries[n] # None}, !.source = Entries],
        "next")

\* Whether it was installed globally is looked up in goose/skills, where `add` puts nothing.
UpdateNext(p) ==
  /\ At(p, "next")
  /\ IF my[p].todo = {} THEN Goto(p, "done") /\ UNCHANGED my
     ELSE \E n \in my[p].todo :
            /\ Set(p, [my[p] EXCEPT !.todo = @ \ {n}, !.filter = n, !.repo = my[p].source[n]])
            /\ Goto(p, "clear")
  /\ UNCHANGED <<revision, clone, installed, lock, counts, alone>>

Return(p) ==
  /\ At(p, "done")
  /\ Stop(p)
  /\ UNCHANGED <<revision, clone, installed, lock, counts, alone>>

\* The command is interrupted.
Kill(p) ==
  /\ ~At(p, "idle") /\ Mishap
  /\ Stop(p)
  /\ UNCHANGED <<revision, clone, installed, lock, commands, alone>>

\* A new revision of a repository.
Publish(r) ==
  /\ revision[r] + 1 \in Revisions
  /\ revision' = [revision EXCEPT ![r] = @ + 1]
  /\ UNCHANGED <<clone, installed, lock, pc, my, counts, alone>>

-----------------------------------------------------------------------------

Init ==
  /\ revision = [r \in Repos |-> 1]
  /\ clone = [r \in Repos |-> NoClone]
  /\ installed = [s \in Scopes |-> [n \in Names |-> NoDir]]
  /\ lock = [torn |-> FALSE, entries |-> NoEntries]
  /\ pc = [p \in Procs |-> "idle"]
  /\ my = [p \in Procs |-> Fresh]
  /\ commands = 0 /\ mishaps = 0
  /\ alone = {}

Next ==
  \/ \E p \in Procs :
       \/ \E r \in Repos, scope \in Scopes : Add(p, r, scope)
       \/ \E n \in Names, scope \in Scopes : Remove(p, n, scope)
       \/ Update(p) \/ UpdateNext(p) \/ RemoveDir(p)
       \/ ClearClone(p) \/ StartGit(p) \/ FinishGit(p) \/ GitFails(p) \/ Discover(p)
       \/ InstallSkill(p) \/ CopyFile(p) \/ CopyFails(p) \/ FinishAdd(p)
       \/ ReadLock(p) \/ TruncateLock(p) \/ WriteLock(p) \/ LockFails(p)
       \/ Return(p) \/ Kill(p)
  \/ \E r \in Repos : Publish(r)

Spec == Init /\ [][Next]_vars

-----------------------------------------------------------------------------
(* Properties *)

TypeOK ==
  /\ revision \in [Repos -> Revisions]
  /\ \A r \in Repos : clone[r].by \in Procs \cup {None}
  /\ lock.torn \in BOOLEAN /\ lock.entries \in [Names -> Repos \cup {None}]
  /\ \A p \in Procs : my[p].scope \in Scopes /\ my[p].name \in Names \cup {None}
  /\ alone \subseteq Procs

\* Whatever the commands before it left behind (clones, half-copied skills, a torn
\* lock file), a command that runs alone and can write the lock file leaves every
\* skill it reports as installed complete, of the one revision it cloned, and in the
\* lock file with its source (add.rs:72, 134; lock.rs:46).
InstalledWhole ==
  \A p \in alone : At(p, "done") => \A d \in my[p].done :
    /\ installed[d[1]][d[2]].files = {<<f, d[3], d[4]>> : f \in FilesAt[d[4]]}
    /\ ~lock.torn /\ lock.entries[d[2]] = d[3]

\* An update brings every installed copy up to date ("Update all installed
\* skills", skills/mod.rs:44).
UpdatesAll ==
  \A p \in alone : At(p, "done") /\ my[p].job = "update" =>
    \A s \in Scopes, d \in my[p].done :
      installed[s][d[2]].there => \A g \in installed[s][d[2]].files : g[3] = d[4]

\* Only `remove` takes a name out of the lock file (lock.rs:70).
EntriesKept ==
  [][\A n \in Names : Entries[n] # None /\ Entries'[n] = None
       => \E p \in Procs : my[p].job = "remove" /\ my[p].name = n]_vars

=============================================================================
