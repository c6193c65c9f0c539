-------------------------- MODULE ConversationLog --------------------------
(***************************************************************************)
(* The JSONL logs of conversations, one file per session.  A worker looks  *)
(* its session up by the name of its task and appends to the log an entry  *)
(* for every message; the operator's chat appends the user's lines.        *)
(* append_entry() opens the file anew for each entry and writes it in two  *)
(* pieces, the text and the newline.  `opengoose logs clean` lists the     *)
(* logs and removes files by what it listed.  All of them are processes of *)
(* their own; a file that is removed goes on for those who have it open.   *)
(***************************************************************************)
EXTENDS Naturals, SequencesExt

CONSTANTS
  Workers, Chats, Cleaners,  \* that append a reply, or a user's line; that remove
  Tasks,
  Capacity,                  \* of all logs together (100 MB), in pieces
  MaxSessions,               \* bound: sessions goose makes
  MaxEntries,                \* bound: entries appended
  MaxTorn                    \* bound: entries cut short by a crash or a full disk

ConversationLogAssumption ==
  /\ IsFiniteSet(Tasks)
  /\ {MaxSessions, MaxEntries, MaxTorn, Capacity} \subseteq Nat

Writers == Workers \cup Chats

\* log_path(): files by what their session is called.
GooseId(n) == <<"goose", n>>
TaskId(t) == <<"task", t>>
Operators == <<"operator", 0>>
Files == {GooseId(n) : n \in 1 .. MaxSessions} \cup {TaskId(t) : t \in Tasks} \cup {Operators}

VARIABLES
  sessions,  \* goose: the sessions in the order of their numbers, by name
  log,       \* file -> its generation (0: there is none), pieces and time
  writer,    \* writer -> where it is, the file and generation it has open, its entry
  cleaner,   \* cleaner -> phase, cutoff, its listing, what it removed of it, whether all of that
  entries,   \* entries begun
  finished,  \* history: file -> entries completed in its present generation
  torn,      \* history: number of entries cut short
  mixed      \* history: files with an entry that is torn or has another one in it

history == <<finished, torn, mixed>>
vars == <<sessions, log, writer, cleaner, entries, history>>

Newline == 0
NoFile == [gen |-> 0, pieces |-> <<>>, time |-> 0]
Existing == {f \in Files : log[f].gen # 0}
Clock == entries

At(w, l) == writer[w].pc = l
Goto(w, l) == writer' = [writer EXCEPT ![w].pc = l]
Quiet == [pc |-> "idle", file |-> Operators, gen |-> 0, entry |-> 0]
Return(w) == writer' = [writer EXCEPT ![w] = Quiet]

\* read_log_contents(): the lines that are an entry; the last may lack its newline.
Entry(pieces, i) ==
  /\ i \in DOMAIN pieces /\ pieces[i] # Newline
  /\ i > 1 => pieces[i - 1] = Newline
  /\ i < Len(pieces) => pieces[i + 1] = Newline

Readable(pieces) ==
  LET upto[i \in Nat] == IF i = 0 THEN <<>>
                         ELSE IF Entry(pieces, i) THEN Append(upto[i - 1], pieces[i]) ELSE upto[i - 1]
  IN upto[Len(pieces)]

-----------------------------------------------------------------------------
(* Sessions *)

NewestNamed(t) == {n \in DOMAIN sessions : sessions[n] = t /\ \A k \in DOMAIN sessions : sessions[k] = t => k <= n}

Start(w, f) == writer' = [writer EXCEPT ![w] = [pc |-> "ready", file |-> f, gen |-> 0, entry |-> 0]]

\* resolve_session(): the newest session of that name, or a new one; a listing that
\* fails finds none.
ResolveSession(w, t) ==
  /\ w \in Workers /\ At(w, "idle")
  /\ \/ \E n \in NewestNamed(t) : Start(w, GooseId(n)) /\ UNCHANGED sessions
     \/ /\ Len(sessions) < MaxSessions
        /\ sessions' = Append(sessions, t)
        /\ Start(w, GooseId(Len(sessions) + 1))
  /\ UNCHANGED <<log, cleaner, entries, history>>

\* The operator has one session, by the name it was given.
ResumeChat(w) ==
  /\ w \in Chats /\ At(w, "idle")
  /\ Start(w, Operators)
  /\ UNCHANGED <<sessions, log, cleaner, entries, history>>

-----------------------------------------------------------------------------
(* append_entry() *)

\* Mutant of OpenLog: opened for writing, from the start.
OpenTruncated(w) ==
  /\ At(w, "ready") /\ entries < MaxEntries
  /\ entries' = entries + 1
  /\ LET f == writer[w].file
         gen == IF log[f].gen = 0 THEN entries + 1 ELSE log[f].gen
     IN /\ log' = [log EXCEPT ![f].gen = gen, ![f].pieces = <<>>]
        /\ writer' = [writer EXCEPT ![w].pc = "open", ![w].gen = gen, ![w].entry = entries + 1]
  /\ UNCHANGED <<sessions, cleaner, history>>

\* create(true).append(true)
OpenLog(w) ==
  /\ At(w, "ready") /\ entries < MaxEntries
  /\ entries' = entries + 1
  /\ LET f == writer[w].file
         gen == IF log[f].gen = 0 THEN entries + 1 ELSE log[f].gen
     IN /\ log' = [log EXCEPT ![f].gen = gen, ![f].time = IF @ = 0 THEN Clock ELSE @]
        /\ writer' = [writer EXCEPT ![w].pc = "open", ![w].gen = gen, ![w].entry = entries + 1]
  /\ UNCHANGED <<sessions, cleaner, history>>

\* At the end of the file, whoever has written before; nowhere if it was removed.
Write(w, piece) ==
  LET f == writer[w].file IN
    log' = IF log[f].gen = writer[w].gen
             THEN [log EXCEPT ![f] = [gen |-> @.gen, pieces |-> Append(@.pieces, piece), time |-> Clock]]
             ELSE log

\* Writers that are between the two pieces of an entry, in the file that is there.
Halfway(f) == {w \in Writers : At(w, "half") /\ writer[w].file = f /\ writer[w].gen = log[f].gen}

WriteEntry(w) ==
  LET f == writer[w].file IN
    /\ At(w, "open")
    /\ Write(w, writer[w].entry)
    /\ mixed' = mixed \cup (IF log[f].gen = writer[w].gen /\ Halfway(f) # {} THEN {f} ELSE {})
    /\ Goto(w, "half")
    /\ UNCHANGED <<sessions, cleaner, entries, finished, torn>>

\* A worker goes on with the stream; chat_streaming() leaves that to its caller.
WriteNewline(w) ==
  LET f == writer[w].file IN
    /\ At(w, "half")
    /\ Write(w, Newline)
    /\ finished' = IF log[f].gen = writer[w].gen
                     THEN [finished EXCEPT ![f] = Append(@, writer[w].entry)] ELSE finished
    /\ IF w \in Chats THEN Return(w) ELSE Start(w, f)
    /\ UNCHANGED <<sessions, cleaner, entries, torn, mixed>>

\* The process dies, or the disk is full and the stream goes on.
Tear(w) ==
  /\ At(w, "half") /\ torn < MaxTorn
  /\ torn' = torn + 1
  /\ mixed' = mixed \cup (IF w \in Halfway(writer[w].file) THEN {writer[w].file} ELSE {})
  /\ Return(w) \/ Start(w, writer[w].file)
  /\ UNCHANGED <<sessions, log, cleaner, entries, finished>>

\* The stream ends, with or without an error; the next attempt resolves it again.
EndReply(w) ==
  /\ At(w, "ready")
  /\ Return(w)
  /\ UNCHANGED <<sessions, log, cleaner, entries, history>>

-----------------------------------------------------------------------------
(* Retention *)

\* list_logs()
Listing == {[file |-> f, size |-> Len(log[f].pieces), time |-> log[f].time] : f \in Existing}
Total(logs) == Cardinality(UNION {{l} \X (1 .. l.size) : l \in logs})

Cleanup(phase, cutoff, list, remaining) ==
  [phase |-> phase, cutoff |-> cutoff, list |-> list, done |-> {}, remaining |-> remaining, all |-> TRUE]
Idle == Cleanup("idle", 0, {}, 0)
Left(c) == cleaner[c].list \ cleaner[c].done

\* clean_older_than(): any number of days.
ListOld(c) ==
  /\ cleaner[c].phase = "idle"
  /\ \E cutoff \in 1 .. Clock + 1 : cleaner' = [cleaner EXCEPT ![c] = Cleanup("age", cutoff, Listing, 0)]
  /\ UNCHANGED <<sessions, log, writer, entries, history>>

\* remove_file() by path: whatever has that name by now.
RemoveFile(l) ==
  /\ log' = [log EXCEPT ![l.file] = NoFile]
  /\ finished' = [finished EXCEPT ![l.file] = <<>>]
  /\ mixed' = mixed \ {l.file}
  /\ UNCHANGED <<sessions, writer, entries, torn>>

RemoveOld(c) ==
  /\ cleaner[c].phase = "age"
  /\ \E l \in Left(c) :
       /\ l.time < cleaner[c].cutoff
       /\ RemoveFile(l)
       /\ cleaner' = [cleaner EXCEPT ![c].done = @ \cup {l}]

\* clean_over_capacity() lists again.
ListAgain(c) ==
  /\ cleaner[c].phase = "age"
  /\ \A l \in Left(c) : l.time >= cleaner[c].cutoff
  /\ cleaner' = [cleaner EXCEPT ![c] = Cleanup("capacity", 0, Listing, Total(Listing))]
  /\ UNCHANGED <<sessions, log, writer, entries, history>>

\* Mutant of Oldest: in the order of list_logs().
Newest(logs) == {l \in logs : \A k \in logs : k.time <= l.time}

Oldest(logs) == {l \in logs : \A k \in logs : l.time <= k.time}

RemoveOldest(c) ==
  /\ cleaner[c].phase = "capacity" /\ cleaner[c].remaining > Capacity
  /\ \E l \in Oldest(Left(c)) :
       /\ RemoveFile(l)
       /\ cleaner' = [cleaner EXCEPT ![c].done = @ \cup {l}, ![c].all = @ /\ l.file \in Existing,
                                     ![c].remaining = IF l.file \in Existing THEN @ - l.size ELSE @]

Cleaned(c) == cleaner[c].phase = "capacity" /\ (cleaner[c].remaining <= Capacity \/ Left(c) = {})

EndClean(c) ==
  /\ Cleaned(c)
  /\ cleaner' = [cleaner EXCEPT ![c] = Idle]
  /\ UNCHANGED <<sessions, log, writer, entries, history>>

-----------------------------------------------------------------------------

Init ==
  /\ sessions = <<>>
  /\ log = [f \in Files |-> NoFile]
  /\ writer = [w \in Writers |-> Quiet]
  /\ cleaner = [c \in Cleaners |-> Idle]
  /\ entries = 0
  /\ finished = [f \in Files |-> <<>>]
  /\ torn = 0
  /\ mixed = {}

Next ==
  \/ \E w \in Writers :
       \/ \E t \in Tasks : ResolveSession(w, t)
       \/ ResumeChat(w) \/ OpenLog(w) \/ WriteEntry(w) \/ WriteNewline(w) \/ Tear(w) \/ EndReply(w)
  \/ \E c \in Cleaners : ListOld(c) \/ RemoveOld(c) \/ ListAgain(c) \/ RemoveOldest(c) \/ EndClean(c)

Spec == Init /\ [][Next]_vars

-----------------------------------------------------------------------------
(* Properties *)

TypeOK ==
  /\ sessions \in Seq(Tasks) /\ Len(sessions) <= MaxSessions
  /\ \A f \in Files : log[f].gen \in 0 .. MaxEntries /\ log[f].time \in 0 .. MaxEntries
  /\ \A w \in Writers : writer[w].pc \in {"idle", "ready", "open", "half"} /\ writer[w].file \in Files
  /\ \A c \in Cleaners : cleaner[c].phase \in {"idle", "age", "capacity"}
  /\ mixed \subseteq Files

\* Whoever else appends to it, and however often it is removed under the hands of
\* its writers, a log reads as every entry completed since it was created, in order
\* and on lines of their own, and the entry whose newline is still to come, unless
\* one of them was torn or two were written at once (io.rs:77, 88, 105).
LogComplete ==
  \A f \in Existing \ mixed :
    /\ Halfway(f) = {} => Readable(log[f].pieces) = finished[f]
    /\ \A w \in Halfway(f) : Readable(log[f].pieces) = Append(finished[f], writer[w].entry)

\* A cleanup whose removals all succeed leaves the logs it found within their
\* capacity, has removed the oldest and not one more than it had to
\* (retention.rs:63).
CapacityKept ==
  \A c \in Cleaners : Cleaned(c) /\ cleaner[c].all =>
    /\ Listing = Left(c) => Total(Listing) <= Capacity
    /\ cleaner[c].done # {} => \E l \in cleaner[c].done :
         /\ Total(Left(c)) + l.size > Capacity
         /\ \A k \in Left(c), d \in cleaner[c].done : d.time <= l.time /\ l.time <= k.time

\* The evolver reads the worker's log of a work item (evolver skills.rs:20): once a
\* reply is recorded there is one under the name it looks for.
EvolverReadsLog ==
  \A t \in Tasks, n \in DOMAIN sessions :
    sessions[n] = t /\ finished[GooseId(n)] # <<>> => log[TaskId(t)].gen # 0

\* Only logs older than the limit are removed for their age (retention.rs:49).
OnlyOldRemoved ==
  [][\A c \in Cleaners, f \in Existing :
       RemoveOld(c) /\ log'[f].gen = 0 => log[f].time < cleaner[c].cutoff]_vars

=============================================================================
