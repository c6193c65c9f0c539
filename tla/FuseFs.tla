------------------------------- MODULE FuseFs -------------------------------
(***************************************************************************)
(* The file system of a sandbox: VirtioFs with its inode and handle        *)
(* tables, which answers FUSE requests of the guest's kernel from a        *)
(* worktree of the host, and the host's other programs, which change that  *)
(* worktree meanwhile.  A request is answered inside the exit its          *)
(* notification causes; the guest learns of the answer later, when it      *)
(* takes the interrupt, and sends FORGETs from a work queue of its own.    *)
(* The guest's kernel is not in the repository: it is modelled as a FUSE   *)
(* client that counts lookups.  READDIR gives it no reference.             *)
(***************************************************************************)
EXTENDS Integers, FiniteSets, SequencesExt

CONSTANTS
  Names,       \* names of directory entries, numbered in the order read_dir() lists them
  InitTree,    \* the worktree at first: a function from paths
  PageSize,    \* directory entries that fit one answer
  MaxIds,      \* bound: node ids given out
  MaxHandles,  \* bound: files and directories opened
  MaxReplies,  \* bound: answers the guest has not looked at
  MaxRefs,     \* bound: references the guest holds, is about to get or to give back
  MaxChanges   \* bound: changes of the worktree

ASSUME FuseFsAssumption ==
  /\ IsFiniteSet(Names) /\ Names = 1 .. Cardinality(Names)
  /\ IsFiniteSet(DOMAIN InitTree) /\ InitTree \in [DOMAIN InitTree -> Nat]
  /\ {MaxIds, MaxHandles, MaxReplies, MaxRefs, MaxChanges} \subseteq Nat
  /\ MaxIds >= 1       \* the root has an id
  /\ PageSize \in Nat \ {0}

Root == 1
NoName == 0       \* what does not parse as a single normal path component
Top == <<>>
Dir == 0          \* in the tree: a directory; a file is a number > 0

Ids == 1 .. MaxIds
Fhs == 1 .. MaxHandles
Depth == 2        \* bound: levels of the worktree
Paths == UNION {[1 .. n -> Names] : n \in 0 .. Depth}

VARIABLES
  inodes,     \* entries: node id -> [path, refs]
  nextIno,
  pathIno,    \* path_to_ino
  handles,    \* fh -> [ino, file]
  nextFh,
  tree,       \* host: path -> Dir or the number of a file
  changes,    \* host: changes made so far
  replies,    \* answers in the used ring that the client acts on, oldest first
  nlookup,    \* guest: references it knows of, by id
  forgets,    \* guest: FORGETs it has not sent, as [ino, count]
  opened,     \* guest: fh -> [ino, path, file], as they were at the OPEN
  listing,    \* guest: the directory stream it is reading
  listed      \* history: references given with directory entries

server == <<inodes, nextIno, pathIno, handles, nextFh>>
client == <<nlookup, forgets, opened, listing>>
world  == <<tree, changes>>
vars == <<server, world, replies, client, listed>>

-----------------------------------------------------------------------------
(* InodeTable and HandleTable.                                             *)

\* HashMap::insert()
Put(map, key, value) == [k \in DOMAIN map \cup {key} |-> IF k = key THEN value ELSE map[k]]

NewInodes(p) ==
  [inodes |-> [i \in {Root} |-> [path |-> p, refs |-> 1]], nextIno |-> 2, pathIno |-> [q \in {p} |-> Root]]
Table == [inodes |-> inodes, nextIno |-> nextIno, pathIno |-> pathIno]

Has(ino)    == ino \in DOMAIN inodes
PathOf(ino) == inodes[ino].path

\* Mutant of LookupIn: a new id is the number of live ones plus one.
LookupInReusing(t, parent, name) ==
  LET p == Append(t.inodes[parent].path, name)
      n == Cardinality(DOMAIN t.inodes) + 1
  IN  IF p \in DOMAIN t.pathIno
      THEN [t EXCEPT !.inodes[t.pathIno[p]].refs = @ + 1]
      ELSE [inodes  |-> Put(t.inodes, n, [path |-> p, refs |-> 1]),
            nextIno |-> Max({t.nextIno, n + 1}),
            pathIno |-> Put(t.pathIno, p, n)]

\* Mutant of LookupIn: a path that is known counts no further reference.
LookupInUncounted(t, parent, name) ==
  LET p == Append(t.inodes[parent].path, name) IN
    IF p \in DOMAIN t.pathIno THEN t
    ELSE [inodes  |-> Put(t.inodes, t.nextIno, [path |-> p, refs |-> 1]),
          nextIno |-> t.nextIno + 1,
          pathIno |-> Put(t.pathIno, p, t.nextIno)]

\* lookup(): the id of a child, a new one if its path has none, one reference more.
LookupIn(t, parent, name) ==
  LET p == Append(t.inodes[parent].path, name) IN
    IF p \in DOMAIN t.pathIno
    THEN [t EXCEPT !.inodes[t.pathIno[p]].refs = @ + 1]
    ELSE [inodes  |-> Put(t.inodes, t.nextIno, [path |-> p, refs |-> 1]),
          nextIno |-> t.nextIno + 1,
          pathIno |-> Put(t.pathIno, p, t.nextIno)]

\* forget(): saturating, never for the root; the last reference removes both entries.
ForgetIn(t, ino, n) ==
  IF ino = Root \/ ino \notin DOMAIN t.inodes THEN t
  ELSE IF t.inodes[ino].refs > n THEN [t EXCEPT !.inodes[ino].refs = @ - n]
  ELSE [t EXCEPT !.inodes  = Restrict(@, DOMAIN @ \ {ino}),
                 !.pathIno = Restrict(@, DOMAIN @ \ {t.inodes[ino].path})]

\* The table after a lookup of each of these children in turn.
LookupAll(t, parent, children) ==
  LET after[k \in 0 .. Len(children)] ==
        IF k = 0 THEN t ELSE LookupIn(after[k - 1], parent, children[k])
  IN after[Len(children)]

Become(t) == inodes' = t.inodes /\ nextIno' = t.nextIno /\ pathIno' = t.pathIno

Exists(p) == p \in DOMAIN tree
IsDir(p)  == Exists(p) /\ tree[p] = Dir

\* read_dir(): the names in a directory, in a fixed order.
Entries(p) ==
  LET upto[n \in Nat] ==
        IF n = 0 THEN <<>> ELSE IF Exists(Append(p, n)) THEN Append(upto[n - 1], n) ELSE upto[n - 1]
  IN upto[Cardinality(Names)]

-----------------------------------------------------------------------------
(* dispatch_fuse(): one action per request that touches the tables.  The   *)
(* client asks about ids it holds, and reads files it has open.            *)

CanAsk    == Len(replies) < MaxReplies
Answer(r) == replies' = Append(replies, r)

\* Answers the client only hands to the program that asked are not kept.
Refuse(errno) == UNCHANGED replies
Done == UNCHANGED replies

NoListing == [state |-> "none", fh |-> 0, pos |-> 0, got |-> <<>>, dirty |-> FALSE]

Knows(ino) == ino = Root \/ nlookup[ino] > 0

Replied(op) == {r \in ToSet(replies) : r.op = op}

SumOf(s) == LET upto[k \in 0 .. Len(s)] == IF k = 0 THEN 0 ELSE upto[k - 1] + s[k] IN upto[Len(s)]
InFlight(ino) == SumOf([k \in DOMAIN replies |-> IF replies[k].op = "entry" /\ replies[k].ino = ino THEN 1 ELSE 0])
Owed(ino)     == SumOf([k \in DOMAIN forgets |-> IF forgets[k].ino = ino THEN forgets[k].count ELSE 0])

Lookup(parent, name) ==
  /\ CanAsk
  /\ Knows(parent)
  /\ nextIno \in Ids
  /\ SumFunction(nlookup) + Len(replies) + Len(forgets) < MaxRefs
  /\ IF name = NoName \/ ~Has(parent)
     THEN Refuse("ENOENT") /\ UNCHANGED <<inodes, nextIno, pathIno>>
     ELSE LET t == LookupIn(Table, parent, name)
              p == Append(PathOf(parent), name)
          IN  IF t.pathIno[p] \notin DOMAIN t.inodes THEN Become(t) /\ Refuse("ENOENT")
              ELSE IF Exists(p)
              THEN Become(t) /\ Answer([op |-> "entry", ino |-> t.pathIno[p]])
              ELSE Become(ForgetIn(t, t.pathIno[p], 1)) /\ Refuse("ENOENT")
  /\ UNCHANGED <<handles, nextFh, world, client, listed>>

\* By path, also for an id whose file is open.
Getattr(ino) ==
  /\ CanAsk
  /\ Knows(ino)
  /\ IF Has(ino) /\ Exists(PathOf(ino)) THEN Done ELSE Refuse("ENOENT")
  /\ UNCHANGED <<server, world, client, listed>>

\* Mutant of Open: the number of a handle is that of its node.
OpenByNode(ino) ==
  /\ CanAsk
  /\ Knows(ino)
  /\ nextFh \in Fhs
  /\ IF Has(ino) /\ Exists(PathOf(ino))
     THEN /\ handles' = Put(handles, ino, [ino |-> ino, file |-> tree[PathOf(ino)]])
          /\ nextFh' = nextFh + 1
          /\ Answer([op |-> "open", fh |-> ino, ino |-> ino, path |-> PathOf(ino), file |-> tree[PathOf(ino)]])
     ELSE Refuse("EIO") /\ UNCHANGED <<handles, nextFh>>
  /\ UNCHANGED <<inodes, nextIno, pathIno, world, client, listed>>

\* OPEN and OPENDIR: a file is opened now, a directory when it is read.
Open(ino) ==
  /\ CanAsk
  /\ Knows(ino)
  /\ nextFh \in Fhs
  /\ IF Has(ino) /\ Exists(PathOf(ino))
     THEN /\ handles' = Put(handles, nextFh, [ino |-> ino, file |-> tree[PathOf(ino)]])
          /\ nextFh' = nextFh + 1
          /\ Answer([op |-> "open", fh |-> nextFh, ino |-> ino, path |-> PathOf(ino), file |-> tree[PathOf(ino)]])
     ELSE Refuse("EIO") /\ UNCHANGED <<handles, nextFh>>
  /\ UNCHANGED <<inodes, nextIno, pathIno, world, client, listed>>

\* From the file that was opened, whatever its path means by now.
Read(fh) ==
  /\ CanAsk
  /\ fh \in DOMAIN opened
  /\ IF fh \notin DOMAIN handles THEN Refuse("EBADF")
     ELSE IF ~Has(handles[fh].ino) THEN Refuse("ENOENT")
     ELSE IF handles[fh].file = Dir THEN Refuse("EIO")
     ELSE Answer([op |-> "data", fh |-> fh, file |-> handles[fh].file])
  /\ UNCHANGED <<server, world, client, listed>>

\* The entries after position offset that fit.
Page(p, offset) == SubSeq(Entries(p), offset + 1, Min({offset + PageSize, Len(Entries(p))}))

\* READDIR, of the directory as it is now; every entry given is looked up.
Readdir ==
  /\ CanAsk
  /\ listing.state = "reading"
  /\ LET fh == listing.fh IN
     IF fh \notin DOMAIN handles \/ ~Has(handles[fh].ino) \/ ~IsDir(PathOf(handles[fh].ino))
     THEN Answer([op |-> "nopage"]) /\ UNCHANGED <<inodes, nextIno, pathIno, listed>>
     ELSE LET ino  == handles[fh].ino
              page == Page(PathOf(ino), listing.pos)
              t    == LookupAll(Table, ino, page)
              given(i) == {k \in DOMAIN page : t.pathIno[Append(PathOf(ino), page[k])] = i}
          IN  /\ t.nextIno <= MaxIds + 1
              /\ Become(t)
              /\ listed' = [i \in Ids |-> listed[i] + Cardinality(given(i))]
              /\ Answer([op |-> "page", names |-> page])
  /\ listing' = [listing EXCEPT !.state = "waiting"]
  /\ UNCHANGED <<handles, nextFh, world, nlookup, forgets, opened>>

\* RELEASE and RELEASEDIR, once nothing is being read.
Release(fh) ==
  /\ CanAsk
  /\ fh \in DOMAIN opened
  /\ \A r \in Replied("data") : r.fh # fh
  /\ ~(listing.fh = fh /\ listing.state = "waiting")
  /\ handles' = Restrict(handles, DOMAIN handles \ {fh})
  /\ opened' = Restrict(opened, DOMAIN opened \ {fh})
  /\ listing' = IF listing.fh = fh THEN NoListing ELSE listing
  /\ Done
  /\ UNCHANGED <<inodes, nextIno, pathIno, nextFh, world, nlookup, forgets, listed>>

\* FORGET has no answer, on the request queue or on the high-priority queue.
Forget(k) ==
  /\ Become(ForgetIn(Table, forgets[k].ino, forgets[k].count))
  /\ forgets' = RemoveAt(forgets, k)
  /\ UNCHANGED <<handles, nextFh, world, replies, nlookup, opened, listing, listed>>

\* Requests that are refused or granted without a look at any table.
Refused == {"WRITE", "CREATE", "MKDIR", "UNLINK", "RMDIR", "RENAME"}
Granted == {"INIT", "FLUSH", "FSYNC", "ACCESS", "DESTROY"}
Other   == {"GETXATTR", "LISTXATTR", "STATFS", "MALFORMED", "UNKNOWN"}
Fixed(opcode) ==
  /\ CanAsk
  /\ CASE opcode \in Refused                   -> Refuse("EROFS")
       [] opcode \in Granted                   -> Done
       [] opcode \in {"GETXATTR", "LISTXATTR"} -> Refuse("EOPNOTSUPP")
       [] opcode = "STATFS"                    -> IF Exists(PathOf(Root)) THEN Done ELSE Refuse("EIO")
       [] opcode = "MALFORMED"                 -> Refuse("EIO")
       [] OTHER                                -> Refuse("ENOSYS")
  /\ UNCHANGED <<server, world, client, listed>>

-----------------------------------------------------------------------------
(* The guest's kernel as a client.                                         *)

\* It takes the oldest answer.
Take ==
  /\ replies # <<>>
  /\ replies' = Tail(replies)
  /\ LET r == Head(replies) IN
       /\ nlookup' = IF r.op = "entry" THEN [nlookup EXCEPT ![r.ino] = @ + 1] ELSE nlookup
       /\ opened' = IF r.op = "open"
                    THEN Put(opened, r.fh, [ino |-> r.ino, path |-> r.path, file |-> r.file]) ELSE opened
       /\ listing' = CASE r.op = "nopage" -> NoListing
                       [] r.op = "page" /\ r.names = <<>> -> [listing EXCEPT !.state = "done"]
                       [] r.op = "page" /\ r.names # <<>> ->
                            [listing EXCEPT !.state = "reading", !.pos = @ + Len(r.names), !.got = @ \o r.names]
                       [] OTHER -> listing
  /\ UNCHANGED <<server, world, forgets, listed>>

\* An id nobody uses leaves the guest's cache; its FORGET goes out later.
Evict(ino) ==
  /\ nlookup[ino] > 0
  /\ \A fh \in DOMAIN opened : opened[fh].ino # ino
  /\ \A r \in Replied("open") : r.ino # ino
  /\ forgets' = Append(forgets, [ino |-> ino, count |-> nlookup[ino]])
  /\ nlookup' = [nlookup EXCEPT ![ino] = 0]
  /\ UNCHANGED <<server, world, replies, opened, listing, listed>>

\* A program starts to read an open directory.
List(fh) ==
  /\ fh \in DOMAIN opened
  /\ opened[fh].file = Dir
  /\ listing = NoListing
  /\ listing' = [state |-> "reading", fh |-> fh, pos |-> 0, got |-> <<>>, dirty |-> FALSE]
  /\ UNCHANGED <<server, world, replies, nlookup, forgets, opened, listed>>

-----------------------------------------------------------------------------
(* The host.                                                               *)

Change(t) ==
  /\ changes < MaxChanges
  /\ changes' = changes + 1
  /\ tree' = t
  /\ listing' = [listing EXCEPT !.dirty = listing # NoListing]
  /\ UNCHANGED <<server, replies, nlookup, forgets, opened, listed>>

NewFile == Cardinality(DOMAIN InitTree) + changes + 1

\* A file is created, or put in the place of another; a directory is made.
Write(p) == p # Top /\ IsDir(Front(p)) /\ ~IsDir(p) /\ Change(Put(tree, p, NewFile))
Mkdir(p) == Len(p) \in 1 .. Depth - 1 /\ IsDir(Front(p)) /\ ~Exists(p) /\ Change(Put(tree, p, Dir))

\* A file or a directory goes, with what is in it.
Delete(p) == p # Top /\ Exists(p) /\ Change(Restrict(tree, {q \in DOMAIN tree : ~IsPrefix(p, q)}))

\* The pool resets the machine, guest and all, and set_root() starts new tables.
SetRoot ==
  /\ Become(NewInodes(Top))
  /\ handles' = <<>>
  /\ nextFh' = 1
  /\ replies' = <<>>
  /\ nlookup' = [i \in Ids |-> 0]
  /\ forgets' = <<>>
  /\ opened' = <<>>
  /\ listing' = NoListing
  /\ listed' = [i \in Ids |-> 0]
  /\ UNCHANGED <<tree, changes>>

-----------------------------------------------------------------------------

Init ==
  /\ inodes = NewInodes(Top).inodes
  /\ nextIno = NewInodes(Top).nextIno
  /\ pathIno = NewInodes(Top).pathIno
  /\ handles = <<>>
  /\ nextFh = 1
  /\ tree = InitTree
  /\ changes = 0
  /\ replies = <<>>
  /\ nlookup = [i \in Ids |-> 0]
  /\ forgets = <<>>
  /\ opened = <<>>
  /\ listing = NoListing
  /\ listed = [i \in Ids |-> 0]

Request ==
  \/ \E parent \in Ids, name \in Names \cup {NoName} : Lookup(parent, name)
  \/ \E ino \in Ids : Getattr(ino) \/ Open(ino)
  \/ \E fh \in Fhs : Read(fh) \/ Release(fh)
  \/ Readdir
  \/ \E opcode \in Refused \cup Granted \cup Other : Fixed(opcode)
  \/ \E k \in DOMAIN forgets : Forget(k)

Next ==
  \/ Request
  \/ Take
  \/ \E ino \in Ids : Evict(ino)
  \/ \E fh \in Fhs : List(fh)
  \/ \E p \in Paths : Write(p) \/ Mkdir(p) \/ Delete(p)
  \/ SetRoot

Spec == Init /\ [][Next]_vars

-----------------------------------------------------------------------------
(* Properties.                                                             *)

\* The variables range over what the code can put in them.
TypeOK ==
  /\ inodes \in [DOMAIN inodes -> [path : Paths, refs : Nat \ {0}]]
  /\ DOMAIN inodes \subseteq Ids
  /\ pathIno \in [DOMAIN pathIno -> Ids]
  /\ handles \in [DOMAIN handles -> [ino : Ids, file : Nat]]
  /\ nextIno \in 2 .. MaxIds + 1
  /\ nextFh \in 1 .. MaxHandles + 1
  /\ nlookup \in [Ids -> Nat]
  /\ listed \in [Ids -> Nat]
  /\ tree \in [DOMAIN tree -> Nat]

\* The count of an id is what the guest holds, what it is about to get, what it
\* is about to give back, and what listings took: nothing gives those back.
RefsBalance ==
  \A i \in Ids \ {Root} :
    (IF Has(i) THEN inodes[i].refs ELSE 0) = nlookup[i] + InFlight(i) + listed[i] + Owed(i)

\* While a file or directory is open its node id stays in the table and means the
\* path it was opened by, though the host removes the file or lookups fail.
OpenKeepsPath ==
  \A fh \in DOMAIN opened : Has(opened[fh].ino) /\ PathOf(opened[fh].ino) = opened[fh].path

\* An open file is read to the end of its life as it was at the OPEN: never
\* another file at its path, never the file of another handle.
ReadSeesOpened ==
  /\ \A fh \in DOMAIN opened : fh \in DOMAIN handles /\ handles[fh].file = opened[fh].file
  /\ \A r \in Replied("data") : r.file = opened[r.fh].file

\* A listing in pages of a directory that did not change meanwhile has every
\* entry once, wherever the pages end.
ListingComplete ==
  listing.state = "done" /\ ~listing.dirty => listing.got = Entries(opened[listing.fh].path)

\* The guest is shown one consistent worktree, though the host changes it: its open
\* files, what it reads from them and what it lists, all three.
GuestView == OpenKeepsPath /\ ReadSeesOpened /\ ListingComplete

\* To the guest the inode table is FileIds: an id keeps its path while it is
\* live and is never given to another path, not even after it was dropped.
F == INSTANCE FileIds WITH
       path  <- [i \in DOMAIN inodes |-> PathOf(i)],
       spent <- 1 .. nextIno - 1
IdsAreStable == F!Spec
=============================================================================
