------------------------------- MODULE MCHost -------------------------------
(***************************************************************************)
(* Parts of the host on small bounds for TLC: the file system it serves to *)
(* a machine and the machine's boot (GuestSpec), and what processes of one *)
(* user share in the home directory, the logs of conversations and the     *)
(* installed skills (HomeSpec).  The two of a specification share no       *)
(* state, so that one run checks both: whichever moves first, the other    *)
(* stays as it is, and nothing is lost but their interleavings, which mean *)
(* nothing.                                                                *)
(***************************************************************************)
EXTENDS FuseFs

CONSTANTS
  Procs, PageBytes, Ram, FileSizes, ImageSizes, ArchiveSizes, TreeSizes, MaxBoots, MaxMishaps,
  Workers, Chats, Cleaners, Tasks, Capacity, MaxSessions, MaxEntries, MaxTorn,
  SkillNames, Offers, FilesAt, MaxCommands

VARIABLES
  dir, content, pc, my, late, dog, kick, boots, mishaps, cutShort, early,
  sessions, log, writer, cleaner, entries, finished, torn, mixed,
  revision, clone, installed, lock, at, own, commands, failures, alone

Machine == INSTANCE Boot
Logs    == INSTANCE ConversationLog
Store   == INSTANCE SkillStore WITH Names <- SkillNames, pc <- at, my <- own, mishaps <- failures

ASSUME BootAssumption == Machine!BootAssumption
ASSUME ConversationLogAssumption == Logs!ConversationLogAssumption
ASSUME SkillStoreAssumption == Store!SkillStoreAssumption

boot  == <<dir, content, pc, my, late, dog, kick, boots, mishaps, cutShort, early>>
logs  == <<sessions, log, writer, cleaner, entries, finished, torn, mixed>>
store == <<revision, clone, installed, lock, at, own, commands, failures, alone>>
host  == <<vars, boot, logs, store>>

\* A worktree of one directory with two files.
MCInitTree == (<<>> :> Dir) @@ (<<1>> :> Dir) @@ (<<1, 1>> :> 1) @@ (<<1, 2>> :> 2)
MCNoTree == (<<>> :> Dir)

\* Two repositories with a skill of the same name; a revision drops a file.
MCOffers == [r \in {"r", "s"} |-> IF r = "r" THEN {"a", "b"} ELSE {"a"}]
MCFilesAt == <<{"SKILL.md", "extra"}, {"SKILL.md"}>>

\* Processes of a kind are told apart by nothing.
MCSymmetry == Permutations(Procs) \cup Permutations(Chats)

HostInit == Init /\ Machine!Init /\ Logs!Init /\ Store!Init

NoKernelYet == \A i \in Machine!Inodes : content[i] = "free"

GuestInit == HostInit
GuestNext ==
  /\ \/ Machine!Init /\ NoKernelYet /\ Next /\ UNCHANGED boot
     \/ Init /\ Machine!Next /\ UNCHANGED vars
  /\ UNCHANGED <<logs, store>>
GuestSpec == GuestInit /\ [][GuestNext]_host /\ Machine!Fairness

HomeInit == HostInit /\ NoKernelYet
HomeNext ==
  /\ \/ Store!Init /\ Logs!Next /\ UNCHANGED store
     \/ Logs!Init /\ Store!Next /\ UNCHANGED logs
  /\ UNCHANGED <<vars, boot>>
HomeSpec == HomeInit /\ [][HomeNext]_host

ImageWhole == Machine!ImageWhole
PlacedApart == Machine!PlacedApart
BootEnds == Machine!BootEnds
AlwaysEnds == Machine!AlwaysEnds

LogComplete == Logs!LogComplete
CapacityKept == Logs!CapacityKept
EvolverReadsLog == Logs!EvolverReadsLog
OnlyOldRemoved == Logs!OnlyOldRemoved

InstalledWhole == Store!InstalledWhole
UpdatesAll == Store!UpdatesAll
EntriesKept == Store!EntriesKept

=============================================================================
