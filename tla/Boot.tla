-------------------------------- MODULE Boot --------------------------------
(***************************************************************************)
(* How a process boots the machine it takes its snapshot of: the kernel    *)
(* and the shell tools, downloaded into a cache directory that all         *)
(* processes share; kernel, initramfs and device tree placed in the        *)
(* machine's memory; the loop that runs the guest until it prints its      *)
(* marker, with a watchdog thread for a guest that does not come back.     *)
(* A file is its content, whole or cut off, which an error, a full disk or *)
(* a kill may leave; names move between inodes by rename.                  *)
(***************************************************************************)
EXTENDS Naturals, FiniteSets

CONSTANTS
  Procs,
  PageBytes, Ram,            \* sizes of a page (4096, not 0) and of the memory (256 MB)
  FileSizes, ImageSizes,     \* of the kernel file, and of the kernel with its BSS
  ArchiveSizes, TreeSizes,   \* of initramfs and device tree
  MaxBoots,                  \* bound: boots
  MaxMishaps                 \* bound: downloads and writes that fail, processes killed

BootAssumption ==
  /\ IsFiniteSet(Procs)
  /\ PageBytes \in Nat \ {0} /\ Ram \in Nat
  /\ FileSizes \cup ImageSizes \cup ArchiveSizes \cup TreeSizes \subseteq Nat
  /\ {MaxBoots, MaxMishaps} \subseteq Nat

Custom == "Image.custom"
Image == "Image"
Vmlinuz == "vmlinuz-virt"
Busybox == "busybox"
FileNames == {Custom, Image, Vmlinuz, Busybox, "boot/vmlinuz-virt", "bin/busybox.static"}

\* Where tar leaves what is to become `name`.
Extracted(name) == IF name = Vmlinuz THEN "boot/vmlinuz-virt" ELSE "bin/busybox.static"

None == 0
Inodes == 1 .. Cardinality(FileNames) + Cardinality(Procs)
Contents == {"free", "cut", "whole"}

VARIABLES
  dir,      \* name -> inode, or None
  content,  \* inode -> Contents
  pc,       \* process -> where it is
  my,       \* process -> its locals
  late,     \* process -> the boot loop's time is up
  dog,      \* process -> its watchdog is watching
  kick,     \* process -> its vCPU was told to leave the guest
  boots, mishaps,
  cutShort, \* history: writing Image was cut short
  early     \* history: processes whose watchdog was ahead of the loop's clock

files == <<dir, content>>
loop == <<late, dog, kick, early>>
counts == <<boots, mishaps>>
vars == <<files, pc, my, loop, counts, cutShort>>

NoPlan == [kernel |-> 0, initrd |-> <<0, 0>>, tree |-> <<0, 0>>]
Fresh == [fd |-> None, kernel |-> "free", line |-> "", plan |-> NoPlan]

At(p, l) == pc[p] = l
Goto(p, l) == pc' = [pc EXCEPT ![p] = l]
Put(p, field, v) == my' = [my EXCEPT ![p][field] = v]

Read(name) == IF dir[name] = None THEN "free" ELSE content[dir[name]]
Unused == CHOOSE i \in Inodes : (\A n \in FileNames : dir[n] # i) /\ (\A p \in Procs : my[p].fd # i)

\* Writing Image is cut short if the process stops while it has it open.
StopsWriting(p) == cutShort' = (cutShort \/ At(p, "image"))

\* Every error of boot() gives the memory back; the watchdog's guard is dropped,
\* and the watchdog may have looked at it for the last time just before.
Leave(p) ==
  /\ Goto(p, "idle")
  /\ my' = [my EXCEPT ![p] = Fresh]
  /\ late' = [late EXCEPT ![p] = FALSE]
  /\ \E stray \in {FALSE, dog[p]} : kick' = [kick EXCEPT ![p] = stray]
  /\ dog' = [dog EXCEPT ![p] = FALSE]
  /\ early' = early \ {p}

Mishap == mishaps < MaxMishaps /\ mishaps' = mishaps + 1

-----------------------------------------------------------------------------
(* The cache *)

\* ensure_kernel(): a kernel of one's own, the one in the cache, or a download.
EnsureKernel(p) ==
  /\ At(p, "idle") /\ boots < MaxBoots
  /\ boots' = boots + 1
  /\ Goto(p, IF dir[Custom] # None \/ dir[Image] # None THEN "load" ELSE "download")
  /\ UNCHANGED <<files, my, loop, mishaps, cutShort>>

\* curl | tar: tar makes a new file of the name in the archive.
StartTar(p, name) ==
  /\ dir' = [dir EXCEPT ![Extracted(name)] = Unused]
  /\ content' = [content EXCEPT ![Unused] = "cut"]
  /\ Put(p, "fd", Unused)

FinishTar(p) ==
  /\ content' = [content EXCEPT ![my[p].fd] = "whole"]
  /\ Put(p, "fd", None)
  /\ UNCHANGED dir

\* rename() of what is now under that name.
MoveTo(name) ==
  /\ dir[Extracted(name)] # None
  /\ dir' = [dir EXCEPT ![name] = dir[Extracted(name)], ![Extracted(name)] = None]
  /\ UNCHANGED content

DownloadKernel(p) ==
  /\ \/ At(p, "download") /\ StartTar(p, Vmlinuz) /\ Goto(p, "extracting")
     \/ At(p, "extracting") /\ FinishTar(p) /\ Goto(p, "extracted")
     \/ At(p, "extracted") /\ MoveTo(Vmlinuz) /\ Goto(p, "unzip") /\ UNCHANGED my
  /\ UNCHANGED <<loop, counts, cutShort>>

\* No network, a server's error, a file that another process has moved away.
DownloadFails(p) ==
  /\ \/ pc[p] \in {"download", "extracting"} /\ Mishap
     \/ At(p, "extracted") /\ dir[Extracted(Vmlinuz)] = None /\ UNCHANGED mishaps
  /\ Leave(p)
  /\ UNCHANGED <<files, boots, cutShort>>

\* std::fs::write() of Image: in place.
OpenImage(p) ==
  LET i == IF dir[Image] = None THEN Unused ELSE dir[Image] IN
    /\ dir' = [dir EXCEPT ![Image] = i]
    /\ content' = [content EXCEPT ![i] = "cut"]
    /\ Put(p, "fd", i)
    /\ Goto(p, "image")

\* Mutant of Unzip: the payload's bounds and checksum are not looked at.
UnzipUnchecked(p) ==
  /\ At(p, "unzip") /\ Read(Vmlinuz) # "free"
  /\ LET i == IF dir[Image] = None THEN Unused ELSE dir[Image] IN
       /\ dir' = [dir EXCEPT ![Image] = i]
       /\ content' = [content EXCEPT ![i] = Read(Vmlinuz)]
       /\ UNCHANGED my /\ Goto(p, "unlink")
  /\ UNCHANGED <<loop, counts, cutShort>>

\* decompress_zboot(): a file that is cut off fails the checks of its payload.
Unzip(p) ==
  /\ At(p, "unzip") /\ Read(Vmlinuz) = "whole"
  /\ OpenImage(p)
  /\ UNCHANGED <<loop, counts, cutShort>>

UnzipFails(p) ==
  /\ At(p, "unzip") /\ Read(Vmlinuz) # "whole"
  /\ Leave(p)
  /\ UNCHANGED <<files, counts, cutShort>>

\* Of two writers the last one leaves the file whole: they write the same bytes.
WriteImage(p) ==
  /\ At(p, "image")
  /\ content' = [content EXCEPT ![my[p].fd] = IF \E q \in Procs \ {p} : my[q].fd = my[p].fd
                                              THEN "cut" ELSE "whole"]
  /\ Put(p, "fd", None)
  /\ Goto(p, "unlink")
  /\ UNCHANGED <<dir, loop, counts, cutShort>>

\* The disk is full.
WriteFails(p) ==
  /\ At(p, "image") /\ Mishap
  /\ StopsWriting(p)
  /\ Leave(p)
  /\ UNCHANGED <<files, boots>>

Unlink(p) ==
  /\ At(p, "unlink")
  /\ dir' = [dir EXCEPT ![Vmlinuz] = None]
  /\ Goto(p, "load")
  /\ UNCHANGED <<content, my, loop, counts, cutShort>>

-----------------------------------------------------------------------------
(* Memory *)

LoadKernel(p) ==
  /\ At(p, "load")
  /\ Put(p, "kernel", Read(IF dir[Custom] # None THEN Custom ELSE Image))
  /\ Goto(p, "tools")
  /\ UNCHANGED <<files, loop, counts, cutShort>>

\* load_busybox(): the tools in the cache, or a download that may fail.
LoadBusybox(p) ==
  /\ \/ /\ At(p, "tools") /\ dir[Busybox] # None
        /\ Goto(p, "place") /\ UNCHANGED <<files, my>>
     \/ /\ At(p, "tools") /\ dir[Busybox] = None
        /\ StartTar(p, Busybox) /\ Goto(p, "fetching")
     \/ At(p, "fetching") /\ FinishTar(p) /\ Goto(p, "fetched")
     \/ At(p, "fetched") /\ MoveTo(Busybox) /\ Goto(p, "tools") /\ UNCHANGED my
  /\ UNCHANGED <<loop, counts, cutShort>>

\* No guest init, hence no initramfs to put them in; or no tools: the machine boots
\* without them.
NoBusybox(p) ==
  /\ \/ At(p, "tools") /\ UNCHANGED mishaps
     \/ At(p, "fetching") /\ Mishap
     \/ At(p, "fetched") /\ dir[Extracted(Busybox)] = None /\ UNCHANGED mishaps
  /\ Put(p, "fd", None)
  /\ Goto(p, "place")
  /\ UNCHANGED <<files, loop, boots, cutShort>>

Align(x) == ((x + PageBytes - 1) \div PageBytes) * PageBytes

\* Offsets in memory; an initramfs that does not fit is left out.  Size 0: there
\* is no guest init to put in one.
LayoutByFile(file, image, archive, tree) ==
  LET start == Align(file)
      fits  == archive > 0 /\ start + archive <= Ram
      base  == Align(IF fits THEN start + archive ELSE file)
  IN [kernel |-> IF image > file THEN image ELSE file,
      initrd |-> IF fits THEN <<start, start + archive>> ELSE <<0, 0>>,
      tree |-> <<base, base + tree>>]

Layout(file, image, archive, tree) ==
  LET end   == IF image > file THEN image ELSE file
      start == Align(end)
      fits  == archive > 0 /\ start + archive <= Ram
      base  == Align(IF fits THEN start + archive ELSE end)
  IN [kernel |-> end,
      initrd |-> IF fits THEN <<start, start + archive>> ELSE <<0, 0>>,
      tree |-> <<base, base + tree>>]

\* load_kernel() and the device tree fail when they do not fit.
Place(p) ==
  /\ At(p, "place")
  /\ \E file \in FileSizes, image \in ImageSizes, archive \in ArchiveSizes, tree \in TreeSizes :
       LET plan == Layout(file, image, archive, tree) IN
         IF file <= Ram /\ plan.tree[2] <= Ram
         THEN Put(p, "plan", plan) /\ Goto(p, "create") /\ UNCHANGED loop
         ELSE Leave(p)
  /\ UNCHANGED <<files, counts, cutShort>>

-----------------------------------------------------------------------------
(* The boot loop *)

\* Machine, interrupt controller, vCPU and its registers: any of them may fail.
CreateMachine(p) ==
  /\ At(p, "create")
  /\ \/ /\ Goto(p, "check")
        /\ Put(p, "plan", NoPlan)
        /\ dog' = [dog EXCEPT ![p] = TRUE]
        /\ UNCHANGED <<late, kick, early>>
     \/ Leave(p)
  /\ UNCHANGED <<files, counts, cutShort>>

TimeIsUp(p) ==
  /\ pc[p] \in {"check", "running"} /\ ~late[p]
  /\ late' = [late EXCEPT ![p] = TRUE]
  /\ UNCHANGED <<files, pc, my, dog, kick, early, counts, cutShort>>

\* Mutant of WatchdogFires: it looks at its cancel flag the wrong way round.
WatchdogSleeps(p) ==
  /\ dog[p]
  /\ dog' = [dog EXCEPT ![p] = FALSE]
  /\ UNCHANGED <<files, pc, my, late, kick, early, counts, cutShort>>

\* The watchdog counts from its own start, which is before or after the loop's; a
\* vCPU that is not in the guest leaves it at once when it enters.
WatchdogFires(p) ==
  /\ dog[p]
  /\ dog' = [dog EXCEPT ![p] = FALSE]
  /\ kick' = [kick EXCEPT ![p] = TRUE]
  /\ early' = IF late[p] THEN early ELSE early \cup {p}
  /\ UNCHANGED <<files, pc, my, late, counts, cutShort>>

Check(p) ==
  /\ At(p, "check")
  /\ IF late[p] THEN Leave(p) ELSE Goto(p, "running") /\ UNCHANGED <<my, loop>>
  /\ UNCHANGED <<files, counts, cutShort>>

\* Device, timer, WFI, hypercall and system register exits are handled and the loop
\* goes on; an exit it does not know ends it with an error.
GuestExits(p) ==
  /\ At(p, "running")
  /\ \/ Goto(p, "check") /\ UNCHANGED <<my, loop>>
     \/ Leave(p)
  /\ UNCHANGED <<files, counts, cutShort>>

\* A byte for the serial port; a kernel that is cut off never gets to the marker.
GuestPrints(p) ==
  /\ At(p, "running")
  /\ \E text \in {""} \cup (IF my[p].kernel = "whole" THEN {"SNAPSHOT"} ELSE {}) :
       Put(p, "line", IF my[p].line = "SNAPSHOT" THEN my[p].line ELSE text)
  /\ Goto(p, "check")
  /\ UNCHANGED <<files, loop, counts, cutShort>>

\* A line is complete: run_until_marker() returns if it has the marker in it.
GuestEndsLine(p) ==
  /\ At(p, "running")
  /\ IF my[p].line = "SNAPSHOT" THEN Leave(p)
     ELSE Put(p, "line", "") /\ Goto(p, "check") /\ UNCHANGED loop
  /\ UNCHANGED <<files, counts, cutShort>>

\* HV_EXIT_REASON_CANCELED: once more.
Cancelled(p) ==
  /\ At(p, "running") /\ kick[p]
  /\ kick' = [kick EXCEPT ![p] = FALSE]
  /\ Goto(p, "check")
  /\ UNCHANGED <<files, my, late, dog, early, counts, cutShort>>

Kill(p) ==
  /\ ~At(p, "idle") /\ Mishap
  /\ StopsWriting(p)
  /\ Leave(p)
  /\ UNCHANGED <<files, boots>>

-----------------------------------------------------------------------------

Init ==
  /\ \E own \in BOOLEAN :
       /\ dir = [n \in FileNames |-> IF own /\ n = Custom THEN 1 ELSE None]
       /\ content = [i \in Inodes |-> IF own /\ i = 1 THEN "whole" ELSE "free"]
  /\ pc = [p \in Procs |-> "idle"]
  /\ my = [p \in Procs |-> Fresh]
  /\ late = [p \in Procs |-> FALSE]
  /\ dog = [p \in Procs |-> FALSE]
  /\ kick = [p \in Procs |-> FALSE]
  /\ boots = 0 /\ mishaps = 0
  /\ cutShort = FALSE
  /\ early = {}

\* What the process does by itself, and its clock; the guest is not part of it.
Host(p) ==
  \/ DownloadKernel(p) \/ DownloadFails(p) \/ Unzip(p) \/ UnzipFails(p) \/ WriteImage(p) \/ WriteFails(p)
  \/ Unlink(p) \/ LoadKernel(p) \/ LoadBusybox(p) \/ NoBusybox(p) \/ Place(p)
  \/ CreateMachine(p) \/ Check(p) \/ Cancelled(p)

Next ==
  \E p \in Procs :
    \/ EnsureKernel(p) \/ Host(p)
    \/ TimeIsUp(p) \/ WatchdogFires(p)
    \/ GuestExits(p) \/ GuestPrints(p) \/ GuestEndsLine(p)
    \/ Kill(p)

Spec == Init /\ [][Next]_vars

\* Processes and watchdogs are scheduled, time passes, curl has a time limit.
\* Nothing is asked of the guest.
Fairness ==
  \A p \in Procs : WF_vars(Host(p)) /\ WF_vars(TimeIsUp(p)) /\ WF_vars(WatchdogFires(p))

FairSpec == Spec /\ Fairness

-----------------------------------------------------------------------------
(* Properties *)

TypeOK ==
  /\ dir \in [FileNames -> {None} \cup Inodes]
  /\ content \in [Inodes -> Contents]
  /\ \A p \in Procs : my[p].fd \in {None} \cup Inodes
  /\ late \in [Procs -> BOOLEAN] /\ dog \in [Procs -> BOOLEAN] /\ kick \in [Procs -> BOOLEAN]
  /\ early \subseteq Procs

\* Downloads of several processes share their temporary names and take files
\* from each other; an Image nobody is writing is whole all the same, unless
\* writing it was cut short (boot.rs:47, 217).
ImageWhole ==
  dir[Image] # None /\ (\A p \in Procs : my[p].fd # dir[Image])
    => content[dir[Image]] = "whole" \/ cutShort

\* Kernel with its BSS, initramfs and device tree lie in memory, in this order
\* and apart, whatever their sizes (boot.rs:291, 319).
PlacedApart ==
  \A p \in Procs : my[p].plan # NoPlan =>
    LET plan == my[p].plan IN
      /\ plan.kernel <= plan.tree[1] /\ plan.tree[2] <= Ram
      /\ plan.initrd # <<0, 0>> =>
           plan.kernel <= plan.initrd[1] /\ plan.initrd[2] <= plan.tree[1]

\* A boot ends whatever the guest does, one that never leaves the vCPU included,
\* unless the watchdog's only kick came before the loop's time was up (boot.rs:443).
BootEnds == \A p \in Procs : ~At(p, "idle") ~> At(p, "idle") \/ p \in early

\* The same without the exception.
AlwaysEnds == \A p \in Procs : ~At(p, "idle") ~> At(p, "idle")
=============================================================================
