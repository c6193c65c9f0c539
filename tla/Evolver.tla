------------------------------- MODULE Evolver -------------------------------
(***************************************************************************)
(* opengoose-evolver: every server process runs one evolver.  It waits to  *)
(* be told of a stamp, or five minutes; reads the low stamps that nobody   *)
(* has taken; and for each marks it, counts its score against the skills   *)
(* the rated rig has learned, posts and claims a work item of its own,     *)
(* asks a language model what to do and writes the skill.  When there is   *)
(* nothing to do it may instead sweep the dormant skills.                  *)
(*                                                                         *)
(* The stamp rows and the work items are in the database, the skills in    *)
(* the home directory: the evolvers of several processes share both.  One  *)
(* step is one database call, one read or write of a file or one answer.   *)
(***************************************************************************)
EXTENDS SkillFiles, WorkItem, Sequences

CONSTANTS
  Evolvers,      \* one per server process
  Survivor,      \* one of them whose process is always started again
  Low,           \* the stamps with a score below LOW_STAMP_THRESHOLD
  Targets,       \* rated rigs
  TargetOf,      \* Stamps -> Targets
  DimensionOf,   \* Stamps -> dimension
  Names,         \* skill names
  MaxEvents      \* bound on sweeps, months that pass, crashes, failed writes and
                 \* database calls, and promotions, taken together

ASSUME EvolverAssumption ==
  /\ Stamps # {} /\ Stamps \subseteq Nat \ {0} /\ Low \subseteq Stamps
  /\ TargetOf \in [Stamps -> Targets]
  /\ "global" \notin Targets
  /\ "evolver" \in Rigs /\ Survivor \in Evolvers
  /\ {MaxVersion, MaxEvents} \subseteq Nat

VARIABLES
  stamped,   \* stamps with a row
  evolved,   \* those with evolved_at set
  items,     \* the evolvers' work items, in the order of their ids
  skill,     \* learned skills: place and name -> Files
  ev,        \* the evolvers
  promote,   \* the `skills promote` command that is copying, if any: from where, what
             \* is left to copy, and the metadata it read of its copy, to write it again
  spent,     \* how much of MaxEvents is used
  trouble,   \* history: skills a mishap or an overlap may have left unpaired
  lost       \* history: stamps and items left by a crash or a refused database call

vars == <<stamped, evolved, items, skill, ev, promote, spent, trouble, lost>>
files == <<skill, promote, trouble>>

Global == "global"
Skills == (Targets \cup {Global}) \X Names
NoStamp == 0
NoItem == 0

\* A rig's own skill hides the global one of the same name (build_catalog).
LoadSkills(target) ==
  LET own == {k \in {target} \X Names : Loads(skill[k])}
  IN  own \cup {k \in {Global} \X Names :
                  Loads(skill[k]) /\ <<target, k[2]>> \notin own}

Idle == [pc |-> "wait", agent |-> FALSE, batch |-> {}, stamp |-> NoStamp,
         item |-> NoItem, known |-> {}, count |-> {}, kind |-> "", at |-> <<>>,
         text |-> None, old |-> None]

\* The record of an evolver that is done with its stamp, or its sweep.
Rest(e, pc) == [Idle EXCEPT !.pc = pc, !.agent = ev[e].agent, !.batch = ev[e].batch]

Go(e, pc) == ev' = [ev EXCEPT ![e].pc = pc]
Done(e) == ev' = [ev EXCEPT ![e] = Rest(e, "next")]

\* One that has only the end of its work item left to do.
Leave(e, pc) == ev' = [ev EXCEPT ![e] = [Rest(e, pc) EXCEPT !.stamp = ev[e].stamp, !.item = ev[e].item]]

At(e, pc) == ev[e].pc = pc

Init ==
  /\ stamped = {} /\ evolved = {} /\ items = <<>>
  /\ skill = [k \in Skills |-> NoSkill]
  /\ ev = [e \in Evolvers |-> Idle]
  /\ promote = <<>>
  /\ spent = 0
  /\ trouble = {} /\ lost = [stamps |-> {}, items |-> {}]

Spend == spent < MaxEvents /\ spent' = spent + 1

(***************************************************************************)
(* The board.                                                              *)
(***************************************************************************)
\* add_stamp in process p, by somebody else than the rated rig: wakes the
\* evolver of that process if it is waiting, and keeps no permit for one
\* that is not.  The command line is a process without an evolver.
AddStamp(s, by, p) ==
  /\ s \notin stamped /\ by # TargetOf[s]
  /\ stamped' = stamped \cup {s}
  /\ ev' = IF p \in Evolvers /\ At(p, "wait") THEN [ev EXCEPT ![p].pc = "query"] ELSE ev
  /\ UNCHANGED <<evolved, items, skill, promote, spent, trouble, lost>>

Holds(i, rig) == VerifyClaimedBy(items[i].by, rig)

\* A transition of item i that goes through when the table allows it.
Transition(i, status, by) == items' = [items EXCEPT ![i].status = status, ![i].by = by]

\* What workers and people do to an item an evolver has posted and not yet
\* claimed: claim, unclaim, abandon.  How a worker ends the work is PullLoop's.
OthersAct(i) ==
  /\ \E e \in Evolvers : At(e, "claim") /\ ev[e].item = i
  /\ \/ \E rig \in Rigs \ {"evolver"} :
          \/ CanTransitionTo(items[i].status, "Claimed") /\ Transition(i, "Claimed", rig)
          \/ items[i].status = "Claimed" /\ Holds(i, rig) /\ Transition(i, "Open", NoRig)
     \/ CanTransitionTo(items[i].status, "Abandoned") /\ Transition(i, "Abandoned", items[i].by)
  /\ UNCHANGED <<stamped, evolved, ev, spent, lost, files>>

(***************************************************************************)
(* The loop.                                                               *)
(***************************************************************************)
\* Mutant of Timer: only an evolver that has an agent wakes by itself.
TimerVariant(e) ==
  /\ At(e, "wait") /\ ev[e].agent /\ Go(e, "query")
  /\ UNCHANGED <<stamped, evolved, items, spent, lost, files>>

\* The five minutes are over.
Timer(e) ==
  /\ At(e, "wait") /\ Go(e, "query")
  /\ UNCHANGED <<stamped, evolved, items, spent, lost, files>>

Unprocessed == (stamped \cap Low) \ evolved

\* unprocessed_low_stamps.  Without any, an evolver that has its agent looks
\* whether an hour has passed since the last sweep.
Query(e) ==
  /\ At(e, "query")
  /\ \/ /\ Unprocessed # {}
        /\ ev' = [ev EXCEPT ![e].pc = IF ev[e].agent THEN "next" ELSE "create",
                            ![e].batch = Unprocessed]
        /\ UNCHANGED spent
     \/ Unprocessed = {} /\ Go(e, "wait") /\ UNCHANGED spent
     \/ Unprocessed = {} /\ ev[e].agent /\ Spend /\ Go(e, "sweep")
  /\ UNCHANGED <<stamped, evolved, items, lost, files>>

\* create_agent, on the first work there is.  Failing, the evolver waits
\* again and will read the stamps anew.
AgentCreated(e) ==
  /\ At(e, "create")
  /\ ev' = [ev EXCEPT ![e].pc = "next", ![e].agent = TRUE]
  /\ UNCHANGED <<stamped, evolved, items, spent, lost, files>>

AgentRefused(e) ==
  /\ At(e, "create") /\ ev' = [ev EXCEPT ![e] = Idle]
  /\ UNCHANGED <<stamped, evolved, items, spent, lost, files>>

\* Mutant of Mark: whether the row was changed is not looked at.
MarkVariant(e) ==
  /\ At(e, "next")
  /\ \E s \in ev[e].batch :
       /\ evolved' = evolved \cup {s}
       /\ ev' = [ev EXCEPT ![e].batch = @ \ {s}, ![e].stamp = s, ![e].pc = "load"]
  /\ UNCHANGED <<stamped, items, spent, lost, files>>

\* mark_stamp_evolved for the next stamp of the batch (the query orders them
\* by nothing): one UPDATE that changes the row only if nobody has.
Mark(e) ==
  /\ At(e, "next")
  /\ \E s \in ev[e].batch :
       /\ evolved' = evolved \cup {s}
       /\ ev' = [ev EXCEPT ![e].batch = @ \ {s},
                           ![e].stamp = IF s \in evolved THEN NoStamp ELSE s,
                           ![e].pc = IF s \in evolved THEN "next" ELSE "load"]
  /\ UNCHANGED <<stamped, items, spent, lost, files>>

BatchDone(e) ==
  /\ At(e, "next") /\ ev[e].batch = {} /\ Go(e, "wait")
  /\ UNCHANGED <<stamped, evolved, items, spent, lost, files>>

(***************************************************************************)
(* process_stamp.                                                          *)
(***************************************************************************)
CopiesTo(k) == promote # <<>> /\ k = <<Global, promote.from[2]>>

\* load_skills.  All it found are then looked at by update_effectiveness.
Load(e) ==
  /\ At(e, "load")
  /\ LET known == LoadSkills(TargetOf[ev[e].stamp]) IN
       ev' = [ev EXCEPT ![e].known = known, ![e].count = known, ![e].pc = "count"]
  /\ UNCHANGED <<stamped, evolved, items, spent, lost, files>>

\* should_update_effectiveness: was it made from the dimension of this stamp?
ShouldCount(e) ==
  /\ At(e, "count")
  /\ \E k \in ev[e].count :
       ev' = IF IsMeta(skill[k].meta) /\ DimensionOf[skill[k].meta.from] = DimensionOf[ev[e].stamp]
               THEN [ev EXCEPT ![e].count = @ \ {k}, ![e].at = k, ![e].pc = "score"]
               ELSE [ev EXCEPT ![e].count = @ \ {k}]
  /\ UNCHANGED <<stamped, evolved, items, spent, lost, files>>

\* All counted: board.post() is next.
ReadyToPost(e) == At(e, "count") /\ ev[e].count = {}

Posted(e) == items' = Append(items, [status |-> "Open", by |-> NoRig, stamp |-> ev[e].stamp])

Post(e) ==
  /\ ReadyToPost(e) /\ Posted(e)
  /\ ev' = [ev EXCEPT ![e].item = Len(items'), ![e].pc = "claim"]
  /\ UNCHANGED <<stamped, evolved, spent, lost, files>>

\* claim() of the item just posted.  If somebody was quicker the stamp is
\* given up; the item stays with them.
Claim(e) ==
  /\ At(e, "claim")
  /\ LET i == ev[e].item IN
       \/ /\ CanTransitionTo(items[i].status, "Claimed")
          /\ Transition(i, "Claimed", "evolver") /\ Go(e, "ask")
       \/ /\ ~CanTransitionTo(items[i].status, "Claimed")
          /\ Done(e) /\ UNCHANGED items
  /\ UNCHANGED <<stamped, evolved, spent, lost, files>>

\* Where a first answer, and the answer to a second question, lead.
WriteAt(e, kind, k) ==
  ev' = [ev EXCEPT ![e].pc = IF kind = "create" THEN "write" ELSE "read",
                   ![e].kind = kind, ![e].at = k, ![e].known = {}]

Ask(e) ==
  /\ At(e, "ask")
  /\ LET target == TargetOf[ev[e].stamp] IN
       \/ Leave(e, "stick")                                \* the call fails
       \/ Leave(e, "submit")                               \* SKIP, or UPDATE: of an unknown skill
       \/ \E k \in ev[e].known :                           \* UPDATE:
            ev' = [ev EXCEPT ![e].pc = "ask again", ![e].kind = "update", ![e].at = k]
       \/ \E n \in Names : WriteAt(e, "create", <<target, n>>)
       \/ ev' = [ev EXCEPT ![e].pc = "ask again", ![e].kind = "create"]  \* not valid
  /\ UNCHANGED <<stamped, evolved, items, spent, lost, files>>

\* An update that does not come as a skill is dropped; a creation that still
\* does not come as one marks the item stuck at once, and fails.
AskAgain(e) ==
  /\ At(e, "ask again")
  /\ \/ Leave(e, "stick")                                  \* fails, or is not valid
     \/ ev[e].kind = "update" /\ Leave(e, "submit")
     \/ ev[e].kind = "update" /\ WriteAt(e, "update", ev[e].at)
     \/ ev[e].kind = "create" /\ \E n \in Names : WriteAt(e, "create", <<TargetOf[ev[e].stamp], n>>)
  /\ UNCHANGED <<stamped, evolved, items, spent, lost, files>>

\* submit(), or the error of one whose item is no longer the evolver's.
Submit(e) ==
  /\ At(e, "submit")
  /\ LET i == ev[e].item IN
       items' = IF items[i].status = "Claimed" /\ Holds(i, "evolver")
                  THEN [items EXCEPT ![i].status = "Done"] ELSE items
  /\ Done(e)
  /\ UNCHANGED <<stamped, evolved, spent, lost, files>>

\* Mutant of Stick: the error is returned before the item is marked.
StickVariant(e) ==
  /\ At(e, "stick") /\ Done(e)
  /\ UNCHANGED <<stamped, evolved, items, spent, lost, files>>

\* mark_stuck() after any error since the claim; its own error is logged.
Stick(e) ==
  /\ At(e, "stick")
  /\ LET i == ev[e].item IN
       items' = IF items[i].status = "Claimed" /\ NotHeldByOther(items[i].by, "evolver")
                  THEN [items EXCEPT ![i].status = "Stuck"] ELSE items
  /\ Done(e)
  /\ UNCHANGED <<stamped, evolved, spent, lost, files>>

(***************************************************************************)
(* Writing a skill: SKILL.md, then metadata.json.                          *)
(***************************************************************************)
Busy(k) == \E e \in Evolvers : At(e, "meta") /\ ev[e].at = k

\* Whom a change of k spoils: a copy of or onto it that is under way.
Mixed(k) ==
  IF promote # <<>> /\ (k = promote.from \/ CopiesTo(k))
    THEN {<<Global, promote.from[2]>>} ELSE {}

\* Where an error leads: out of process_stamp, or to the sweep's next decision.
Fail(e) == IF ev[e].kind = "refine"
             THEN ev' = [ev EXCEPT ![e] = [Rest(e, "decide") EXCEPT !.known = ev[e].known]]
             ELSE Leave(e, "stick")

\* write_skill_to_rig_scope starts every skill at version 1, also one that
\* replaces a skill of the same name; update_existing_skill and refine_skill
\* have read the old metadata first.
NewText(e) ==
  CASE ev[e].kind = "create" -> [by |-> ev[e].stamp, version |-> 1]
    [] ev[e].kind = "update" -> [by |-> ev[e].stamp, version |-> ComputeVersionBump(ev[e].old)]
    [] ev[e].kind = "refine" ->
         IF IsMeta(ev[e].old)
           THEN [by |-> ev[e].old.from, version |-> ev[e].old.version + 1]
           ELSE [by |-> CHOOSE s \in Stamps : TRUE, version |-> 1]

\* Only a creation makes the directory.
CanWrite(e) == DirExists(skill[ev[e].at]) \/ (At(e, "write") /\ ev[e].kind = "create")

\* refine_skill leaves metadata that it could not read alone.
WriteText(e) ==
  /\ At(e, "write")
  /\ LET k == ev[e].at
         new == NewText(e)
         orphan == ev[e].kind = "refine" /\ ~IsMeta(ev[e].old)
     IN  \/ /\ CanWrite(e)
            /\ new.version <= MaxVersion
            /\ skill' = [skill EXCEPT ![k].text = new]
            /\ ev' = [ev EXCEPT ![e].text = new, ![e].pc = IF orphan THEN "track" ELSE "meta"]
            /\ trouble' = (IF Busy(k) \/ orphan THEN trouble \cup {k} ELSE trouble \ {k})
                            \cup Mixed(k)
         \/ /\ ~CanWrite(e)
            /\ Fail(e) /\ UNCHANGED <<skill, trouble>>
  /\ UNCHANGED <<stamped, evolved, items, promote, spent, lost>>

WriteMeta(e) ==
  /\ At(e, "meta")
  /\ LET k == ev[e].at
         meta == IF ev[e].kind = "refine"
                   THEN RefineMetadata(ev[e].old, ev[e].text.version)
                   ELSE BuildSkillMetadata(ev[e].stamp, ev[e].text.version)
     IN  \/ /\ CanWrite(e)
            /\ skill' = [skill EXCEPT ![k].meta = meta]
            /\ IF ev[e].kind = "refine" THEN Go(e, "track") ELSE Leave(e, "submit")
         \/ /\ ~CanWrite(e)
            /\ Fail(e) /\ UNCHANGED skill
  /\ UNCHANGED <<stamped, evolved, items, promote, spent, trouble, lost>>

(***************************************************************************)
(* metadata.json is read, changed and written back: by                     *)
(* update_effectiveness_versioned ("score", then "scored"), by             *)
(* update_inclusion_tracking ("track", then "tracked"); an update or a     *)
(* refinement reads it before it writes the text ("read").                 *)
(***************************************************************************)
\* Whatever came of it, the next skill is looked at, or the next decision.
CarryOn(e) ==
  ev' = [ev EXCEPT ![e] =
           IF ev[e].pc \in {"score", "scored"}
             THEN [Rest(e, "count") EXCEPT !.stamp = ev[e].stamp, !.known = ev[e].known, !.count = ev[e].count]
             ELSE [Rest(e, "decide") EXCEPT !.known = ev[e].known]]

ReadMeta(e) ==
  /\ LET f == skill[ev[e].at] IN
       \/ /\ At(e, "read")
          /\ ev' = [ev EXCEPT ![e].old = f.meta, ![e].pc = "write"]
       \/ /\ ev[e].pc \in {"score", "track"} /\ IsMeta(f.meta)
          /\ ev' = [ev EXCEPT ![e].old = f.meta, ![e].text = f.text,
                              ![e].pc = IF At(e, "score") THEN "scored" ELSE "tracked"]
       \/ /\ ev[e].pc \in {"score", "track"} /\ ~IsMeta(f.meta)
          /\ CarryOn(e)
  /\ UNCHANGED <<stamped, evolved, items, spent, lost, files>>

\* What was read is written back, over whatever is there by now.
WriteBack(e) ==
  /\ ev[e].pc \in {"scored", "tracked"}
  /\ LET k == ev[e].at
         read == [text |-> ev[e].text, meta |-> ev[e].old]
     IN  \/ /\ CanWrite(e)
            /\ skill' = [skill EXCEPT ![k].meta =
                           IF At(e, "scored") THEN CountScore(ev[e].old, ev[e].text, ev[e].stamp)
                                              ELSE TrackInclusion(ev[e].old)]
            /\ trouble' = (IF skill[k] = read THEN trouble ELSE trouble \cup {k}) \cup Mixed(k)
         \/ ~CanWrite(e) /\ UNCHANGED <<skill, trouble>>
  /\ CarryOn(e)
  /\ UNCHANGED <<stamped, evolved, items, promote, spent, lost>>

(***************************************************************************)
(* Failures.                                                               *)
(***************************************************************************)
FileOf(e) == IF At(e, "write") THEN "text" ELSE "meta"
Writing == {"write", "meta", "scored", "tracked"}

\* The disk is full, or the process ends in the middle: the file stays as it
\* was, or is left truncated.
Tear(e) ==
  LET k == ev[e].at IN
    /\ \/ UNCHANGED skill
       \/ CanWrite(e) /\ skill' = [skill EXCEPT ![k] = [@ EXCEPT ![FileOf(e)] = Torn]]
    /\ trouble' = trouble \cup {k} \cup Mixed(k)

\* A metadata file that could not be written back is only logged.
WriteFails(e) ==
  /\ ev[e].pc \in Writing
  /\ Spend
  /\ Tear(e)
  /\ IF ev[e].pc \in {"write", "meta"} THEN Fail(e) ELSE CarryOn(e)
  /\ UNCHANGED <<stamped, evolved, items, promote, lost>>

LoseStamp(e) == lost' = [stamps |-> lost.stamps \cup {ev[e].stamp}, items |-> lost.items]
LoseItem(e) == lost' = [stamps |-> lost.stamps, items |-> lost.items \cup {ev[e].item}]

\* The database refuses a call: locked for longer than it waits, full, or
\* unreadable.  The row stays as it was.  An unmarked stamp is found again
\* by a later query.  A marked one is given up: without an item when the item
\* it is for could not be read, or the new item not be inserted; with one
\* that stays open when it was inserted and could not be read back, or not be
\* claimed.  A claimed item stays claimed when its end could not be written.
DbFails(e) ==
  /\ Spend
  /\ \/ At(e, "query") /\ Go(e, "wait") /\ UNCHANGED <<items, lost>>
     \/ /\ At(e, "next")
        /\ \E s \in ev[e].batch : ev' = [ev EXCEPT ![e].batch = @ \ {s}]
        /\ UNCHANGED <<items, lost>>
     \/ ReadyToPost(e) /\ Done(e) /\ LoseStamp(e) /\ UNCHANGED items
     \/ ReadyToPost(e) /\ Done(e) /\ Posted(e) /\ UNCHANGED lost
     \/ At(e, "claim") /\ Done(e) /\ UNCHANGED <<items, lost>>
     \/ ev[e].pc \in {"submit", "stick"} /\ Done(e) /\ LoseItem(e) /\ UNCHANGED items
  /\ UNCHANGED <<stamped, evolved, files>>

\* The process dies and is started again.  Nothing looks for the stamp it
\* had marked, or for the item it had claimed.
Crash(e) ==
  /\ ev[e] # Idle
  /\ Spend
  /\ IF ev[e].pc \in Writing THEN Tear(e) ELSE UNCHANGED <<skill, trouble>>
  /\ \/ ev[e].stamp = NoStamp /\ UNCHANGED lost
     \/ ev[e].stamp # NoStamp /\ ev[e].item = NoItem /\ LoseStamp(e)
     \/ ev[e].item # NoItem /\ LoseItem(e)
  /\ ev' = [ev EXCEPT ![e] = Idle]
  /\ UNCHANGED <<stamped, evolved, items, promote>>

(***************************************************************************)
(* run_sweep.                                                              *)
(***************************************************************************)
\* load_dormant_and_archived: of the skills with one name the first place
\* found counts, rigs in any order before the global one, and only then
\* whether that one is dormant.  Without any, without low stamps of the
\* last thirty days, or when the call fails, the sweep is over.
Sweep(e) ==
  /\ At(e, "sweep")
  /\ \/ ev' = [ev EXCEPT ![e] = Rest(e, "wait")]
     \/ /\ stamped \cap Low # {}
        /\ \E first \in [Names -> Targets \cup {Global}] :
             LET found == {n \in Names : \E p \in Targets \cup {Global} : Loads(skill[<<p, n>>])}
                 kept == {<<first[n], n>> : n \in found}
             IN  /\ \A n \in found :
                      /\ Loads(skill[<<first[n], n>>])
                      /\ first[n] = Global => \A t \in Targets : ~Loads(skill[<<t, n>>])
                 /\ \A n \in Names \ found : first[n] = Global
                 /\ \E k \in kept : IsDormant(skill[k])
                 /\ ev' = [ev EXCEPT ![e].known = {k \in kept : IsDormant(skill[k])},
                                     ![e].pc = "decide"]
  /\ UNCHANGED <<stamped, evolved, items, spent, lost, files>>

\* apply_decision, on what was loaded before the call.  The answer names a
\* skill at most once; those it does not name are kept.
Decide(e) ==
  /\ At(e, "decide")
  /\ \/ /\ ev' = [ev EXCEPT ![e] = Rest(e, "wait")]
        /\ UNCHANGED files
     \/ \E k \in ev[e].known :
          \/ /\ ev' = [ev EXCEPT ![e].known = @ \ {k}, ![e].pc = "track",  \* RESTORE:
                                 ![e].at = k]
             /\ UNCHANGED files
          \/ /\ skill' = [skill EXCEPT ![k] = NoSkill]              \* DELETE:
             /\ promote' = IF CopiesTo(k) THEN <<>> ELSE promote
             /\ trouble' = trouble \ {k}
             /\ ev' = [ev EXCEPT ![e].known = @ \ {k}]
          \/ /\ ev' = [ev EXCEPT ![e].known = @ \ {k}, ![e].pc = "read",   \* REFINE:
                                 ![e].kind = "refine", ![e].at = k]
             /\ UNCHANGED files
  /\ UNCHANGED <<stamped, evolved, items, spent, lost>>

\* Thirty days without the skill being included.
Month ==
  /\ Spend
  /\ skill' = [k \in Skills |-> Age(skill[k])]
  /\ UNCHANGED <<stamped, evolved, items, ev, promote, trouble, lost>>

(***************************************************************************)
(* `skills promote NAME --to global [--force]`, in a process of its own:   *)
(* copies the files of the directory one by one, in any order, then reads  *)
(* the metadata of the copy and writes it with promoted_to.                *)
(***************************************************************************)
PromoteStart(t, n, force) ==
  LET from == <<t, n>>
      to == <<Global, n>>
  IN  /\ promote = <<>> /\ skill[from].text # None
      /\ DirExists(skill[to]) => force
      /\ Spend
      /\ promote' = [from |-> from, left |-> {f \in {"text", "meta"} : skill[from][f] # None}, read |-> None]
      /\ trouble' = IF Busy(from) \/ Busy(to) \/ ~IsWhole(skill[from])
                      THEN trouble \cup {to} ELSE trouble \ {to}
      /\ UNCHANGED <<stamped, evolved, items, skill, ev, lost>>

\* A file that is gone, or a full disk, ends the command.
PromoteCopy ==
  /\ promote # <<>>
  /\ LET to == <<Global, promote.from[2]>> IN
       \E f \in promote.left :
         \/ /\ skill[promote.from][f] # None
            /\ skill' = [skill EXCEPT ![to] = [@ EXCEPT ![f] = skill[promote.from][f]]]
            /\ promote' = [promote EXCEPT !.left = @ \ {f}]
            /\ UNCHANGED <<spent, trouble>>
         \/ /\ skill[promote.from][f] = None
            /\ promote' = <<>> /\ trouble' = trouble \cup {to} /\ UNCHANGED <<skill, spent>>
         \/ /\ Spend
            /\ promote' = <<>> /\ trouble' = trouble \cup {to} /\ UNCHANGED skill
  /\ UNCHANGED <<stamped, evolved, items, ev, lost>>

\* Metadata that does not parse is left alone.
PromoteRead ==
  /\ promote # <<>> /\ promote.left = {} /\ promote.read = None
  /\ LET meta == skill[<<Global, promote.from[2]>>].meta IN
       promote' = IF IsMeta(meta) THEN [promote EXCEPT !.read = meta] ELSE <<>>
  /\ UNCHANGED <<stamped, evolved, items, skill, ev, spent, trouble, lost>>

PromoteStamp ==
  /\ promote # <<>> /\ promote.read # None
  /\ LET to == <<Global, promote.from[2]>> IN
       \/ skill' = [skill EXCEPT ![to].meta = promote.read] /\ UNCHANGED <<spent, trouble>>
       \/ Spend /\ skill' = [skill EXCEPT ![to].meta = Torn] /\ trouble' = trouble \cup {to}
  /\ promote' = <<>>
  /\ UNCHANGED <<stamped, evolved, items, ev, lost>>

(***************************************************************************)
(* Specification.                                                          *)
(***************************************************************************)
Process(e) ==
  \/ Query(e) \/ AgentCreated(e) \/ AgentRefused(e) \/ Mark(e) \/ BatchDone(e)
  \/ Load(e) \/ ShouldCount(e) \/ Post(e) \/ Claim(e) \/ Ask(e) \/ AskAgain(e)
  \/ ReadMeta(e) \/ WriteText(e) \/ WriteMeta(e) \/ WriteBack(e) \/ Submit(e) \/ Stick(e)
  \/ Sweep(e) \/ Decide(e)
  \/ Timer(e)

Next ==
  \/ \E e \in Evolvers : Process(e) \/ WriteFails(e) \/ DbFails(e) \/ Crash(e)
  \/ \E s \in Stamps, by \in Targets \cup {"human"}, p \in Evolvers \cup {"cli"} : AddStamp(s, by, p)
  \/ \E i \in 1..Len(items) : OthersAct(i)
  \/ Month
  \/ \E t \in Targets, n \in Names, force \in BOOLEAN : PromoteStart(t, n, force)
  \/ PromoteCopy \/ PromoteRead \/ PromoteStamp

Spec == Init /\ [][Next]_vars

\* The runtime of one process goes on scheduling its evolver and its timer,
\* the language model answers in the end, and an agent can be created again
\* and again until it is.  Every other process may stop for good anywhere.
FairSpec ==
  /\ Spec
  /\ WF_vars(Process(Survivor)) /\ SF_vars(AgentCreated(Survivor))

(***************************************************************************)
(* Properties.                                                             *)
(***************************************************************************)
Pcs == {"wait", "query", "create", "next", "load", "count", "score", "scored", "claim",
        "ask", "ask again", "read", "write", "meta", "submit", "stick", "sweep", "decide",
        "track", "tracked"}

TypeOK ==
  /\ stamped \subseteq Stamps /\ evolved \subseteq stamped \cap Low
  /\ items \in Seq([status: Statuses, by: Rigs \cup {NoRig}, stamp: Low])
  /\ skill \in [Skills -> Files]
  /\ \A e \in Evolvers :
       /\ ev[e].pc \in Pcs /\ ev[e].item \in 0..Len(items)
       /\ ev[e].stamp \in Low \cup {NoStamp} /\ ev[e].known \cup ev[e].count \subseteq Skills
  /\ trouble \subseteq Skills /\ spent \in 0..MaxEvents

\* A low stamp is worked on once: by one evolver, with one work item, however
\* many processes read it as unprocessed ("Atomically mark as evolved
\* (prevents duplicate processing)", loop_driver.rs:78).
OncePerStamp ==
  /\ \A i, j \in 1..Len(items) : items[i].stamp = items[j].stamp => i = j
  /\ \A e, f \in Evolvers : ev[e].stamp = ev[f].stamp /\ ev[e].stamp # NoStamp => e = f

\* A stamp that was marked and is no longer worked on has left an item, and
\* no item stays claimed by an evolver that is done with it: whatever the
\* model answers, whichever write of a file fails and whatever others do to
\* the item, only a crash or a database call that was refused, to post the
\* item or to end it, leaves either behind.
StampsAccounted ==
  /\ \A s \in evolved \ lost.stamps :
       \/ \E e \in Evolvers : ev[e].stamp = s
       \/ \E i \in 1..Len(items) : items[i].stamp = s
  /\ \A i \in 1..Len(items) :
       items[i].status = "Claimed" /\ Holds(i, "evolver") =>
         i \in lost.items \/ \E e \in Evolvers : ev[e].item = i

\* SKILL.md and metadata.json of a skill speak of the same stamp and the same
\* version, and the scores that will decide its fate were counted for the
\* text that is there: through creations, updates, counts, sweeps and
\* promotions, except where a write failed, a process died in between, two
\* wrote at once, or metadata was written back over what came after it was read.
SkillPaired ==
  \A k \in Skills \ trouble : Busy(k) \/ CopiesTo(k) \/ IsPaired(skill[k])

\* What docs/v0.2/ARCHITECTURE.md:572-585 draws, and :667 says of the column:
\* evolved_at is set after the analysis ("LLM ... -> SKILL.md ... ->
\* stamp.evolved_at"), and tells whether the evolver has dealt with the stamp.
\* The code sets it first (loop_driver.rs:78-81): a stamp that is marked may
\* never get an item, and no query will return it again.
EvolvedIsProcessed ==
  \A s \in evolved :
    \/ \E e \in Evolvers : ev[e].stamp = s
    \/ \E i \in 1..Len(items) : items[i].stamp = s

\* What the comment of update_existing_skill says: "Resets effectiveness
\* tracking and bumps skill_version" (writer/mod.rs:116).  A recorded version
\* never goes back, except where a creation starts the skill again.
VersionNeverBack ==
  [][\A k \in Skills :
       IsMeta(skill[k].meta) /\ IsMeta(skill'[k].meta) =>
         \/ skill'[k].meta.version >= skill[k].meta.version
         \/ \E e \in Evolvers : At(e, "meta") /\ ev[e].kind = "create" /\ ev[e].at = k]_vars

\* Every low stamp is taken up by an evolver in the end, although
\* notify_waiters() wakes only one that is waiting just then and the command
\* line's process has none.
StampTaken == \A s \in Low : s \in stamped ~> s \in evolved
=============================================================================
