---------------------------- MODULE EvolverProofs ----------------------------
(***************************************************************************)
(* Theorems about the evolvers, for any number of processes, stamps, rigs  *)
(* and skills.  The argument for both of them is where an evolver is in    *)
(* process_stamp: a stamp is in its hands from the mark to the last call   *)
(* on its item, the item from the post on.                                 *)
(***************************************************************************)
EXTENDS Evolver, TLAPS

Kinds == {"", "create", "update", "refine"}

ItemRecs == [status : Statuses, by : Rigs \cup {NoRig}, stamp : Low]

EvRecs == [pc : Pcs, agent : BOOLEAN, batch : SUBSET Low, stamp : Low \cup {NoStamp}, item : Nat,
           known : SUBSET Skills, count : SUBSET Skills, kind : Kinds, at : Skills \cup {<<>>},
           text : Texts \cup {None, Torn}, old : Metas \cup {None, Torn}]

\* Where process_stamp has a stamp and no item yet, and where it has both.
Marked(r)  == r.pc \in {"load", "count", "score", "scored"}
Working(r) == \/ r.pc \in {"claim", "ask", "ask again", "submit", "stick"}
              \/ r.pc \in {"read", "write", "meta"} /\ r.kind # "refine"

\* What a record of an evolver holds at each place.
Placed(r) ==
  /\ (r.stamp # NoStamp) = (Marked(r) \/ Working(r))
  /\ (r.item # NoItem) = Working(r)
  /\ r.pc \in {"read", "write", "meta", "score", "scored", "track", "tracked"} => r.at \in Skills
  /\ r.pc \in {"read", "write", "meta"} => r.kind # ""
  /\ r.pc \in {"scored", "tracked"} => r.old \in Metas
  /\ r.pc = "ask again" => r.kind \in {"create", "update"} /\ (r.kind = "update" => r.at \in Skills)
  /\ r.pc = "meta" => r.text \in Texts /\ (r.kind = "refine" => r.old \in Metas)

BoardTyped ==
  /\ stamped \subseteq Stamps /\ evolved \subseteq stamped \cap Low
  /\ items \in Seq(ItemRecs)

EvTyped ==
  /\ ev \in [Evolvers -> EvRecs]
  /\ \A e \in Evolvers : ev[e].item \in 0..Len(items) /\ ev[e].batch \subseteq stamped /\ Placed(ev[e])

Promotions == [from : Targets \X Names, left : SUBSET {"text", "meta"}, read : Metas \cup {None}]

FilesTyped ==
  /\ skill \in [Skills -> Files]
  /\ promote \in {<<>>} \cup Promotions
  /\ trouble \subseteq Skills
  /\ spent \in 0..MaxEvents

TypeInv == BoardTyped /\ EvTyped /\ FilesTyped

-----------------------------------------------------------------------------
(* Files.                                                                  *)

\* Files that age, or that are torn, are files of a skill.
LEMMA WritersTyped ==
  ASSUME NEW f \in Files
  PROVE  /\ Age(f) \in Files
         /\ \A file \in {"text", "meta"} : [f EXCEPT ![file] = Torn] \in Files
<1>1. CASE IsMeta(f.meta)
  <2>1. f.meta \in Metas
    BY <1>1 DEF IsMeta, Files
  <2>2. \A fresh \in BOOLEAN : [f EXCEPT !.meta.fresh = fresh] \in Files
    BY <2>1 DEF Files, Metas
  <2> QED
    BY <2>2 DEF Age, Files
<1>2. CASE ~IsMeta(f.meta)
  BY <1>2 DEF Age, Files
<1> QED
  BY <1>1, <1>2

\* What the writers make of metadata is metadata.
LEMMA MetasTyped ==
  ASSUME NEW version \in 1..MaxVersion
  PROVE  /\ \A s \in Stamps : BuildSkillMetadata(s, version) \in Metas
         /\ \A meta \in Metas : RefineMetadata(meta, version) \in Metas
BY DEF BuildSkillMetadata, RefineMetadata, Metas

LEMMA CountedTyped ==
  ASSUME NEW meta \in Metas
  PROVE  /\ TrackInclusion(meta) \in Metas
         /\ \A s \in Stamps, text \in Texts \cup {None, Torn} : CountScore(meta, text, s) \in Metas
<1>1. TrackInclusion(meta) \in Metas
  BY DEF TrackInclusion, Metas
<1>2. ASSUME NEW s \in Stamps, NEW text \in Texts \cup {None, Torn} PROVE CountScore(meta, text, s) \in Metas
  <2> DEFINE scores == meta.scores \cup {<<s, text>>}
  <2>1. <<s, text>> \in Stamps \X (Texts \cup {None, Torn})
    OBVIOUS
  <2>2. scores \in SUBSET (Stamps \X (Texts \cup {None, Torn}))
    BY <2>1 DEF Metas
  <2>3. CountScore(meta, text, s) = [meta EXCEPT !.scores = scores]
    BY DEF CountScore, Metas
  <2> HIDE DEF scores
  <2> QED
    BY <2>2, <2>3 DEF Metas
<1> QED
  BY <1>1, <1>2

\* Aging and counting map all skills to skills.
LEMMA SkillsTyped ==
  ASSUME FilesTyped
  PROVE  /\ [k \in Skills |-> Age(skill[k])] \in [Skills -> Files]
         /\ \A k \in Skills, f \in Files : [skill EXCEPT ![k] = f] \in [Skills -> Files]
BY WritersTyped DEF FilesTyped

-----------------------------------------------------------------------------
(* Steps of an evolver.                                                    *)

\* One evolver's record is replaced by one that is well placed.
LEMMA EvStep ==
  ASSUME EvTyped, NEW e \in Evolvers, NEW r \in EvRecs, ev' = [ev EXCEPT ![e] = r],
         stamped \subseteq stamped', Len(items') >= Len(items), Len(items) \in Nat, Len(items') \in Nat,
         r.item \in 0..Len(items'), r.batch \subseteq stamped', Placed(r)
  PROVE  EvTyped'
<1>1. ev' \in [Evolvers -> EvRecs]
  BY DEF EvTyped
<1>2. ASSUME NEW f \in Evolvers
      PROVE  ev'[f].item \in 0..Len(items') /\ ev'[f].batch \subseteq stamped' /\ Placed(ev'[f])
  <2>1. CASE f = e
    BY <2>1 DEF EvTyped
  <2>2. CASE f # e
    <3>1. ev'[f] = ev[f]
      BY <2>2 DEF EvTyped
    <3> QED
      BY <3>1 DEF EvTyped
  <2> QED
    BY <2>1, <2>2
<1> QED
  BY <1>1, <1>2 DEF EvTyped

\* The same, for a step that leaves the board alone.
LEMMA EvStepAlone ==
  ASSUME BoardTyped, EvTyped, NEW e \in Evolvers, NEW r \in EvRecs, ev' = [ev EXCEPT ![e] = r],
         UNCHANGED <<stamped, items>>, r.item \in 0..Len(items), r.batch \subseteq stamped, Placed(r)
  PROVE  EvTyped'
<1>1. Len(items) \in Nat
  BY DEF BoardTyped
<1>2. stamped' = stamped /\ Len(items') = Len(items)
  OBVIOUS
<1>3. Len(items') \in Nat /\ Len(items') >= Len(items) /\ stamped \subseteq stamped'
  BY <1>1, <1>2
<1>4. r.item \in 0..Len(items') /\ r.batch \subseteq stamped'
  BY <1>2
<1> QED
  BY <1>1, <1>3, <1>4, EvStep

\* An evolver that goes on to another place where it holds the same.
LEMMA GoStep ==
  ASSUME BoardTyped, EvTyped, NEW e \in Evolvers, NEW pc \in Pcs, Go(e, pc), UNCHANGED <<stamped, items>>,
         Placed([ev[e] EXCEPT !.pc = pc])
  PROVE  EvTyped'
<1> DEFINE r == [ev[e] EXCEPT !.pc = pc]
<1>1. r \in EvRecs /\ r.item = ev[e].item /\ r.batch = ev[e].batch
  BY DEF EvTyped, EvRecs
<1>2. ev' = [ev EXCEPT ![e] = r]
  BY DEF Go, EvTyped
<1> QED
  BY <1>1, <1>2, EvStepAlone DEF EvTyped

\* An evolver that is done with its stamp or its sweep.
LEMMA RestStep ==
  ASSUME BoardTyped, EvTyped, NEW e \in Evolvers, NEW pc \in {"next", "wait"},
         ev' = [ev EXCEPT ![e] = Rest(e, pc)], stamped' = stamped, Len(items') = Len(items)
  PROVE  EvTyped'
<1> DEFINE r == Rest(e, pc)
<1>1. /\ r \in EvRecs /\ r.item = 0 /\ r.batch = ev[e].batch
      /\ r.pc = pc /\ r.stamp = 0 
  BY DEF EvTyped, EvRecs, Rest, Idle, Kinds, NoStamp, NoItem, Pcs
<1>2. Placed(r)
  BY <1>1 DEF Placed, Marked, Working, NoStamp, NoItem
<1>3. Len(items) \in Nat
  BY DEF BoardTyped
<1> QED
  BY <1>1, <1>2, <1>3, EvStep DEF EvTyped

\* An evolver that has only the end of its item left to do.
LEMMA LeaveStep ==
  ASSUME BoardTyped, EvTyped, NEW e \in Evolvers, NEW pc \in {"stick", "submit"}, Leave(e, pc),
         Working(ev[e]), UNCHANGED <<stamped, items>>
  PROVE  EvTyped'
<1> DEFINE r == [Rest(e, pc) EXCEPT !.stamp = ev[e].stamp, !.item = ev[e].item]
<1>1. ev[e] \in EvRecs /\ Placed(ev[e]) /\ ev[e].batch \subseteq stamped /\ ev[e].item \in 0..Len(items)
  BY DEF EvTyped
<1>2. /\ r \in EvRecs /\ r.item = ev[e].item /\ r.batch = ev[e].batch
      /\ r.pc = pc /\ r.stamp = ev[e].stamp
  BY <1>1, ZenonT(60) DEF EvRecs, Rest, Idle, Kinds, NoStamp, NoItem, Pcs
<1>3. ev[e].stamp # NoStamp /\ ev[e].item # NoItem
  BY <1>1 DEF Placed
<1>4. Placed(r)
  BY <1>2, <1>3 DEF Placed, Marked, Working
<1>5. ev' = [ev EXCEPT ![e] = r]
  BY DEF Leave
<1> QED
  BY <1>1, <1>2, <1>4, <1>5, EvStepAlone

-----------------------------------------------------------------------------
(* Every step keeps the types and the places.                              *)

LEMMA TypeInit == Init => TypeInv
<1> SUFFICES ASSUME Init PROVE TypeInv
  OBVIOUS
<1>1. BoardTyped
  BY DEF Init, BoardTyped
<1>2. Idle \in EvRecs /\ Placed(Idle)
  BY DEF Idle, EvRecs, Pcs, Kinds, Placed, Marked, Working, NoStamp, NoItem
<1>3. Idle.item \in 0..Len(<<>>) /\ Idle.batch = {}
  BY DEF Idle, NoItem
<1>4. EvTyped
  BY <1>2, <1>3 DEF Init, EvTyped
<1>5. FilesTyped
  BY EvolverAssumption DEF Init, FilesTyped, NoSkill, Files
<1> QED
  BY <1>1, <1>4, <1>5 DEF TypeInv

\* Steps that change neither the board nor the skills, but where an evolver is.
LEMMA TypeGo ==
  ASSUME TypeInv, NEW e \in Evolvers, UNCHANGED <<stamped, evolved, items, spent, files>>, EvTyped'
  PROVE  TypeInv'
BY DEF TypeInv, BoardTyped, FilesTyped, files

LEMMA TypeLoop ==
  ASSUME TypeInv, NEW e \in Evolvers
  PROVE  /\ Timer(e) \/ Query(e) \/ AgentCreated(e) \/ AgentRefused(e) => TypeInv'
         /\ Mark(e) \/ BatchDone(e) => TypeInv'
<1>0. BoardTyped /\ EvTyped /\ FilesTyped /\ Len(items) \in Nat /\ ev[e] \in EvRecs
  BY DEF TypeInv, EvTyped, BoardTyped
<1>1. ASSUME Timer(e) PROVE TypeInv'
  <2>1. Placed([ev[e] EXCEPT !.pc = "query"])
    BY <1>0, <1>1 DEF Timer, At, EvTyped, EvRecs, Placed, Marked, Working
  <2>2. EvTyped'
    BY <1>0, <1>1, <2>1, GoStep DEF Timer, Pcs
  <2> QED
    BY <1>1, <2>2, TypeGo DEF Timer
<1>2. ASSUME Query(e) PROVE TypeInv'
  <2>1. CASE ev' = [ev EXCEPT ![e].pc = IF ev[e].agent THEN "next" ELSE "create", ![e].batch = Unprocessed] /\ UNCHANGED spent
    <3> DEFINE r == [ev[e] EXCEPT !.pc = IF ev[e].agent THEN "next" ELSE "create", !.batch = Unprocessed]
    <3>1. Unprocessed \subseteq Low /\ Unprocessed \subseteq stamped
      BY DEF Unprocessed
    <3>2. r \in EvRecs /\ r.item = ev[e].item /\ r.batch = Unprocessed
      BY <1>0, <3>1 DEF EvRecs, Pcs
    <3>3. Placed(r)
      BY <1>0, <1>2 DEF Query, At, EvTyped, EvRecs, Placed, Marked, Working
    <3>4. ev' = [ev EXCEPT ![e] = r]
      BY <1>0, <2>1 DEF EvTyped
    <3>5. EvTyped'
      BY <1>0, <1>2, <3>1, <3>2, <3>3, <3>4, EvStepAlone DEF Query, EvTyped
    <3> QED
      BY <1>2, <2>1, <3>5, TypeGo DEF Query
  <2>2. CASE Go(e, "wait") /\ UNCHANGED spent
    <3>1. Placed([ev[e] EXCEPT !.pc = "wait"])
      BY <1>0, <1>2 DEF Query, At, EvTyped, EvRecs, Placed, Marked, Working
    <3>2. EvTyped'
      BY <1>0, <1>2, <2>2, <3>1, GoStep DEF Query, Pcs
    <3> QED
      BY <1>2, <2>2, <3>2, TypeGo DEF Query
  <2>3. CASE Spend /\ Go(e, "sweep")
    <3>1. Placed([ev[e] EXCEPT !.pc = "sweep"])
      BY <1>0, <1>2 DEF Query, At, EvTyped, EvRecs, Placed, Marked, Working
    <3>2. EvTyped'
      BY <1>0, <1>2, <2>3, <3>1, GoStep DEF Query, Pcs
    <3>3. BoardTyped' /\ FilesTyped'
      BY <1>0, <1>2, <2>3, EvolverAssumption DEF Query, BoardTyped, FilesTyped, files, Spend
    <3> QED
      BY <3>2, <3>3 DEF TypeInv
  <2> QED
    BY <1>2, <2>1, <2>2, <2>3 DEF Query
<1>3. ASSUME AgentCreated(e) PROVE TypeInv'
  <2> DEFINE r == [ev[e] EXCEPT !.pc = "next", !.agent = TRUE]
  <2>1. r \in EvRecs /\ r.item = ev[e].item /\ r.batch = ev[e].batch
    BY <1>0 DEF EvRecs, Pcs
  <2>2. Placed(r)
    BY <1>0, <1>3 DEF AgentCreated, At, EvTyped, EvRecs, Placed, Marked, Working
  <2>3. ev' = [ev EXCEPT ![e] = r]
    BY <1>0, <1>3 DEF EvTyped, AgentCreated
  <2>4. EvTyped'
    BY <1>0, <1>3, <2>1, <2>2, <2>3, EvStepAlone DEF AgentCreated, EvTyped
  <2> QED
    BY <1>3, <2>4, TypeGo DEF AgentCreated
<1>4. ASSUME AgentRefused(e) PROVE TypeInv'
  <2>1. Idle \in EvRecs /\ Placed(Idle)
    BY DEF Idle, EvRecs, Pcs, Kinds, Placed, Marked, Working, NoStamp, NoItem
  <2>2. Idle.item = 0 /\ Idle.batch = {}
    BY DEF Idle, NoItem
  <2>3. Idle.item \in 0..Len(items) /\ Idle.batch \subseteq stamped
    BY <1>0, <2>2
  <2>4. EvTyped'
    BY <1>0, <1>4, <2>1, <2>3, EvStepAlone DEF AgentRefused
  <2> QED
    BY <1>4, <2>4, TypeGo DEF AgentRefused
<1>5. ASSUME Mark(e) PROVE TypeInv'
  <2>1. PICK s \in ev[e].batch :
          /\ evolved' = evolved \cup {s}
          /\ ev' = [ev EXCEPT ![e].batch = @ \ {s}, ![e].stamp = IF s \in evolved THEN NoStamp ELSE s,
                              ![e].pc = IF s \in evolved THEN "next" ELSE "load"]
    BY <1>5 DEF Mark
  <2> DEFINE r == [ev[e] EXCEPT !.batch = @ \ {s}, !.stamp = IF s \in evolved THEN NoStamp ELSE s,
                                !.pc = IF s \in evolved THEN "next" ELSE "load"]
  <2>2. s \in Low /\ s \in stamped /\ s # 0
    BY <1>0, EvolverAssumption DEF EvTyped, EvRecs
  <2>3. r \in EvRecs /\ r.item = ev[e].item /\ r.batch = ev[e].batch \ {s}
    BY <1>0, <2>2, ZenonT(60) DEF EvRecs, Pcs
  <2>4. Placed(r)
    BY <1>0, <1>5, <2>2 DEF Mark, At, EvTyped, EvRecs, Placed, Marked, Working, NoStamp
  <2>5. ev' = [ev EXCEPT ![e] = r]
    BY <1>0, <2>1 DEF EvTyped
  <2>6. EvTyped'
    BY <1>0, <1>5, <2>3, <2>4, <2>5, EvStepAlone DEF Mark, EvTyped
  <2>7. BoardTyped' /\ FilesTyped'
    BY <1>0, <1>5, <2>1, <2>2 DEF Mark, BoardTyped, FilesTyped, files
  <2> QED
    BY <2>6, <2>7 DEF TypeInv
<1>6. ASSUME BatchDone(e) PROVE TypeInv'
  <2>1. Placed([ev[e] EXCEPT !.pc = "wait"])
    BY <1>0, <1>6 DEF BatchDone, At, EvTyped, EvRecs, Placed, Marked, Working
  <2>2. EvTyped'
    BY <1>0, <1>6, <2>1, GoStep DEF BatchDone, Pcs
  <2> QED
    BY <1>6, <2>2, TypeGo DEF BatchDone
<1> QED
  BY <1>1, <1>2, <1>3, <1>4, <1>5, <1>6

\* One item gets other contents.
LEMMA ItemChange ==
  ASSUME BoardTyped, NEW i \in 1..Len(items), NEW item \in ItemRecs, items' = [items EXCEPT ![i] = item]
  PROVE  items' \in Seq(ItemRecs) /\ Len(items') = Len(items)
BY DEF BoardTyped

\* One item changes its status, or its status and who holds it.
LEMMA ItemMoves ==
  ASSUME BoardTyped, NEW i \in 1..Len(items), NEW status \in Statuses, NEW by \in Rigs \cup {NoRig}
  PROVE  /\ Transition(i, status, by) => items' \in Seq(ItemRecs) /\ Len(items') = Len(items)
         /\ items' = [items EXCEPT ![i].status = status] => items' \in Seq(ItemRecs) /\ Len(items') = Len(items)
<1>1. items[i] \in ItemRecs
  BY DEF BoardTyped
<1>2. [items[i] EXCEPT !.status = status, !.by = by] \in ItemRecs /\ [items[i] EXCEPT !.status = status] \in ItemRecs
  BY <1>1 DEF ItemRecs
<1>3. ASSUME Transition(i, status, by) PROVE items' = [items EXCEPT ![i] = [items[i] EXCEPT !.status = status, !.by = by]]
  BY <1>3 DEF Transition, BoardTyped
<1>4. ASSUME items' = [items EXCEPT ![i].status = status] PROVE items' = [items EXCEPT ![i] = [items[i] EXCEPT !.status = status]]
  BY <1>4 DEF BoardTyped
<1> QED
  BY <1>2, <1>3, <1>4, ItemChange

LEMMA TypeStamp ==
  ASSUME TypeInv, NEW e \in Evolvers
  PROVE  /\ Load(e) \/ ShouldCount(e) \/ Post(e) \/ Claim(e) => TypeInv'
         /\ Ask(e) \/ AskAgain(e) \/ Submit(e) \/ Stick(e) => TypeInv'
<1>0. BoardTyped /\ EvTyped /\ FilesTyped /\ Len(items) \in Nat /\ ev[e] \in EvRecs /\ Placed(ev[e])
  BY DEF TypeInv, EvTyped, BoardTyped
<1>1. ASSUME Load(e) PROVE TypeInv'
  <2> DEFINE known == LoadSkills(TargetOf[ev[e].stamp])
             r == [ev[e] EXCEPT !.known = known, !.count = known, !.pc = "count"]
  <2>1. TargetOf[ev[e].stamp] \in Targets
    BY <1>0, <1>1, EvolverAssumption DEF Load, At, EvRecs, Placed, Marked
  <2>2. known \subseteq Skills
    BY <2>1 DEF LoadSkills, Skills
  <2> HIDE DEF known
  <2>3. r \in EvRecs /\ r.item = ev[e].item /\ r.batch = ev[e].batch
    BY <1>0, <2>2 DEF EvRecs, Pcs
  <2>4. Placed(r)
    BY <1>0, <1>1 DEF Load, At, EvRecs, Placed, Marked, Working
  <2>5. ev' = [ev EXCEPT ![e] = r]
    BY <1>0, <1>1 DEF EvTyped, Load, known
  <2>6. EvTyped'
    BY <1>0, <1>1, <2>3, <2>4, <2>5, EvStepAlone DEF Load, EvTyped
  <2> QED
    BY <1>1, <2>6, TypeGo DEF Load
<1>13. ASSUME ShouldCount(e) PROVE TypeInv'
  <2>1. PICK k \in ev[e].count :
          \/ ev' = [ev EXCEPT ![e].count = @ \ {k}, ![e].at = k, ![e].pc = "score"]
          \/ ev' = [ev EXCEPT ![e].count = @ \ {k}]
    BY <1>13 DEF ShouldCount
  <2>2. k \in Skills
    BY <1>0, <2>1 DEF EvRecs
  <2>3. PICK pc \in {"count", "score"}, at \in Skills \cup {<<>>} :
          /\ pc = "score" => at \in Skills
          /\ ev' = [ev EXCEPT ![e] = [ev[e] EXCEPT !.count = @ \ {k}, !.at = at, !.pc = pc]]
    <3>1. CASE ev' = [ev EXCEPT ![e].count = @ \ {k}, ![e].at = k, ![e].pc = "score"]
      BY <1>0, <2>2, <3>1 DEF EvTyped
    <3>2. CASE ev' = [ev EXCEPT ![e].count = @ \ {k}]
      <4>1. ev[e].at \in Skills \cup {<<>>} /\ ev[e].pc = "count"
        BY <1>0, <1>13 DEF EvRecs, ShouldCount, At
      <4>2. [ev[e] EXCEPT !.count = @ \ {k}] = [ev[e] EXCEPT !.count = @ \ {k}, !.at = ev[e].at, !.pc = "count"]
        BY <1>0, <4>1 DEF EvRecs
      <4>3. ev' = [ev EXCEPT ![e] = [ev[e] EXCEPT !.count = @ \ {k}]]
        BY <1>0, <3>2 DEF EvTyped
      <4> QED
        BY <4>1, <4>2, <4>3
    <3> QED
      BY <2>1, <3>1, <3>2
  <2> DEFINE r == [ev[e] EXCEPT !.count = @ \ {k}, !.at = at, !.pc = pc]
  <2>4. r \in EvRecs /\ r.item = ev[e].item /\ r.batch = ev[e].batch
    BY <1>0, <2>3 DEF EvRecs, Pcs
  <2>5. Placed(r)
    BY <1>0, <1>13, <2>3 DEF ShouldCount, At, EvRecs, Placed, Marked, Working
  <2>6. EvTyped'
    BY <1>0, <1>13, <2>3, <2>4, <2>5, EvStepAlone DEF ShouldCount, EvTyped
  <2> QED
    BY <1>13, <2>6, TypeGo DEF ShouldCount
<1>2. ASSUME Post(e) PROVE TypeInv'
  <2> DEFINE new == [status |-> "Open", by |-> NoRig, stamp |-> ev[e].stamp]
             r == [ev[e] EXCEPT !.item = Len(items'), !.pc = "claim"]
  <2>1. ev[e].stamp \in Low
    BY <1>0, <1>2 DEF Post, ReadyToPost, At, EvRecs, Placed, Marked
  <2>2. new \in ItemRecs
    BY <2>1 DEF ItemRecs, Statuses
  <2>3. items' = Append(items, new)
    BY <1>2 DEF Post, Posted
  <2>4. items' \in Seq(ItemRecs) /\ Len(items') = Len(items) + 1
    BY <1>0, <2>2, <2>3 DEF BoardTyped
  <2>11. Len(items') \in Nat /\ Len(items') # 0 /\ Len(items') >= Len(items)
    BY <1>0, <2>4
  <2> HIDE DEF new
  <2>5. r \in EvRecs /\ r.item = Len(items') /\ r.batch = ev[e].batch /\ r.pc = "claim" /\ r.stamp = ev[e].stamp
    BY <1>0, <2>11 DEF EvRecs, Pcs
  <2>12. r.stamp # NoStamp
    BY <2>1, <2>5, EvolverAssumption DEF NoStamp
  <2>6. Placed(r)
    BY <2>5, <2>11, <2>12 DEF Placed, Marked, Working, NoItem
  <2>7. ev' = [ev EXCEPT ![e] = r]
    BY <1>0, <1>2 DEF EvTyped, Post
  <2>8. r.item \in 0..Len(items') /\ r.batch \subseteq stamped /\ stamped' = stamped
    BY <1>0, <1>2, <2>4, <2>5 DEF EvTyped, Post
  <2>9. EvTyped'
    BY <1>0, <2>11, <2>5, <2>6, <2>7, <2>8, EvStep
  <2>10. BoardTyped' /\ FilesTyped'
    BY <1>0, <1>2, <2>4 DEF Post, BoardTyped, FilesTyped, files
  <2> QED
    BY <2>9, <2>10 DEF TypeInv
<1>3. ASSUME NEW i \in 1..Len(items), NEW status \in Statuses, NEW by \in Rigs \cup {NoRig},
             Transition(i, status, by)
      PROVE  items' \in Seq(ItemRecs) /\ Len(items') = Len(items)
  BY <1>0, <1>3, ItemMoves
<1>4. ASSUME Working(ev[e]) PROVE ev[e].item \in 1..Len(items)
  <2>1. ev[e].item \in 0..Len(items) /\ ev[e].item # 0
    BY <1>0, <1>4 DEF EvTyped, Placed, NoItem
  <2> QED
    BY <1>0, <2>1
<1>5. ASSUME Claim(e) PROVE TypeInv'
  <2>1. ev[e].item \in 1..Len(items)
    BY <1>4, <1>5 DEF Claim, At, Working
  <2>2. CASE Transition(ev[e].item, "Claimed", "evolver") /\ Go(e, "ask")
    <3> DEFINE r == [ev[e] EXCEPT !.pc = "ask"]
    <3>1. items' \in Seq(ItemRecs) /\ Len(items') = Len(items)
      BY <1>3, <2>1, <2>2, EvolverAssumption DEF Statuses
    <3>2. r \in EvRecs /\ r.item = ev[e].item /\ r.batch = ev[e].batch
      BY <1>0 DEF EvRecs, Pcs
    <3>3. Placed(r)
      BY <1>0, <1>5 DEF Claim, At, EvRecs, Placed, Marked, Working
    <3>4. ev' = [ev EXCEPT ![e] = r]
      BY <1>0, <2>2 DEF EvTyped, Go
    <3>5. r.item \in 0..Len(items') /\ r.batch \subseteq stamped /\ stamped' = stamped
      BY <1>0, <1>5, <3>1, <3>2 DEF EvTyped, Claim
    <3>8. Len(items') \in Nat /\ Len(items') >= Len(items) /\ stamped \subseteq stamped'
      BY <1>0, <3>1, <3>5
    <3>6. EvTyped'
      BY <1>0, <3>8, <3>2, <3>3, <3>4, <3>5, EvStep
    <3>7. BoardTyped' /\ FilesTyped'
      BY <1>0, <1>5, <3>1 DEF Claim, BoardTyped, FilesTyped, files
    <3> QED
      BY <3>6, <3>7 DEF TypeInv
  <2>3. CASE Done(e) /\ UNCHANGED items
    <3>1. EvTyped'
      BY <1>0, <1>5, <2>3, RestStep DEF Claim, Done
    <3> QED
      BY <1>5, <2>3, <3>1, TypeGo DEF Claim
  <2> QED
    BY <1>5, <2>2, <2>3 DEF Claim
<1>6. ASSUME NEW pc \in {"stick", "submit"}, Leave(e, pc), Working(ev[e]), UNCHANGED <<stamped, evolved, items, spent, files>>
      PROVE  TypeInv'
  BY <1>0, <1>6, LeaveStep, TypeGo
<1>7. ASSUME NEW kind \in {"create", "update"}, NEW k \in Skills, Working(ev[e]),
             \/ WriteAt(e, kind, k)
             \/ ev' = [ev EXCEPT ![e].pc = "ask again", ![e].kind = kind, ![e].at = k],
             UNCHANGED <<stamped, evolved, items, spent, files>>
      PROVE  TypeInv'
  <2>1. PICK pc \in {"read", "write", "ask again"}, known \in SUBSET Skills :
          ev' = [ev EXCEPT ![e].pc = pc, ![e].kind = kind, ![e].at = k, ![e].known = known]
    <3>1. CASE WriteAt(e, kind, k)
      BY <3>1 DEF WriteAt
    <3>2. CASE ev' = [ev EXCEPT ![e].pc = "ask again", ![e].kind = kind, ![e].at = k]
      <4>1. ev[e].known \in SUBSET Skills
        BY <1>0 DEF EvRecs
      <4>2. ev' = [ev EXCEPT ![e].pc = "ask again", ![e].kind = kind, ![e].at = k, ![e].known = ev[e].known]
        BY <1>0, <3>2 DEF EvTyped, EvRecs
      <4> QED
        BY <4>1, <4>2
    <3> QED
      BY <1>7, <3>1, <3>2
  <2> DEFINE r == [ev[e] EXCEPT !.pc = pc, !.kind = kind, !.at = k, !.known = known]
  <2>2. r \in EvRecs /\ r.item = ev[e].item /\ r.batch = ev[e].batch
    BY <1>0, ZenonT(60) DEF EvRecs, Pcs, Kinds
  <2>3. Placed(r)
    BY <1>0, <1>7 DEF EvRecs, Placed, Marked, Working
  <2>4. ev' = [ev EXCEPT ![e] = r]
    BY <1>0, <2>1 DEF EvTyped
  <2>5. EvTyped'
    BY <1>0, <1>7, <2>2, <2>3, <2>4, EvStepAlone DEF EvTyped
  <2> QED
    BY <1>7, <2>5, TypeGo
<1>8. ASSUME Ask(e) PROVE TypeInv'
  <2>1. Working(ev[e]) /\ ev[e].stamp \in Low /\ UNCHANGED <<stamped, evolved, items, spent, files>>
    BY <1>0, <1>8 DEF Ask, At, EvRecs, Placed, Working
  <2>2. TargetOf[ev[e].stamp] \in Targets /\ ev[e].known \subseteq Skills
    BY <1>0, <2>1, EvolverAssumption DEF EvRecs
  <2>3. \A n \in Names : <<TargetOf[ev[e].stamp], n>> \in Skills
    BY <2>2 DEF Skills
  <2>4. ASSUME Leave(e, "stick") \/ Leave(e, "submit") PROVE TypeInv'
    BY <1>6, <2>1, <2>4
  <2>5. ASSUME NEW k \in ev[e].known, ev' = [ev EXCEPT ![e].pc = "ask again", ![e].kind = "update", ![e].at = k]
        PROVE  TypeInv'
    BY <1>7, <2>1, <2>2, <2>5
  <2>6. ASSUME NEW n \in Names, WriteAt(e, "create", <<TargetOf[ev[e].stamp], n>>) PROVE TypeInv'
    BY <1>7, <2>1, <2>3, <2>6
  <2>7. ASSUME ev' = [ev EXCEPT ![e].pc = "ask again", ![e].kind = "create"] PROVE TypeInv'
    <3> DEFINE r == [ev[e] EXCEPT !.pc = "ask again", !.kind = "create"]
    <3>1. r \in EvRecs /\ r.item = ev[e].item /\ r.batch = ev[e].batch
      BY <1>0 DEF EvRecs, Pcs, Kinds
    <3>2. Placed(r)
      BY <1>0, <2>1 DEF EvRecs, Placed, Marked, Working
    <3>3. ev' = [ev EXCEPT ![e] = r]
      BY <1>0, <2>7 DEF EvTyped
    <3>4. EvTyped'
      BY <1>0, <2>1, <3>1, <3>2, <3>3, EvStepAlone DEF EvTyped
    <3> QED
      BY <2>1, <3>4, TypeGo
  <2> QED
    BY <1>8, <2>4, <2>5, <2>6, <2>7 DEF Ask
<1>9. ASSUME AskAgain(e) PROVE TypeInv'
  <2>1. Working(ev[e]) /\ ev[e].stamp \in Low /\ UNCHANGED <<stamped, evolved, items, spent, files>>
    BY <1>0, <1>9 DEF AskAgain, At, EvRecs, Placed, Working
  <2>2. TargetOf[ev[e].stamp] \in Targets
    BY <2>1, EvolverAssumption
  <2>3. ASSUME Leave(e, "stick") \/ Leave(e, "submit") PROVE TypeInv'
    BY <1>6, <2>1, <2>3
  <2>4. ASSUME ev[e].kind = "update", WriteAt(e, "update", ev[e].at) PROVE TypeInv'
    <3>1. ev[e].at \in Skills
      BY <1>0, <1>9, <2>4 DEF AskAgain, At, Placed
    <3> QED
      BY <1>7, <2>1, <2>4, <3>1
  <2>5. ASSUME NEW n \in Names, WriteAt(e, "create", <<TargetOf[ev[e].stamp], n>>) PROVE TypeInv'
    <3>1. <<TargetOf[ev[e].stamp], n>> \in Skills
      BY <2>2 DEF Skills
    <3> QED
      BY <1>7, <2>1, <2>5, <3>1
  <2> QED
    BY <1>9, <2>3, <2>4, <2>5 DEF AskAgain
<1>10. ASSUME NEW status \in {"Done", "Stuck"}, Working(ev[e]), Done(e), UNCHANGED <<stamped, evolved, spent, files>>,
              items' \in {items, [items EXCEPT ![ev[e].item].status = status]}
       PROVE  TypeInv'
  <2>1. items' \in Seq(ItemRecs) /\ Len(items') = Len(items)
    <3>1. CASE items' = items
      BY <1>0, <3>1 DEF BoardTyped
    <3>2. CASE items' = [items EXCEPT ![ev[e].item].status = status]
      BY <1>0, <1>4, <1>10, <3>2, ItemMoves DEF Statuses
    <3> QED
      BY <1>10, <3>1, <3>2
  <2>2. EvTyped'
    BY <1>0, <1>10, <2>1, RestStep DEF Done
  <2>3. BoardTyped' /\ FilesTyped'
    BY <1>0, <1>10, <2>1 DEF BoardTyped, FilesTyped, files
  <2> QED
    BY <2>2, <2>3 DEF TypeInv
<1>11. Submit(e) => TypeInv'
  BY <1>10 DEF Submit, At, Working
<1>12. Stick(e) => TypeInv'
  BY <1>10 DEF Stick, At, Working
<1> QED
  BY <1>1, <1>2, <1>5, <1>8, <1>9, <1>11, <1>12, <1>13

\* The skills a change spoils are skills.
LEMMA MixedTyped ==
  ASSUME FilesTyped, NEW k \in Skills
  PROVE  Mixed(k) \subseteq Skills /\ trouble \cup {k} \cup Mixed(k) \subseteq Skills
<1>1. CASE promote = <<>>
  BY <1>1 DEF Mixed, FilesTyped
<1>2. CASE promote # <<>>
  <2>1. promote.from[2] \in Names
    BY <1>2 DEF FilesTyped, Promotions
  <2>2. <<Global, promote.from[2]>> \in Skills
    BY <2>1 DEF Skills
  <2> QED
    BY <2>2 DEF Mixed, FilesTyped
<1> QED
  BY <1>1, <1>2

\* What an evolver is about to write is a text.
LEMMA NewTextTyped ==
  ASSUME TypeInv, NEW e \in Evolvers, At(e, "write"), NewText(e).version <= MaxVersion
  PROVE  NewText(e) \in Texts
<1>1. /\ ev[e] \in EvRecs /\ Placed(ev[e])
      /\ ev[e].kind \in {"create", "update", "refine"}
  BY DEF TypeInv, EvTyped, Placed, At, EvRecs, Kinds
<1>2. IsMeta(ev[e].old) => ev[e].old \in Metas
  BY <1>1 DEF EvRecs, IsMeta
<1>3. MaxVersion \in Nat
  BY EvolverAssumption
<1>4. CASE ev[e].kind # "refine"
  <2>1. ev[e].stamp \in Stamps
    BY <1>1, <1>4, EvolverAssumption DEF At, EvRecs, Placed, Working
  <2> DEFINE v == NewText(e).version
  <2>2. NewText(e) = [by |-> ev[e].stamp, version |-> v] /\ v \in Nat \ {0}
    <3>1. CASE ev[e].kind = "create"
      BY <3>1 DEF NewText
    <3>2. CASE ev[e].kind = "update"
      <4>1. NewText(e) = [by |-> ev[e].stamp, version |-> ComputeVersionBump(ev[e].old)]
        BY <3>2 DEF NewText
      <4>2. ComputeVersionBump(ev[e].old) \in Nat \ {0}
        BY <1>2, <1>3 DEF ComputeVersionBump, Metas
      <4> QED
        BY <4>1, <4>2
    <3> QED
      BY <1>1, <1>4, <3>1, <3>2
  <2> QED
    BY <1>3, <2>1, <2>2 DEF Texts
<1>5. CASE ev[e].kind = "refine" /\ IsMeta(ev[e].old)
  <2>1. NewText(e) = [by |-> ev[e].old.from, version |-> ev[e].old.version + 1]
    BY <1>5 DEF NewText
  <2>2. ev[e].old.from \in Stamps /\ ev[e].old.version \in Nat
    BY <1>2, <1>5, <1>3 DEF Metas
  <2> QED
    BY <1>3, <2>1, <2>2 DEF Texts
<1>6. CASE ev[e].kind = "refine" /\ ~IsMeta(ev[e].old)
  <2>1. NewText(e) = [by |-> CHOOSE s \in Stamps : TRUE, version |-> 1]
    BY <1>6 DEF NewText
  <2>2. (CHOOSE s \in Stamps : TRUE) \in Stamps
    BY EvolverAssumption
  <2> QED
    BY <1>3, <2>1, <2>2 DEF Texts
<1> QED
  BY <1>4, <1>5, <1>6

\* A sweep that goes on to its next decision.
LEMMA DecideStep ==
  ASSUME BoardTyped, EvTyped, NEW e \in Evolvers, UNCHANGED <<stamped, items>>,
         ev' = [ev EXCEPT ![e] = [Rest(e, "decide") EXCEPT !.known = ev[e].known]]
  PROVE  EvTyped'
<1> DEFINE r == [Rest(e, "decide") EXCEPT !.known = ev[e].known]
<1>1. ev[e] \in EvRecs /\ ev[e].batch \subseteq stamped /\ Len(items) \in Nat
  BY DEF EvTyped, BoardTyped
<1>2. /\ r \in EvRecs /\ r.item = 0 /\ r.batch = ev[e].batch
      /\ r.pc = "decide" /\ r.stamp = 0 /\ r.at = <<>> /\ r.kind = ""
  BY <1>1 DEF EvRecs, Rest, Idle, Kinds, NoStamp, NoItem, Pcs
<1>3. Placed(r)
  BY <1>2 DEF Placed, Marked, Working, NoStamp, NoItem
<1> HIDE DEF r
<1>4. 0 \in 0..Len(items)
  BY <1>1
<1>5. r.item \in 0..Len(items) /\ r.batch \subseteq stamped
  BY <1>1, <1>2, <1>4
<1> QED
  BY <1>2, <1>3, <1>5, EvStepAlone DEF r

\* An error while a skill is written leads to a place where the evolver holds the same.
LEMMA FailedStep ==
  ASSUME TypeInv, NEW e \in Evolvers, ev[e].pc \in {"write", "meta"}, Fail(e), UNCHANGED <<stamped, items>>
  PROVE  EvTyped'
<1>1. BoardTyped /\ EvTyped /\ ev[e] \in EvRecs /\ Placed(ev[e])
  BY DEF TypeInv, EvTyped
<1>2. CASE ev[e].kind = "refine"
  <2>1. ev' = [ev EXCEPT ![e] = [Rest(e, "decide") EXCEPT !.known = ev[e].known]]
    BY <1>2 DEF Fail
  <2> QED
    BY <1>1, <2>1, DecideStep
<1>3. CASE ev[e].kind # "refine"
  <2>1. Leave(e, "stick") /\ Working(ev[e])
    BY <1>3 DEF Fail, Working
  <2> QED
    BY <1>1, <2>1, LeaveStep
<1> QED
  BY <1>2, <1>3

\* After a skill was counted, or a decision carried out, the next one follows.
LEMMA CarryStep ==
  ASSUME TypeInv, NEW e \in Evolvers, ev[e].pc \in {"score", "scored", "track", "tracked"}, CarryOn(e),
         UNCHANGED <<stamped, items>>
  PROVE  EvTyped'
<1>1. /\ BoardTyped /\ EvTyped /\ ev[e] \in EvRecs /\ Placed(ev[e]) /\ ev \in [Evolvers -> EvRecs]
      /\ ev[e].batch \subseteq stamped /\ Len(items) \in Nat
  BY DEF TypeInv, EvTyped, BoardTyped
<1>2. CASE ev[e].pc \in {"score", "scored"}
  <2> DEFINE r == [Rest(e, "count") EXCEPT !.stamp = ev[e].stamp, !.known = ev[e].known, !.count = ev[e].count]
  <2>1. ev' = [ev EXCEPT ![e] = r]
    BY <1>2 DEF CarryOn
  <2>2. /\ r \in EvRecs /\ r.item = 0 /\ r.batch = ev[e].batch
        /\ r.pc = "count" /\ r.stamp = ev[e].stamp
    BY <1>1 DEF EvRecs, Rest, Idle, Kinds, NoStamp, NoItem, Pcs
  <2>3. ev[e].stamp # NoStamp
    BY <1>1, <1>2 DEF Placed, Marked
  <2> HIDE DEF r
  <2>4. Placed(r)
    BY <2>2, <2>3 DEF Placed, Marked, Working, NoItem
  <2>5. r.item \in 0..Len(items) /\ r.batch \subseteq stamped
    BY <1>1, <2>2
  <2> QED
    BY <1>1, <2>1, <2>2, <2>4, <2>5, EvStepAlone
<1>3. CASE ev[e].pc \in {"track", "tracked"}
  <2>1. ev' = [ev EXCEPT ![e] = [Rest(e, "decide") EXCEPT !.known = ev[e].known]]
    BY <1>3 DEF CarryOn
  <2> QED
    BY <1>1, <2>1, DecideStep
<1> QED
  BY <1>2, <1>3

\* A write that is cut short.
LEMMA TearTyped ==
  ASSUME FilesTyped, NEW e \in Evolvers, ev[e].at \in Skills, Tear(e)
  PROVE  skill' \in [Skills -> Files] /\ trouble' \subseteq Skills
<1> DEFINE k == ev[e].at
           file == FileOf(e)
<1>1. file \in {"text", "meta"}
  BY DEF FileOf
<1> HIDE DEF file
<1>2. [skill[k] EXCEPT ![file] = Torn] \in Files
  BY <1>1, WritersTyped DEF FilesTyped
<1>3. [skill EXCEPT ![k] = [@ EXCEPT ![file] = Torn]] \in [Skills -> Files]
  BY <1>2 DEF FilesTyped
<1>4. skill' \in {skill, [skill EXCEPT ![k] = [@ EXCEPT ![file] = Torn]]}
  BY DEF Tear, file
<1>5. trouble' = trouble \cup {k} \cup Mixed(k)
  BY DEF Tear
<1> QED
  BY <1>3, <1>4, <1>5, MixedTyped DEF FilesTyped

LEMMA TypeWrite ==
  ASSUME TypeInv, NEW e \in Evolvers
  PROVE  /\ WriteText(e) \/ WriteMeta(e) \/ ReadMeta(e) \/ WriteBack(e) => TypeInv'
         /\ WriteFails(e) \/ Crash(e) => TypeInv'
<1> DEFINE k == ev[e].at
<1>0. /\ BoardTyped /\ EvTyped /\ FilesTyped /\ Len(items) \in Nat /\ ev[e] \in EvRecs /\ Placed(ev[e])
      /\ ev[e].pc \in {"write", "meta"} => k \in Skills /\ skill[k] \in Files
  <2>1. BoardTyped /\ EvTyped /\ FilesTyped /\ Len(items) \in Nat /\ ev[e] \in EvRecs /\ Placed(ev[e])
    BY DEF TypeInv, EvTyped, BoardTyped
  <2> QED
    BY <2>1 DEF Placed, FilesTyped
<1>1. ASSUME WriteText(e) PROVE TypeInv'
  <2>1. BoardTyped' /\ spent' = spent /\ promote' = promote /\ UNCHANGED <<stamped, items>> /\ k \in Skills
    BY <1>0, <1>1 DEF WriteText, BoardTyped, At
  <2> DEFINE new == NewText(e)
             orphan == ev[e].kind = "refine" /\ ~IsMeta(ev[e].old)
             r == [ev[e] EXCEPT !.text = new, !.pc = IF orphan THEN "track" ELSE "meta"]
  <2>2. CASE /\ new.version <= MaxVersion
             /\ skill' = [skill EXCEPT ![k].text = new]
             /\ ev' = [ev EXCEPT ![e].text = new, ![e].pc = IF orphan THEN "track" ELSE "meta"]
             /\ trouble' = (IF Busy(k) \/ orphan THEN trouble \cup {k} ELSE trouble \ {k}) \cup Mixed(k)
    <3>1. new \in Texts
      BY <1>1, <2>2, NewTextTyped DEF WriteText
    <3>2. [skill[k] EXCEPT !.text = new] \in Files /\ ev[e].old \in Metas \cup {None, Torn}
      BY <1>0, <2>1, <3>1 DEF Files, FilesTyped, EvRecs
    <3>3. skill' = [skill EXCEPT ![k] = [skill[k] EXCEPT !.text = new]]
      BY <1>0, <2>1, <2>2 DEF FilesTyped
    <3>4. skill' \in [Skills -> Files]
      BY <1>0, <3>2, <3>3 DEF FilesTyped
    <3>5. trouble' \subseteq Skills
      BY <1>0, <2>1, <2>2, MixedTyped DEF FilesTyped
    <3>6. ev' = [ev EXCEPT ![e] = r]
      BY <1>0, <2>2 DEF EvTyped
    <3>11. \A pc \in Pcs, text \in Texts :
             LET q == [ev[e] EXCEPT !.text = text, !.pc = pc]
             IN  q \in EvRecs /\ q.item = ev[e].item /\ q.batch = ev[e].batch
      BY <1>0 DEF EvRecs
    <3>12. (IF orphan THEN "track" ELSE "meta") \in Pcs
      BY DEF Pcs
    <3>7. r \in EvRecs /\ r.item = ev[e].item /\ r.batch = ev[e].batch
      BY <3>1, <3>2, <3>11, <3>12
    <3> HIDE DEF new
    <3>8. ~orphan /\ ev[e].kind = "refine" => ev[e].old \in Metas
      BY <3>2 DEF IsMeta
    <3>9. Placed(r)
      BY <1>0, <1>1, <3>1, <3>8 DEF WriteText, At, EvRecs, Placed, Marked, Working
    <3>10. EvTyped'
      BY <1>0, <2>1, <3>6, <3>7, <3>9, EvStepAlone DEF EvTyped
    <3> QED
      BY <1>0, <2>1, <3>4, <3>5, <3>10 DEF TypeInv, FilesTyped
  <2>3. CASE Fail(e) /\ UNCHANGED <<skill, trouble>>
    <3>1. EvTyped'
      BY <1>1, <2>1, <2>3, FailedStep DEF WriteText, At
    <3> QED
      BY <1>0, <2>1, <2>3, <3>1 DEF TypeInv, FilesTyped
  <2> QED
    BY <1>1, <2>2, <2>3 DEF WriteText
<1>2. ASSUME WriteMeta(e) PROVE TypeInv'
  <2>1. BoardTyped' /\ spent' = spent /\ promote' = promote /\ trouble' = trouble /\ UNCHANGED <<stamped, items>> /\ k \in Skills
    BY <1>0, <1>2 DEF WriteMeta, BoardTyped, At
  <2> DEFINE meta == IF ev[e].kind = "refine"
                       THEN RefineMetadata(ev[e].old, ev[e].text.version)
                       ELSE BuildSkillMetadata(ev[e].stamp, ev[e].text.version)
  <2>2. CASE /\ skill' = [skill EXCEPT ![k].meta = meta]
             /\ IF ev[e].kind = "refine" THEN Go(e, "track") ELSE Leave(e, "submit")
    <3>1. ev[e].text.version \in 1..MaxVersion
      BY <1>0, <1>2 DEF WriteMeta, At, Placed, Texts
    <3>2. ev[e].kind # "refine" => ev[e].stamp \in Stamps
      BY <1>0, <1>2, EvolverAssumption DEF WriteMeta, At, EvRecs, Placed, Working
    <3>3. meta \in Metas
      BY <1>0, <1>2, <3>1, <3>2, MetasTyped DEF WriteMeta, At, Placed
    <3> HIDE DEF meta
    <3>4. [skill[k] EXCEPT !.meta = meta] \in Files
      BY <1>0, <2>1, <3>3 DEF Files, FilesTyped
    <3>5. skill' = [skill EXCEPT ![k] = [skill[k] EXCEPT !.meta = meta]]
      BY <1>0, <2>1, <2>2 DEF FilesTyped
    <3>6. skill' \in [Skills -> Files]
      BY <1>0, <3>4, <3>5 DEF FilesTyped
    <3>8. EvTyped'
      <4>1. CASE ev[e].kind = "refine"
        <5>1. Placed([ev[e] EXCEPT !.pc = "track"])
          BY <1>0, <1>2, <4>1 DEF WriteMeta, At, EvRecs, Placed, Marked, Working
        <5> QED
          BY <1>0, <2>1, <2>2, <4>1, <5>1, GoStep DEF Pcs
      <4>2. CASE ev[e].kind # "refine"
        BY <1>0, <1>2, <2>1, <2>2, <4>2, LeaveStep DEF WriteMeta, At, Working
      <4> QED
        BY <4>1, <4>2
    <3> QED
      BY <1>0, <2>1, <3>6, <3>8 DEF TypeInv, FilesTyped
  <2>3. CASE Fail(e) /\ UNCHANGED skill
    <3>1. EvTyped'
      BY <1>2, <2>1, <2>3, FailedStep DEF WriteMeta, At
    <3> QED
      BY <1>0, <2>1, <2>3, <3>1 DEF TypeInv, FilesTyped
  <2> QED
    BY <1>2, <2>2, <2>3 DEF WriteMeta
<1>3. ASSUME Spend PROVE spent' \in 0..MaxEvents
  BY <1>0, <1>3, EvolverAssumption DEF Spend, FilesTyped
<1>4. ASSUME ev[e].pc \in Writing, Tear(e)
      PROVE  skill' \in [Skills -> Files] /\ trouble' \subseteq Skills
  <2>1. ev[e].at \in Skills
    BY <1>0, <1>4 DEF Writing, Placed
  <2> QED
    BY <1>0, <1>4, <2>1, TearTyped
<1>5. ASSUME WriteFails(e) PROVE TypeInv'
  <2>1. skill' \in [Skills -> Files] /\ trouble' \subseteq Skills /\ ev[e].pc \in Writing
    BY <1>4, <1>5 DEF WriteFails
  <2>2. UNCHANGED <<stamped, items>>
    BY <1>5 DEF WriteFails
  <2>3. EvTyped'
    BY <1>5, <2>1, <2>2, FailedStep, CarryStep DEF WriteFails, Writing
  <2> QED
    BY <1>0, <1>3, <1>5, <2>1, <2>3 DEF WriteFails, TypeInv, BoardTyped, FilesTyped
<1>7. ASSUME ReadMeta(e) PROVE TypeInv'
  <2>1. /\ UNCHANGED <<stamped, evolved, items, spent, files>>
        /\ ev[e].pc \in {"read", "score", "track"} /\ k \in Skills /\ skill[k] \in Files
    BY <1>0, <1>7 DEF ReadMeta, At, Placed, FilesTyped
  <2>2. /\ skill[k].meta \in Metas \cup {None, Torn} /\ skill[k].text \in Texts \cup {None, Torn}
        /\ IsMeta(skill[k].meta) => skill[k].meta \in Metas
    BY <2>1 DEF Files, IsMeta
  <2>3. ASSUME NEW pc \in {"write", "scored", "tracked"}, NEW text \in Texts \cup {None, Torn},
               ev' = [ev EXCEPT ![e] = [ev[e] EXCEPT !.old = skill[k].meta, !.text = text, !.pc = pc]],
               \/ ev[e].pc = "read" /\ pc = "write"
               \/ IsMeta(skill[k].meta) /\ ev[e].pc = "score" /\ pc = "scored"
               \/ IsMeta(skill[k].meta) /\ ev[e].pc = "track" /\ pc = "tracked"
        PROVE  EvTyped'
    <3> DEFINE r == [ev[e] EXCEPT !.old = skill[k].meta, !.text = text, !.pc = pc]
    <3>1. r \in EvRecs /\ r.item = ev[e].item /\ r.batch = ev[e].batch
      BY <1>0, <2>2 DEF EvRecs, Pcs
    <3>2. Placed(r)
      BY <1>0, <2>1, <2>2, <2>3 DEF EvRecs, Placed, Marked, Working
    <3> QED
      BY <1>0, <2>1, <2>3, <3>1, <3>2, EvStepAlone DEF EvTyped
  <2>4. CASE At(e, "read") /\ ev' = [ev EXCEPT ![e].old = skill[k].meta, ![e].pc = "write"]
    <3>1. ev[e].text \in Texts \cup {None, Torn}
      BY <1>0 DEF EvRecs
    <3>2. [ev[e] EXCEPT !.old = skill[k].meta, !.pc = "write"] = [ev[e] EXCEPT !.old = skill[k].meta, !.text = ev[e].text, !.pc = "write"]
      BY <1>0 DEF EvRecs
    <3>3. ev' = [ev EXCEPT ![e] = [ev[e] EXCEPT !.old = skill[k].meta, !.pc = "write"]]
      BY <1>0, <2>4 DEF EvTyped
    <3> QED
      BY <2>1, <2>3, <2>4, <3>1, <3>2, <3>3, TypeGo DEF At
  <2>5. CASE /\ ev[e].pc \in {"score", "track"} /\ IsMeta(skill[k].meta)
             /\ ev' = [ev EXCEPT ![e].old = skill[k].meta, ![e].text = skill[k].text,
                                 ![e].pc = IF At(e, "score") THEN "scored" ELSE "tracked"]
    <3> DEFINE pc == IF At(e, "score") THEN "scored" ELSE "tracked"
    <3>1. ev' = [ev EXCEPT ![e] = [ev[e] EXCEPT !.old = skill[k].meta, !.text = skill[k].text, !.pc = pc]]
      BY <1>0, <2>5 DEF EvTyped
    <3>2. pc \in {"write", "scored", "tracked"} /\ ((ev[e].pc = "score" /\ pc = "scored") \/ (ev[e].pc = "track" /\ pc = "tracked"))
      BY <2>5 DEF At
    <3> HIDE DEF pc
    <3> QED
      BY <2>1, <2>2, <2>3, <2>5, <3>1, <3>2, TypeGo
  <2>6. CASE ev[e].pc \in {"score", "track"} /\ CarryOn(e)
    BY <2>1, <2>6, CarryStep, TypeGo
  <2> QED
    BY <1>7, <2>4, <2>5, <2>6 DEF ReadMeta
<1>8. ASSUME WriteBack(e) PROVE TypeInv'
  <2>1. BoardTyped' /\ UNCHANGED <<stamped, items, spent, promote>> /\ k \in Skills
    BY <1>0, <1>8 DEF WriteBack, BoardTyped, Placed
  <2>2. EvTyped'
    BY <1>8, <2>1, CarryStep DEF WriteBack
  <2>3. CASE UNCHANGED <<skill, trouble>>
    BY <1>0, <2>1, <2>2, <2>3 DEF TypeInv, FilesTyped
  <2>4. CASE CanWrite(e)
    <3> DEFINE meta == IF At(e, "scored") THEN CountScore(ev[e].old, ev[e].text, ev[e].stamp) ELSE TrackInclusion(ev[e].old)
    <3>1. ev[e].old \in Metas /\ ev[e].text \in Texts \cup {None, Torn}
      BY <1>0, <1>8 DEF WriteBack, Placed, EvRecs
    <3>2. At(e, "scored") => ev[e].stamp \in Stamps
      BY <1>0, EvolverAssumption DEF At, Placed, Marked, EvRecs
    <3>3. meta \in Metas
      BY <3>1, <3>2, CountedTyped
    <3>4. skill' = [skill EXCEPT ![k].meta = meta]
      BY <1>8, <2>4 DEF WriteBack
    <3> HIDE DEF meta
    <3>5. [skill[k] EXCEPT !.meta = meta] \in Files
      BY <1>0, <2>1, <3>3 DEF Files, FilesTyped
    <3>6. skill' = [skill EXCEPT ![k] = [skill[k] EXCEPT !.meta = meta]]
      BY <1>0, <2>1, <3>4 DEF FilesTyped
    <3>7. skill' \in [Skills -> Files]
      BY <1>0, <3>5, <3>6 DEF FilesTyped
    <3>8. trouble' \subseteq trouble \cup {k} \cup Mixed(k)
      BY <1>8, <2>4 DEF WriteBack
    <3>9. trouble' \subseteq Skills
      BY <1>0, <2>1, <3>8, MixedTyped
    <3> QED
      BY <1>0, <2>1, <2>2, <3>7, <3>9 DEF TypeInv, FilesTyped
  <2> QED
    BY <1>8, <2>3, <2>4 DEF WriteBack
<1>6. ASSUME Crash(e) PROVE TypeInv'
  <2>1. skill' \in [Skills -> Files] /\ trouble' \subseteq Skills
    <3>1. CASE UNCHANGED <<skill, trouble>>
      BY <1>0, <3>1 DEF FilesTyped
    <3> QED
      BY <1>4, <1>6, <3>1 DEF Crash
  <2>2. Idle \in EvRecs /\ Placed(Idle)
    BY DEF Idle, EvRecs, Pcs, Kinds, Placed, Marked, Working, NoStamp, NoItem
  <2>3. Idle.item = 0 /\ Idle.batch = {}
    BY DEF Idle, NoItem
  <2>4. Idle.item \in 0..Len(items) /\ Idle.batch \subseteq stamped
    BY <1>0, <2>3
  <2>5. EvTyped'
    BY <1>0, <1>6, <2>2, <2>4, EvStepAlone DEF Crash
  <2> QED
    BY <1>0, <1>3, <1>6, <2>1, <2>5 DEF Crash, TypeInv, BoardTyped, FilesTyped
<1> QED
  BY <1>1, <1>2, <1>5, <1>6, <1>7, <1>8

\* Steps of the database that fail.
LEMMA TypeFails ==
  ASSUME TypeInv, NEW e \in Evolvers, DbFails(e)
  PROVE  TypeInv'
<1>0. BoardTyped /\ EvTyped /\ FilesTyped /\ Len(items) \in Nat /\ ev[e] \in EvRecs /\ Placed(ev[e])
  BY DEF TypeInv, EvTyped, BoardTyped
<1>1. UNCHANGED <<stamped, evolved, files>> /\ spent' \in 0..MaxEvents
  BY <1>0, EvolverAssumption DEF DbFails, Spend, FilesTyped
<1>2. FilesTyped'
  BY <1>0, <1>1 DEF FilesTyped, files
<1>3. CASE items' = items
  <2>1. BoardTyped'
    BY <1>0, <1>1, <1>3 DEF BoardTyped
  <2>2. CASE At(e, "query") /\ Go(e, "wait")
    <3>1. Placed([ev[e] EXCEPT !.pc = "wait"])
      BY <1>0, <2>2 DEF At, EvRecs, Placed, Marked, Working
    <3> QED
      BY <1>0, <1>1, <1>2, <1>3, <2>1, <2>2, <3>1, GoStep DEF TypeInv, Pcs
  <2>3. CASE At(e, "next") /\ \E s \in ev[e].batch : ev' = [ev EXCEPT ![e].batch = @ \ {s}]
    <3>1. PICK s \in ev[e].batch : ev' = [ev EXCEPT ![e].batch = @ \ {s}]
      BY <2>3
    <3> DEFINE r == [ev[e] EXCEPT !.batch = @ \ {s}]
    <3>2. r \in EvRecs /\ r.item = ev[e].item /\ r.batch \subseteq ev[e].batch
      BY <1>0 DEF EvRecs
    <3>3. Placed(r)
      BY <1>0, <2>3 DEF At, EvRecs, Placed, Marked, Working
    <3>4. ev' = [ev EXCEPT ![e] = r]
      BY <1>0, <3>1 DEF EvTyped
    <3>5. r.item \in 0..Len(items) /\ r.batch \subseteq stamped
      BY <1>0, <3>2 DEF EvTyped
    <3>6. EvTyped'
      BY <1>0, <1>1, <1>3, <3>2, <3>3, <3>4, <3>5, EvStepAlone
    <3> QED
      BY <1>2, <2>1, <3>6 DEF TypeInv
  <2>4. CASE Done(e)
    BY <1>0, <1>1, <1>2, <1>3, <2>1, <2>4, RestStep DEF Done, TypeInv
  <2>5. CASE Posted(e)
    <3>1. Len(items') = Len(items) + 1
      BY <1>0, <2>5 DEF Posted, BoardTyped
    <3> QED
      BY <1>0, <1>3, <3>1
  <2> QED
    BY <2>2, <2>3, <2>4, <2>5 DEF DbFails
<1>4. CASE ReadyToPost(e) /\ Done(e) /\ Posted(e)
  <2> DEFINE new == [status |-> "Open", by |-> NoRig, stamp |-> ev[e].stamp]
             r == Rest(e, "next")
  <2>1. ev[e].stamp \in Low
    BY <1>0, <1>4 DEF ReadyToPost, At, EvRecs, Placed, Marked
  <2>2. new \in ItemRecs
    BY <2>1 DEF ItemRecs, Statuses
  <2>3. items' = Append(items, new)
    BY <1>4 DEF Posted
  <2>4. items' \in Seq(ItemRecs) /\ Len(items') = Len(items) + 1
    BY <1>0, <2>2, <2>3 DEF BoardTyped
  <2>5. BoardTyped'
    BY <1>0, <1>1, <2>4 DEF BoardTyped
  <2>6. /\ r \in EvRecs /\ r.item = 0 /\ r.batch = ev[e].batch
        /\ r.pc = "next" /\ r.stamp = 0
    BY <1>0 DEF EvRecs, Rest, Idle, Kinds, NoStamp, NoItem, Pcs
  <2>7. Placed(r)
    BY <2>6 DEF Placed, Marked, Working, NoStamp, NoItem
  <2>8. ev' = [ev EXCEPT ![e] = r]
    BY <1>4 DEF Done
  <2> HIDE DEF r
  <2>9. r.item \in 0..Len(items') /\ r.batch \subseteq stamped' /\ stamped \subseteq stamped'
    BY <1>0, <1>1, <2>4, <2>6 DEF EvTyped
  <2>10. Len(items') \in Nat /\ Len(items') >= Len(items)
    BY <1>0, <2>4
  <2>11. EvTyped'
    BY <1>0, <2>6, <2>7, <2>8, <2>9, <2>10, EvStep
  <2> QED
    BY <1>2, <2>5, <2>11 DEF TypeInv
<1> QED
  BY <1>3, <1>4 DEF DbFails

LEMMA TypeSweep ==
  ASSUME TypeInv, NEW e \in Evolvers
  PROVE  Sweep(e) \/ Decide(e) => TypeInv'
<1>0. BoardTyped /\ EvTyped /\ FilesTyped /\ Len(items) \in Nat /\ ev[e] \in EvRecs /\ Placed(ev[e])
  BY DEF TypeInv, EvTyped, BoardTyped
<1>1. ASSUME ev' = [ev EXCEPT ![e] = Rest(e, "wait")], UNCHANGED <<stamped, evolved, items, spent, files>>
      PROVE  TypeInv'
  <2>1. EvTyped'
    BY <1>0, <1>1, RestStep
  <2> QED
    BY <1>1, <2>1, TypeGo
<1>2. ASSUME Sweep(e) PROVE TypeInv'
  <2>1. ASSUME NEW known \in SUBSET Skills, ev' = [ev EXCEPT ![e].known = known, ![e].pc = "decide"]
        PROVE  TypeInv'
    <3> DEFINE r == [ev[e] EXCEPT !.known = known, !.pc = "decide"]
    <3>1. r \in EvRecs /\ r.item = ev[e].item /\ r.batch = ev[e].batch
      BY <1>0 DEF EvRecs, Pcs
    <3>2. Placed(r)
      BY <1>0, <1>2 DEF Sweep, At, EvRecs, Placed, Marked, Working
    <3>3. ev' = [ev EXCEPT ![e] = r]
      BY <1>0, <2>1 DEF EvTyped
    <3>4. EvTyped'
      BY <1>0, <1>2, <3>1, <3>2, <3>3, EvStepAlone DEF EvTyped, Sweep
    <3> QED
      BY <1>2, <3>4, TypeGo DEF Sweep
  <2>2. ASSUME NEW first \in [Names -> Targets \cup {Global}], NEW found \in SUBSET Names
        PROVE  {k \in {<<first[n], n>> : n \in found} : IsDormant(skill[k])} \in SUBSET Skills
    BY DEF Skills
  <2>3. CASE ev' = [ev EXCEPT ![e] = Rest(e, "wait")]
    BY <1>1, <1>2, <2>3 DEF Sweep
  <2>4. CASE \E first \in [Names -> Targets \cup {Global}] :
               LET found == {n \in Names : \E p \in Targets \cup {Global} : Loads(skill[<<p, n>>])}
                   kept == {<<first[n], n>> : n \in found}
               IN  ev' = [ev EXCEPT ![e].known = {k \in kept : IsDormant(skill[k])}, ![e].pc = "decide"]
    BY <2>1, <2>2, <2>4
  <2> QED
    BY <1>2, <2>3, <2>4 DEF Sweep
<1>3. ASSUME NEW known \in SUBSET Skills, ev' = [ev EXCEPT ![e].known = known], At(e, "decide"), UNCHANGED <<stamped, items>>
      PROVE  EvTyped'
  <2> DEFINE r == [ev[e] EXCEPT !.known = known]
  <2>1. r \in EvRecs /\ r.item = ev[e].item /\ r.batch = ev[e].batch
    BY <1>0 DEF EvRecs
  <2>2. Placed(r)
    BY <1>0, <1>3 DEF At, EvRecs, Placed, Marked, Working
  <2>3. ev' = [ev EXCEPT ![e] = r]
    BY <1>0, <1>3 DEF EvTyped
  <2> QED
    BY <1>0, <1>3, <2>1, <2>2, <2>3, EvStepAlone DEF EvTyped
<1>4. ASSUME Decide(e) PROVE TypeInv'
  <2>1. BoardTyped' /\ spent' = spent /\ UNCHANGED <<stamped, items>> /\ At(e, "decide")
    BY <1>0, <1>4 DEF Decide, BoardTyped
  <2>2. CASE ev' = [ev EXCEPT ![e] = Rest(e, "wait")] /\ UNCHANGED files
    BY <1>1, <1>4, <2>2 DEF Decide
  <2>3. ASSUME NEW k \in ev[e].known, UNCHANGED files,
               ev' = [ev EXCEPT ![e].known = @ \ {k}, ![e].pc = "track", ![e].at = k]
        PROVE  TypeInv'
    <3> DEFINE r == [ev[e] EXCEPT !.known = @ \ {k}, !.pc = "track", !.at = k]
    <3>1. r \in EvRecs /\ r.item = ev[e].item /\ r.batch = ev[e].batch /\ k \in Skills
      BY <1>0 DEF EvRecs, Pcs
    <3>2. Placed(r)
      BY <1>0, <2>1, <3>1 DEF At, EvRecs, Placed, Marked, Working
    <3>3. ev' = [ev EXCEPT ![e] = r]
      BY <1>0, <2>3 DEF EvTyped
    <3>4. EvTyped'
      BY <1>0, <2>1, <3>1, <3>2, <3>3, EvStepAlone DEF EvTyped
    <3> QED
      BY <1>4, <2>3, <3>4, TypeGo DEF Decide
  <2>4. ASSUME NEW k \in ev[e].known, skill' = [skill EXCEPT ![k] = NoSkill],
               promote' = (IF CopiesTo(k) THEN <<>> ELSE promote), trouble' = trouble \ {k},
               ev' = [ev EXCEPT ![e].known = @ \ {k}]
        PROVE  TypeInv'
    <3>1. k \in Skills /\ ev[e].known \ {k} \in SUBSET Skills
      BY <1>0 DEF EvRecs
    <3>2. ev' = [ev EXCEPT ![e].known = ev[e].known \ {k}]
      BY <1>0, <2>4 DEF EvTyped
    <3>3. EvTyped'
      BY <1>3, <2>1, <3>1, <3>2
    <3>4. NoSkill \in Files
      BY DEF NoSkill, Files
    <3>5. skill' \in [Skills -> Files]
      BY <1>0, <2>4, <3>4 DEF FilesTyped
    <3> QED
      BY <1>0, <2>1, <2>4, <3>3, <3>5 DEF TypeInv, FilesTyped
  <2>5. ASSUME NEW k \in ev[e].known, UNCHANGED files,
               ev' = [ev EXCEPT ![e].known = @ \ {k}, ![e].pc = "read", ![e].kind = "refine", ![e].at = k]
        PROVE  TypeInv'
    <3> DEFINE r == [ev[e] EXCEPT !.known = @ \ {k}, !.pc = "read", !.kind = "refine", !.at = k]
    <3>1. r \in EvRecs /\ r.item = ev[e].item /\ r.batch = ev[e].batch /\ k \in Skills
      BY <1>0 DEF EvRecs, Pcs, Kinds
    <3>2. Placed(r)
      BY <1>0, <2>1, <3>1 DEF At, EvRecs, Placed, Marked, Working
    <3>3. ev' = [ev EXCEPT ![e] = r]
      BY <1>0, <2>5 DEF EvTyped
    <3>4. EvTyped'
      BY <1>0, <2>1, <3>1, <3>2, <3>3, EvStepAlone DEF EvTyped
    <3> QED
      BY <1>4, <2>5, <3>4, TypeGo DEF Decide
  <2> QED
    BY <1>4, <2>2, <2>3, <2>4, <2>5 DEF Decide
<1> QED
  BY <1>2, <1>4

\* Steps of others: stamps, workers' claims, months and promotions.
LEMMA TypeOthers ==
  ASSUME TypeInv
  PROVE  /\ \A s \in Stamps, by \in Targets \cup {"human"}, p \in Evolvers \cup {"cli"} :
              AddStamp(s, by, p) => TypeInv'
         /\ \A i \in 1..Len(items) : OthersAct(i) => TypeInv'
         /\ Month => TypeInv'
         /\ \A t \in Targets, n \in Names, force \in BOOLEAN : PromoteStart(t, n, force) => TypeInv'
         /\ PromoteCopy \/ PromoteRead \/ PromoteStamp => TypeInv'
<1>0. BoardTyped /\ EvTyped /\ FilesTyped /\ Len(items) \in Nat
  BY DEF TypeInv, BoardTyped
<1>1. ASSUME NEW s \in Stamps, NEW by \in Targets \cup {"human"}, NEW p \in Evolvers \cup {"cli"},
             AddStamp(s, by, p)
      PROVE  TypeInv'
  <2>1. stamped' = stamped \cup {s} /\ UNCHANGED <<evolved, items, skill, promote, spent, trouble>>
    BY <1>1 DEF AddStamp
  <2>2. BoardTyped' /\ FilesTyped'
    BY <1>0, <2>1 DEF BoardTyped, FilesTyped
  <2>3. CASE p \in Evolvers /\ At(p, "wait")
    <3> DEFINE r == [ev[p] EXCEPT !.pc = "query"]
    <3>1. ev[p] \in EvRecs /\ Placed(ev[p]) /\ ev[p].batch \subseteq stamped /\ ev[p].item \in 0..Len(items)
      BY <1>0, <2>3 DEF EvTyped
    <3>2. r \in EvRecs /\ r.item = ev[p].item /\ r.batch = ev[p].batch
      BY <3>1 DEF EvRecs, Pcs
    <3>3. Placed(r)
      BY <2>3, <3>1 DEF At, EvRecs, Placed, Marked, Working
    <3>4. ev' = [ev EXCEPT ![p] = r]
      BY <1>0, <1>1, <2>3 DEF AddStamp, EvTyped
    <3>5. Len(items') = Len(items) /\ stamped \subseteq stamped'
      BY <2>1
    <3>6. r.item \in 0..Len(items') /\ r.batch \subseteq stamped'
      BY <3>1, <3>2, <3>5
    <3>7. Len(items') \in Nat /\ Len(items') >= Len(items)
      BY <1>0, <3>5
    <3>8. EvTyped'
      BY <1>0, <2>3, <3>2, <3>3, <3>4, <3>5, <3>6, <3>7, EvStep
    <3> QED
      BY <2>2, <3>8 DEF TypeInv
  <2>4. CASE ~(p \in Evolvers /\ At(p, "wait"))
    <3>1. ev' = ev
      BY <1>1, <2>4 DEF AddStamp
    <3>2. EvTyped'
      BY <1>0, <2>1, <3>1 DEF EvTyped
    <3> QED
      BY <2>2, <3>2 DEF TypeInv
  <2> QED
    BY <2>3, <2>4
<1>2. ASSUME items' \in Seq(ItemRecs), Len(items') = Len(items), UNCHANGED <<stamped, evolved, ev, spent, files>>
      PROVE  TypeInv'
  <2>1. EvTyped'
    BY <1>0, <1>2 DEF EvTyped
  <2> QED
    BY <1>0, <1>2, <2>1 DEF TypeInv, BoardTyped, FilesTyped, files
<1>3. ASSUME NEW i \in 1..Len(items), OthersAct(i) PROVE TypeInv'
  <2>1. items[i].by \in Rigs \cup {NoRig}
    <3>1. items[i] \in ItemRecs
      BY <1>0 DEF BoardTyped
    <3> QED
      BY <3>1 DEF ItemRecs
  <2>2. \E status \in Statuses, by \in Rigs \cup {NoRig} : Transition(i, status, by)
    BY <1>3, <2>1 DEF OthersAct, Statuses
  <2>3. items' \in Seq(ItemRecs) /\ Len(items') = Len(items)
    BY <1>0, <2>2, ItemMoves
  <2> QED
    BY <1>2, <1>3, <2>3 DEF OthersAct
<1>4. ASSUME Spend PROVE spent' \in 0..MaxEvents
  BY <1>0, <1>4, EvolverAssumption DEF Spend, FilesTyped
<1>5. ASSUME UNCHANGED <<stamped, evolved, items, ev>> PROVE BoardTyped' /\ EvTyped'
  BY <1>0, <1>5 DEF BoardTyped, EvTyped
<1>6. Month => TypeInv'
  BY <1>0, <1>4, <1>5, SkillsTyped DEF Month, TypeInv, FilesTyped
<1>7. ASSUME NEW t \in Targets, NEW n \in Names, NEW force \in BOOLEAN, PromoteStart(t, n, force) PROVE TypeInv'
  <2>1. promote' \in Promotions
    BY <1>7 DEF PromoteStart, Promotions
  <2>2. <<Global, n>> \in Skills
    BY DEF Skills
  <2>3. trouble' \subseteq Skills
    BY <1>0, <1>7, <2>2 DEF PromoteStart, FilesTyped
  <2> QED
    BY <1>0, <1>4, <1>5, <1>7, <2>1, <2>3 DEF PromoteStart, TypeInv, FilesTyped
<1>8. ASSUME PromoteCopy PROVE TypeInv'
  <2> DEFINE to == <<Global, promote.from[2]>>
  <2>1. promote \in Promotions
    BY <1>0, <1>8 DEF PromoteCopy, FilesTyped
  <2>2. to \in Skills /\ promote.from \in Skills
    BY <2>1 DEF Skills, Promotions
  <2>3. BoardTyped' /\ EvTyped'
    BY <1>5, <1>8 DEF PromoteCopy
  <2>4. PICK f \in promote.left :
          \/ /\ skill[promote.from][f] # None
             /\ skill' = [skill EXCEPT ![to] = [@ EXCEPT ![f] = skill[promote.from][f]]]
             /\ promote' = [promote EXCEPT !.left = @ \ {f}]
             /\ UNCHANGED <<spent, trouble>>
          \/ /\ skill[promote.from][f] = None
             /\ promote' = <<>> /\ trouble' = trouble \cup {to} /\ UNCHANGED <<skill, spent>>
          \/ /\ Spend
             /\ promote' = <<>> /\ trouble' = trouble \cup {to} /\ UNCHANGED skill
    BY <1>8 DEF PromoteCopy
  <2>5. CASE /\ skill' = [skill EXCEPT ![to] = [@ EXCEPT ![f] = skill[promote.from][f]]]
             /\ promote' = [promote EXCEPT !.left = @ \ {f}]
             /\ UNCHANGED <<spent, trouble>>
    <3>1. f \in {"text", "meta"} /\ skill[to] \in Files /\ skill[promote.from] \in Files
      BY <1>0, <2>1, <2>2 DEF FilesTyped, Promotions
    <3>2. [skill[to] EXCEPT ![f] = skill[promote.from][f]] \in Files
      BY <3>1 DEF Files
    <3>3. skill' = [skill EXCEPT ![to] = [skill[to] EXCEPT ![f] = skill[promote.from][f]]]
      BY <1>0, <2>2, <2>5 DEF FilesTyped
    <3>4. skill' \in [Skills -> Files]
      BY <1>0, <3>2, <3>3 DEF FilesTyped
    <3>5. promote' \in Promotions
      BY <2>1, <2>5 DEF Promotions
    <3> QED
      BY <1>0, <2>3, <2>5, <3>4, <3>5 DEF TypeInv, FilesTyped
  <2>6. CASE promote' = <<>> /\ trouble' = trouble \cup {to} /\ skill' = skill /\ (spent' = spent \/ Spend)
    BY <1>0, <1>4, <2>2, <2>3, <2>6 DEF TypeInv, FilesTyped
  <2> QED
    BY <2>4, <2>5, <2>6
<1>9. ASSUME PromoteRead \/ PromoteStamp PROVE TypeInv'
  <2> DEFINE to == <<Global, promote.from[2]>>
  <2>1. promote \in Promotions
    BY <1>0, <1>9 DEF PromoteRead, PromoteStamp, FilesTyped
  <2>2. to \in Skills /\ skill[to] \in Files
    BY <1>0, <2>1 DEF Skills, Promotions, FilesTyped
  <2>3. BoardTyped' /\ EvTyped'
    BY <1>5, <1>9 DEF PromoteRead, PromoteStamp
  <2>4. CASE PromoteRead
    <3>1. promote' \in {<<>>} \cup Promotions
      BY <2>1, <2>2, <2>4 DEF PromoteRead, Promotions, Files, IsMeta
    <3> QED
      BY <1>0, <2>3, <2>4, <3>1 DEF PromoteRead, TypeInv, FilesTyped
  <2>5. CASE PromoteStamp
    <3>1. PICK m \in Metas \cup {Torn} : /\ skill' = [skill EXCEPT ![to].meta = m]
                                        /\ trouble' \subseteq trouble \cup {to} /\ (spent' = spent \/ Spend)
      BY <2>1, <2>5 DEF PromoteStamp, Promotions
    <3>2. [skill[to] EXCEPT !.meta = m] \in Files
      BY <2>2 DEF Files
    <3>3. skill' = [skill EXCEPT ![to] = [skill[to] EXCEPT !.meta = m]]
      BY <1>0, <2>2, <3>1 DEF FilesTyped
    <3>4. skill' \in [Skills -> Files] /\ promote' = <<>>
      BY <1>0, <2>5, <3>2, <3>3 DEF FilesTyped, PromoteStamp
    <3> QED
      BY <1>0, <1>4, <2>2, <2>3, <3>1, <3>4 DEF TypeInv, FilesTyped
  <2> QED
    BY <1>9, <2>4, <2>5
<1> QED
  BY <1>1, <1>3, <1>6, <1>7, <1>8, <1>9

LEMMA TypeNext == TypeInv /\ [Next]_vars => TypeInv'
<1> SUFFICES ASSUME TypeInv, [Next]_vars PROVE TypeInv'
  OBVIOUS
<1>1. ASSUME NEW e \in Evolvers, Process(e) \/ WriteFails(e) \/ DbFails(e) \/ Crash(e) PROVE TypeInv'
  BY <1>1, TypeLoop, TypeStamp, TypeWrite, TypeFails, TypeSweep DEF Process
<1>2. CASE UNCHANGED vars
  BY <1>2 DEF vars, TypeInv, BoardTyped, EvTyped, FilesTyped
<1> QED
  BY <1>1, <1>2, TypeOthers DEF Next

\* The variables range over what the code can put in them, for any number of
\* server processes, rigs and stamps.
THEOREM TypeCorrect == Spec => []TypeOK
<1>1. TypeInv => TypeOK
  BY DEF TypeInv, BoardTyped, EvTyped, FilesTyped, TypeOK, EvRecs, ItemRecs
<1> QED
  BY <1>1, TypeInit, TypeNext, PTL DEF Spec

-----------------------------------------------------------------------------
(* A stamp is worked on once.                                              *)

\* A stamp in somebody's hands or with an item is marked; an evolver without
\* an item is the only trace of its stamp, and one with an item has that of
\* its stamp.
Traced ==
  /\ \A e \in Evolvers :
       /\ ev[e].stamp # NoStamp => ev[e].stamp \in evolved
       /\ ev[e].item # NoItem => items[ev[e].item].stamp = ev[e].stamp
       /\ ev[e].stamp # NoStamp /\ ev[e].item = NoItem =>
            \A i \in 1..Len(items) : items[i].stamp # ev[e].stamp
  /\ \A i \in 1..Len(items) : items[i].stamp \in evolved

\* An item that is claimed in the name of the evolvers.
OursHolds(item) == item.status = "Claimed" /\ VerifyClaimedBy(item.by, "evolver")

\* What a step does to what the evolvers have in their hands.
OthersKeep(e) == \A f \in Evolvers \ {e} : ev'[f] = ev[f]

ItemsKeep ==
  /\ Len(items') = Len(items) /\ Len(items) \in Nat
  /\ \A i \in 1..Len(items) : items'[i].stamp = items[i].stamp

HandKept(e) ==
  /\ ev'[e].stamp = ev[e].stamp /\ ev'[e].item = ev[e].item /\ evolved' = evolved /\ ItemsKeep
  /\ ev'[e].pc # "claim" \/ ev' = ev

\* What an evolver that lets go of a stamp or an item leaves behind.
StampSettled(e) == ev[e].stamp = NoStamp \/ ev[e].item # NoItem \/ ev[e].stamp \in lost'.stamps

ItemSettled(e) ==
  \/ ev[e].item = NoItem \/ ev[e].item \in lost'.items
  \/ ev[e].pc = "claim" \/ ~OursHolds(items'[ev[e].item])

HandEmptied(e) ==
  /\ ev'[e].stamp = NoStamp /\ ev'[e].item = NoItem /\ evolved' = evolved /\ ItemsKeep
  /\ StampSettled(e) /\ ItemSettled(e)

StampTakenUp(e) ==
  /\ ev[e].stamp = NoStamp /\ ev[e].item = NoItem
  /\ ev'[e].stamp \notin evolved \cup {NoStamp} /\ ev'[e].item = NoItem
  /\ evolved' = evolved \cup {ev'[e].stamp} /\ ItemsKeep

ItemPosted(e) ==
  /\ ev[e].stamp # NoStamp /\ ev[e].item = NoItem /\ evolved' = evolved
  /\ \/ ev'[e].stamp = ev[e].stamp /\ ev'[e].item = Len(items) + 1
     \/ ev'[e].stamp = NoStamp /\ ev'[e].item = NoItem
  /\ Len(items) \in Nat /\ Len(items') = Len(items) + 1
  /\ \A i \in 1..Len(items) : items'[i] = items[i]
  /\ items'[Len(items) + 1].stamp = ev[e].stamp

Handled(e) == OthersKeep(e) /\ (HandKept(e) \/ HandEmptied(e) \/ StampTakenUp(e) \/ ItemPosted(e))

\* Each of these keeps the traces and a single holder.
LEMMA TracedStep ==
  ASSUME TypeInv, Traced, OncePerStamp, NEW e \in Evolvers, Handled(e)
  PROVE  Traced' /\ OncePerStamp'
<1>0. /\ Len(items) \in Nat
      /\ \A f \in Evolvers : ev[f].item \in 0..Len(items)
      /\ \A f \in Evolvers : ev[f].item # NoItem => ev[f].stamp # NoStamp /\ ev[f].item \in 1..Len(items)
  <2>1. Len(items) \in Nat /\ \A f \in Evolvers : ev[f].item \in 0..Len(items)
    BY DEF TypeInv, BoardTyped, EvTyped
  <2>2. \A f \in Evolvers : ev[f].item # NoItem => ev[f].stamp # NoStamp
    BY DEF TypeInv, EvTyped, Placed
  <2> QED
    BY <2>1, <2>2 DEF NoItem
<1>1. CASE HandKept(e)
  <2>1. \A f \in Evolvers : ev'[f].stamp = ev[f].stamp /\ ev'[f].item = ev[f].item
    BY <1>1 DEF Handled, OthersKeep, HandKept
  <2>2. Traced'
    BY <1>0, <1>1, <2>1 DEF HandKept, ItemsKeep, Traced
  <2>3. OncePerStamp'
    BY <1>0, <1>1, <2>1 DEF HandKept, ItemsKeep, OncePerStamp
  <2> QED
    BY <2>2, <2>3
<1>2. CASE HandEmptied(e)
  <2>1. \A f \in Evolvers : \/ ev'[f].stamp = ev[f].stamp /\ ev'[f].item = ev[f].item
                            \/ ev'[f].stamp = NoStamp /\ ev'[f].item = NoItem
    BY <1>2 DEF Handled, OthersKeep, HandEmptied
  <2>2. Traced'
    BY <1>0, <1>2, <2>1 DEF HandEmptied, ItemsKeep, Traced
  <2>3. OncePerStamp'
    BY <1>0, <1>2, <2>1 DEF HandEmptied, ItemsKeep, OncePerStamp
  <2> QED
    BY <2>2, <2>3
<1>3. CASE StampTakenUp(e)
  <2> DEFINE s == ev'[e].stamp
  <2>1. s \notin evolved /\ s # NoStamp /\ evolved' = evolved \cup {s} /\ ItemsKeep /\ ev'[e].item = NoItem
    BY <1>3 DEF StampTakenUp
  <2>2. \A f \in Evolvers \ {e} : ev'[f].stamp = ev[f].stamp /\ ev'[f].item = ev[f].item /\ ev'[f].stamp # s
    BY <1>0, <2>1 DEF Handled, OthersKeep, Traced
  <2>3. \A i \in 1..Len(items) : items'[i].stamp = items[i].stamp /\ items'[i].stamp # s
    BY <2>1 DEF ItemsKeep, Traced
  <2> HIDE DEF s
  <2>4. ASSUME NEW f \in Evolvers
        PROVE  /\ ev'[f].stamp # NoStamp => ev'[f].stamp \in evolved'
               /\ ev'[f].item # NoItem => items'[ev'[f].item].stamp = ev'[f].stamp
               /\ ev'[f].stamp # NoStamp /\ ev'[f].item = NoItem =>
                    \A i \in 1..Len(items') : items'[i].stamp # ev'[f].stamp
    <3>1. CASE f = e
      BY <2>1, <2>3, <3>1 DEF ItemsKeep, s
    <3>2. CASE f # e
      BY <1>0, <2>1, <2>2, <2>3, <3>2 DEF ItemsKeep, Traced
    <3> QED
      BY <3>1, <3>2
  <2>5. Traced'
    BY <2>1, <2>3, <2>4 DEF ItemsKeep, Traced
  <2>6. OncePerStamp'
    BY <2>1, <2>2, <2>3 DEF ItemsKeep, OncePerStamp, s
  <2> QED
    BY <2>5, <2>6
<1>4. CASE ItemPosted(e)
  <2> DEFINE n == Len(items) + 1
             s == ev[e].stamp
  <2>1. /\ s # NoStamp /\ ev[e].item = NoItem /\ evolved' = evolved
        /\ \/ ev'[e].stamp = s /\ ev'[e].item = n
           \/ ev'[e].stamp = NoStamp /\ ev'[e].item = NoItem
        /\ Len(items') = n /\ items'[n].stamp = s /\ n # NoItem
        /\ \A i \in 1..Len(items) : items'[i] = items[i] /\ items[i].stamp # s
    BY <1>0, <1>4 DEF ItemPosted, Traced, NoItem
  <2>2. \A i \in 1..n : i = n \/ i \in 1..Len(items)
    BY <1>0
  <2>3. \A f \in Evolvers \ {e} : ev'[f].stamp = ev[f].stamp /\ ev'[f].item = ev[f].item
    BY DEF Handled, OthersKeep
  <2>4. \A f \in Evolvers \ {e} : ev[f].stamp # NoStamp => ev[f].stamp # s
    BY <2>1 DEF OncePerStamp
  <2>5. \A i \in 1..Len(items) : i \in 1..n
    BY <1>0
  <2> HIDE DEF n, s
  <2>6. ASSUME NEW f \in Evolvers
        PROVE  /\ ev'[f].stamp # NoStamp => ev'[f].stamp \in evolved'
               /\ ev'[f].item # NoItem => items'[ev'[f].item].stamp = ev'[f].stamp
               /\ ev'[f].stamp # NoStamp /\ ev'[f].item = NoItem =>
                    \A i \in 1..Len(items') : items'[i].stamp # ev'[f].stamp
    <3>1. CASE f = e
      BY <2>1, <3>1 DEF Traced, s
    <3>2. CASE f # e
      BY <1>0, <2>1, <2>2, <2>3, <2>4, <3>2 DEF Traced
    <3> QED
      BY <3>1, <3>2
  <2>7. \A i \in 1..n : items'[i].stamp \in evolved'
    BY <2>1, <2>2 DEF Traced, s
  <2>8. Traced'
    BY <2>1, <2>6, <2>7 DEF Traced
  <2>9. \A i, j \in 1..n : items'[i].stamp = items'[j].stamp => i = j
    BY <2>1, <2>2 DEF OncePerStamp
  <2>10. \A f, g \in Evolvers : ev'[f].stamp = ev'[g].stamp /\ ev'[f].stamp # NoStamp => f = g
    BY <2>1, <2>3, <2>4 DEF OncePerStamp, s
  <2>11. OncePerStamp'
    BY <2>1, <2>9, <2>10 DEF OncePerStamp
  <2> QED
    BY <2>8, <2>11
<1> QED
  BY <1>1, <1>2, <1>3, <1>4 DEF Handled

\* Items that stay, and items of which one moves, keep their stamps.
LEMMA ItemsKept ==
  ASSUME TypeInv
  PROVE  /\ items' = items => ItemsKeep
         /\ \A i \in 1..Len(items), status \in Statuses, by \in Rigs \cup {NoRig} :
              Transition(i, status, by) => ItemsKeep
         /\ \A i \in 1..Len(items), status \in Statuses :
              items' = [items EXCEPT ![i].status = status] => ItemsKeep
<1>1. BoardTyped /\ Len(items) \in Nat /\ items \in Seq(ItemRecs)
  BY DEF TypeInv, BoardTyped
<1>2. ASSUME NEW i \in 1..Len(items), NEW status \in Statuses, NEW by \in Rigs \cup {NoRig},
             Transition(i, status, by)
      PROVE  ItemsKeep
  <2>1. Len(items') = Len(items)
    BY <1>1, <1>2, ItemMoves
  <2>2. \A j \in 1..Len(items) : items[j] \in ItemRecs
    BY <1>1
  <2>3. \A j \in 1..Len(items) : items'[j].stamp = items[j].stamp
    BY <1>1, <1>2, <2>2 DEF Transition, ItemRecs
  <2> QED
    BY <1>1, <2>1, <2>3 DEF ItemsKeep
<1>3. ASSUME NEW i \in 1..Len(items), NEW status \in Statuses, items' = [items EXCEPT ![i].status = status]
      PROVE  ItemsKeep
  <2>1. Len(items') = Len(items)
    BY <1>1, <1>3
  <2>2. \A j \in 1..Len(items) : items[j] \in ItemRecs
    BY <1>1
  <2>3. \A j \in 1..Len(items) : items'[j].stamp = items[j].stamp
    BY <1>1, <1>3, <2>2 DEF ItemRecs
  <2> QED
    BY <1>1, <2>1, <2>3 DEF ItemsKeep
<1> QED
  BY <1>1, <1>2, <1>3 DEF ItemsKeep

\* A step of an evolver that keeps the items and the marks keeps or empties
\* its hands.
LEMMA Keeps ==
  ASSUME TypeInv, NEW e \in Evolvers, NEW r, ev' = [ev EXCEPT ![e] = r], evolved' = evolved, ItemsKeep,
         \/ r.stamp = ev[e].stamp /\ r.item = ev[e].item /\ r.pc # "claim"
         \/ r.stamp = NoStamp /\ r.item = NoItem /\ StampSettled(e) /\ ItemSettled(e)
  PROVE  Handled(e)
<1>1. ev \in [Evolvers -> EvRecs]
  BY DEF TypeInv, EvTyped
<1>2. OthersKeep(e) /\ ev'[e] = r
  BY <1>1 DEF OthersKeep
<1> QED
  BY <1>2 DEF Handled, HandKept, HandEmptied

\* An evolver without a stamp, or about to claim, can let go of what it has.
LEMMA Settled ==
  ASSUME TypeInv, NEW e \in Evolvers,
         \/ ev[e].pc = "claim"
         \/ ~Marked(ev[e]) /\ ~Working(ev[e])
         \/ Working(ev[e]) /\ ~OursHolds(items'[ev[e].item])
  PROVE  StampSettled(e) /\ ItemSettled(e)
BY DEF TypeInv, EvTyped, Placed, Marked, Working, StampSettled, ItemSettled

LEMMA RestHandled ==
  ASSUME TypeInv, NEW e \in Evolvers, NEW pc, ev' = [ev EXCEPT ![e] = Rest(e, pc)], evolved' = evolved, ItemsKeep,
         StampSettled(e), ItemSettled(e)
  PROVE  Handled(e)
<1>1. Rest(e, pc).stamp = NoStamp /\ Rest(e, pc).item = NoItem
  BY DEF Rest, Idle
<1> QED
  BY <1>1, Keeps

LEMMA DecideHandled ==
  ASSUME TypeInv, NEW e \in Evolvers, evolved' = evolved, ItemsKeep, ~Marked(ev[e]), ~Working(ev[e]),
         ev' = [ev EXCEPT ![e] = [Rest(e, "decide") EXCEPT !.known = ev[e].known]]
  PROVE  Handled(e)
<1> DEFINE r == [Rest(e, "decide") EXCEPT !.known = ev[e].known]
<1>1. r.stamp = NoStamp /\ r.item = NoItem
  BY DEF Rest, Idle
<1> HIDE DEF r
<1> QED
  BY <1>1, Keeps, Settled DEF r

LEMMA LeaveHandled ==
  ASSUME TypeInv, NEW e \in Evolvers, NEW pc, pc # "claim", Leave(e, pc), evolved' = evolved, ItemsKeep
  PROVE  Handled(e)
<1> DEFINE r == [Rest(e, pc) EXCEPT !.stamp = ev[e].stamp, !.item = ev[e].item]
<1>1. r.stamp = ev[e].stamp /\ r.item = ev[e].item /\ r.pc # "claim"
  BY DEF Rest, Idle
<1>2. ev' = [ev EXCEPT ![e] = r]
  BY DEF Leave
<1> HIDE DEF r
<1> QED
  BY <1>1, <1>2, Keeps

LEMMA GoHandled ==
  ASSUME TypeInv, NEW e \in Evolvers, NEW pc, pc # "claim", Go(e, pc), evolved' = evolved, ItemsKeep
  PROVE  Handled(e)
<1> DEFINE r == [ev[e] EXCEPT !.pc = pc]
<1>1. ev \in [Evolvers -> EvRecs]
  BY DEF TypeInv, EvTyped
<1>2. r.stamp = ev[e].stamp /\ r.item = ev[e].item /\ r.pc # "claim"
  BY <1>1 DEF EvRecs
<1>3. ev' = [ev EXCEPT ![e] = r]
  BY <1>1 DEF Go
<1> QED
  BY <1>2, <1>3, Keeps

\* After submit() or mark_stuck() the item is not claimed by an evolver.
LEMMA Ended ==
  ASSUME TypeInv, NEW e \in Evolvers, Submit(e) \/ Stick(e), ev[e].item \in 1..Len(items)
  PROVE  ~OursHolds(items'[ev[e].item])
<1> DEFINE i == ev[e].item
<1>1. items[i] \in ItemRecs /\ items \in Seq(ItemRecs)
  BY DEF TypeInv, BoardTyped
<1>2. CASE items' = items
  <2>1. items[i].status # "Claimed" \/ ~VerifyClaimedBy(items[i].by, "evolver")
    <3>1. ASSUME items[i].status = "Claimed", VerifyClaimedBy(items[i].by, "evolver") PROVE items'[i].status # items[i].status
      <4>1. NotHeldByOther(items[i].by, "evolver")
        BY <3>1 DEF VerifyClaimedBy, NotHeldByOther
      <4>2. items' = [items EXCEPT ![i].status = "Done"] \/ items' = [items EXCEPT ![i].status = "Stuck"]
        BY <3>1, <4>1 DEF Submit, Stick, Holds
      <4> QED
        BY <1>1, <3>1, <4>2 DEF ItemRecs
    <3> QED
      BY <1>2, <3>1
  <2> QED
    BY <1>2, <2>1 DEF OursHolds
<1>3. CASE items' = [items EXCEPT ![i].status = "Done"] \/ items' = [items EXCEPT ![i].status = "Stuck"]
  <2>1. items'[i].status \in {"Done", "Stuck"}
    BY <1>1, <1>3 DEF ItemRecs
  <2> QED
    BY <2>1 DEF OursHolds
<1> QED
  BY <1>2, <1>3 DEF Submit, Stick

\* Every step of an evolver is one of the four.
LEMMA EvolverHandles ==
  ASSUME TypeInv, NEW e \in Evolvers, Process(e) \/ WriteFails(e) \/ DbFails(e) \/ Crash(e)
  PROVE  Handled(e)
<1>0. /\ ev \in [Evolvers -> EvRecs] /\ ev[e] \in EvRecs /\ Placed(ev[e]) /\ (items' = items => ItemsKeep)
      /\ Len(items) \in Nat /\ items \in Seq(ItemRecs)
  BY ItemsKept DEF TypeInv, EvTyped, BoardTyped
<1>1. ASSUME Timer(e) \/ BatchDone(e) PROVE Handled(e)
  BY <1>0, <1>1, GoHandled DEF Timer, BatchDone
<1>2. ASSUME Query(e) PROVE Handled(e)
  <2>1. CASE ev' = [ev EXCEPT ![e].pc = IF ev[e].agent THEN "next" ELSE "create", ![e].batch = Unprocessed]
    <3> DEFINE r == [ev[e] EXCEPT !.pc = IF ev[e].agent THEN "next" ELSE "create", !.batch = Unprocessed]
    <3>1. r.stamp = ev[e].stamp /\ r.item = ev[e].item /\ r.pc # "claim"
      BY <1>0 DEF EvRecs
    <3>2. ev' = [ev EXCEPT ![e] = r]
      BY <1>0, <2>1
    <3> HIDE DEF r
    <3> QED
      BY <1>0, <1>2, <3>1, <3>2, Keeps DEF Query
  <2>2. CASE Go(e, "wait") \/ Go(e, "sweep")
    BY <1>0, <1>2, <2>2, GoHandled DEF Query
  <2> QED
    BY <1>2, <2>1, <2>2 DEF Query
<1>3. ASSUME AgentCreated(e) PROVE Handled(e)
  <2> DEFINE r == [ev[e] EXCEPT !.pc = "next", !.agent = TRUE]
  <2>1. r.stamp = ev[e].stamp /\ r.item = ev[e].item /\ r.pc # "claim"
    BY <1>0 DEF EvRecs
  <2>2. ev' = [ev EXCEPT ![e] = r]
    BY <1>0, <1>3 DEF AgentCreated
  <2> QED
    BY <1>0, <1>3, <2>1, <2>2, Keeps DEF AgentCreated
<1>4. ASSUME AgentRefused(e) \/ Crash(e) PROVE Handled(e)
  <2>1. Idle.stamp = NoStamp /\ Idle.item = NoItem
    BY DEF Idle
  <2>2. ev' = [ev EXCEPT ![e] = Idle] /\ evolved' = evolved /\ items' = items
    BY <1>4 DEF AgentRefused, Crash
  <2>3. StampSettled(e) /\ ItemSettled(e)
    <3>1. CASE AgentRefused(e)
      BY <3>1, Settled DEF AgentRefused, At, Marked, Working
    <3>2. CASE Crash(e)
      <4>1. ev[e].item # NoItem => ev[e].stamp # NoStamp
        BY <1>0 DEF Placed
      <4> QED
        BY <3>2, <4>1 DEF Crash, LoseStamp, LoseItem, StampSettled, ItemSettled
    <3> QED
      BY <1>4, <3>1, <3>2
  <2> QED
    BY <1>0, <1>4, <2>1, <2>2, <2>3, Keeps
<1>5. ASSUME Mark(e) PROVE Handled(e)
  <2>1. PICK s \in ev[e].batch :
          /\ evolved' = evolved \cup {s}
          /\ ev' = [ev EXCEPT ![e].batch = @ \ {s}, ![e].stamp = IF s \in evolved THEN NoStamp ELSE s,
                              ![e].pc = IF s \in evolved THEN "next" ELSE "load"]
    BY <1>5 DEF Mark
  <2> DEFINE r == [ev[e] EXCEPT !.batch = @ \ {s}, !.stamp = IF s \in evolved THEN NoStamp ELSE s,
                                !.pc = IF s \in evolved THEN "next" ELSE "load"]
  <2>2. s # NoStamp /\ ev[e].stamp = NoStamp /\ ev[e].item = NoItem
    BY <1>0, <1>5, EvolverAssumption DEF Mark, At, EvRecs, Placed, Marked, Working, NoStamp
  <2>3. r.stamp = (IF s \in evolved THEN NoStamp ELSE s) /\ r.item = NoItem
    BY <1>0, <2>2 DEF EvRecs
  <2>4. ev' = [ev EXCEPT ![e] = r]
    BY <1>0, <2>1
  <2> HIDE DEF r
  <2>5. CASE s \in evolved
    <3>1. evolved' = evolved /\ items' = items /\ r.stamp = NoStamp /\ StampSettled(e) /\ ItemSettled(e)
      BY <1>5, <2>1, <2>2, <2>3, <2>5 DEF Mark, StampSettled, ItemSettled
    <3> QED
      BY <1>0, <2>2, <2>3, <2>4, <3>1, Keeps
  <2>6. CASE s \notin evolved
    <3>1. OthersKeep(e) /\ ev'[e].stamp = s /\ ev'[e].item = NoItem
      BY <1>0, <2>3, <2>4, <2>6 DEF OthersKeep
    <3> QED
      BY <1>0, <1>5, <2>1, <2>2, <2>6, <3>1 DEF Mark, Handled, StampTakenUp
  <2> QED
    BY <2>5, <2>6
<1>6. ASSUME Load(e) PROVE Handled(e)
  <2> DEFINE known == LoadSkills(TargetOf[ev[e].stamp])
             r == [ev[e] EXCEPT !.known = known, !.count = known, !.pc = "count"]
  <2>1. r.stamp = ev[e].stamp /\ r.item = ev[e].item /\ r.pc # "claim"
    BY <1>0 DEF EvRecs
  <2>2. ev' = [ev EXCEPT ![e] = r]
    BY <1>0, <1>6 DEF Load
  <2> HIDE DEF r
  <2> QED
    BY <1>0, <1>6, <2>1, <2>2, Keeps DEF Load
<1>21. ASSUME ShouldCount(e) PROVE Handled(e)
  <2>1. PICK k \in ev[e].count :
          \/ ev' = [ev EXCEPT ![e].count = @ \ {k}, ![e].at = k, ![e].pc = "score"]
          \/ ev' = [ev EXCEPT ![e].count = @ \ {k}]
    BY <1>21 DEF ShouldCount
  <2> DEFINE r1 == [ev[e] EXCEPT !.count = @ \ {k}, !.at = k, !.pc = "score"]
             r2 == [ev[e] EXCEPT !.count = @ \ {k}]
  <2>2. \A r \in {r1, r2} : r.stamp = ev[e].stamp /\ r.item = ev[e].item /\ r.pc # "claim"
    BY <1>0, <1>21 DEF EvRecs, ShouldCount, At
  <2>3. \E r \in {r1, r2} : ev' = [ev EXCEPT ![e] = r]
    BY <1>0, <2>1
  <2> HIDE DEF r1, r2
  <2> QED
    BY <1>0, <1>21, <2>2, <2>3, Keeps DEF ShouldCount
<1>7. ASSUME Post(e) PROVE Handled(e)
  <2> DEFINE new == [status |-> "Open", by |-> NoRig, stamp |-> ev[e].stamp]
  <2>1. ev[e].stamp # NoStamp /\ ev[e].item = NoItem
    BY <1>0, <1>7 DEF Post, ReadyToPost, At, Placed, Marked, Working
  <2>2. items' = Append(items, new) /\ evolved' = evolved
    BY <1>7 DEF Post, Posted
  <2>3. /\ Len(items') = Len(items) + 1 /\ items'[Len(items) + 1] = new
        /\ \A i \in 1..Len(items) : items'[i] = items[i]
    BY <1>0, <2>2
  <2>4. ev' = [ev EXCEPT ![e] = [ev[e] EXCEPT !.item = Len(items) + 1, !.pc = "claim"]]
    BY <1>0, <1>7, <2>3 DEF Post
  <2>5. OthersKeep(e) /\ ev'[e].stamp = ev[e].stamp /\ ev'[e].item = Len(items) + 1
    BY <1>0, <2>4 DEF OthersKeep, EvRecs
  <2> QED
    BY <1>0, <2>1, <2>2, <2>3, <2>5 DEF Handled, ItemPosted
<1>8. ASSUME Working(ev[e]) PROVE ev[e].item \in 1..Len(items)
  <2>1. ev[e].item \in 0..Len(items) /\ ev[e].item # 0
    BY <1>0, <1>8 DEF TypeInv, EvTyped, Placed, NoItem
  <2> QED
    BY <1>0, <2>1
<1>9. ASSUME Claim(e) PROVE Handled(e)
  <2>1. ev[e].item \in 1..Len(items)
    BY <1>8, <1>9 DEF Claim, At, Working
  <2>2. CASE Transition(ev[e].item, "Claimed", "evolver") /\ Go(e, "ask")
    <3>1. ItemsKeep
      BY <2>1, <2>2, ItemsKept, EvolverAssumption DEF Statuses
    <3> QED
      BY <1>9, <2>2, <3>1, GoHandled DEF Claim
  <2>3. CASE Done(e) /\ items' = items
    BY <1>0, <1>9, <2>3, RestHandled, Settled DEF Claim, Done, At
  <2> QED
    BY <1>9, <2>2, <2>3 DEF Claim
<1>10. ASSUME NEW kind, NEW k, WriteAt(e, kind, k), evolved' = evolved, ItemsKeep PROVE Handled(e)
  <2> DEFINE pc == IF kind = "create" THEN "write" ELSE "read"
             r == [ev[e] EXCEPT !.pc = pc, !.kind = kind, !.at = k, !.known = {}]
  <2>1. r.stamp = ev[e].stamp /\ r.item = ev[e].item /\ r.pc # "claim"
    BY <1>0 DEF EvRecs
  <2>2. ev' = [ev EXCEPT ![e] = r]
    BY <1>0, <1>10 DEF WriteAt
  <2> HIDE DEF r
  <2> QED
    BY <1>10, <2>1, <2>2, Keeps
<1>11. ASSUME Ask(e) PROVE Handled(e)
  <2>0. evolved' = evolved /\ ItemsKeep
    BY <1>0, <1>11 DEF Ask
  <2>1. ASSUME NEW kind, NEW k, ev' = [ev EXCEPT ![e].pc = "ask again", ![e].kind = kind, ![e].at = k] PROVE Handled(e)
    <3> DEFINE r == [ev[e] EXCEPT !.pc = "ask again", !.kind = kind, !.at = k]
    <3>1. r.stamp = ev[e].stamp /\ r.item = ev[e].item /\ r.pc # "claim"
      BY <1>0 DEF EvRecs
    <3>2. ev' = [ev EXCEPT ![e] = r]
      BY <1>0, <2>1
    <3> HIDE DEF r
    <3> QED
      BY <2>0, <3>1, <3>2, Keeps
  <2>2. ASSUME ev' = [ev EXCEPT ![e].pc = "ask again", ![e].kind = "create"] PROVE Handled(e)
    <3> DEFINE r == [ev[e] EXCEPT !.pc = "ask again", !.kind = "create"]
    <3>1. r.stamp = ev[e].stamp /\ r.item = ev[e].item /\ r.pc # "claim"
      BY <1>0 DEF EvRecs
    <3>2. ev' = [ev EXCEPT ![e] = r]
      BY <1>0, <2>2
    <3> HIDE DEF r
    <3> QED
      BY <2>0, <3>1, <3>2, Keeps
  <2>3. ASSUME Leave(e, "stick") \/ Leave(e, "submit") PROVE Handled(e)
    BY <2>0, <2>3, LeaveHandled
  <2> QED
    BY <1>11, <2>0, <2>1, <2>2, <2>3, <1>10 DEF Ask
<1>12. ASSUME AskAgain(e) PROVE Handled(e)
  <2>0. evolved' = evolved /\ ItemsKeep
    BY <1>0, <1>12 DEF AskAgain
  <2>3. ASSUME Leave(e, "stick") \/ Leave(e, "submit") PROVE Handled(e)
    BY <2>0, <2>3, LeaveHandled
  <2> QED
    BY <1>12, <2>0, <2>3, <1>10 DEF AskAgain
<1>13. ASSUME Fail(e), ev[e].pc \in {"write", "meta"}, evolved' = evolved, items' = items PROVE Handled(e)
  <2>1. ~Marked(ev[e]) /\ (ev[e].kind = "refine" => ~Working(ev[e]))
    BY <1>13 DEF Marked, Working
  <2> QED
    BY <1>0, <1>13, <2>1, DecideHandled, LeaveHandled DEF Fail
<1>14. ASSUME WriteText(e) PROVE Handled(e)
  <2>0. evolved' = evolved /\ items' = items /\ At(e, "write")
    BY <1>14 DEF WriteText
  <2>1. ASSUME NEW text, NEW pc \in {"track", "meta"}, ev' = [ev EXCEPT ![e].text = text, ![e].pc = pc]
        PROVE  Handled(e)
    <3> DEFINE r == [ev[e] EXCEPT !.text = text, !.pc = pc]
    <3>1. r.stamp = ev[e].stamp /\ r.item = ev[e].item /\ r.pc # "claim"
      BY <1>0 DEF EvRecs
    <3>2. ev' = [ev EXCEPT ![e] = r]
      BY <1>0, <2>1
    <3> HIDE DEF r
    <3> QED
      BY <1>0, <2>0, <3>1, <3>2, Keeps
  <2>2. CASE Fail(e)
    BY <1>13, <2>0, <2>2 DEF At
  <2>3. \/ Fail(e)
        \/ ev' = [ev EXCEPT ![e].text = NewText(e), 
                            ![e].pc = IF ev[e].kind = "refine" /\ ~IsMeta(ev[e].old) THEN "track" ELSE "meta"]
    BY <1>14 DEF WriteText
  <2> QED
    BY <2>1, <2>2, <2>3
<1>22. ASSUME CarryOn(e), ev[e].pc \in {"score", "scored", "track", "tracked"}, evolved' = evolved, items' = items
       PROVE  Handled(e)
  <2>1. CASE ev[e].pc \in {"score", "scored"}
    <3> DEFINE r == [Rest(e, "count") EXCEPT !.stamp = ev[e].stamp, !.known = ev[e].known, !.count = ev[e].count]
    <3>1. ev' = [ev EXCEPT ![e] = r]
      BY <1>22, <2>1 DEF CarryOn
    <3>2. r.stamp = ev[e].stamp /\ r.item = NoItem /\ r.pc = "count"
      BY DEF Rest, Idle
    <3>3. ev[e].item = NoItem
      BY <1>0, <2>1 DEF Placed, Working
    <3> HIDE DEF r
    <3> QED
      BY <1>0, <1>22, <3>1, <3>2, <3>3, Keeps
  <2>2. CASE ev[e].pc \in {"track", "tracked"}
    BY <1>0, <1>22, <2>2, DecideHandled DEF CarryOn, Marked, Working
  <2> QED
    BY <1>22, <2>1, <2>2
<1>23. ASSUME ReadMeta(e) PROVE Handled(e)
  <2>0. evolved' = evolved /\ items' = items
    BY <1>23 DEF ReadMeta
  <2>1. ASSUME NEW old, ev' = [ev EXCEPT ![e].old = old, ![e].pc = "write"] PROVE Handled(e)
    <3> DEFINE r == [ev[e] EXCEPT !.old = old, !.pc = "write"]
    <3>1. r.stamp = ev[e].stamp /\ r.item = ev[e].item /\ r.pc # "claim"
      BY <1>0 DEF EvRecs
    <3>2. ev' = [ev EXCEPT ![e] = r]
      BY <1>0, <2>1
    <3> HIDE DEF r
    <3> QED
      BY <1>0, <2>0, <3>1, <3>2, Keeps
  <2>2. ASSUME NEW old, NEW text, NEW pc \in {"scored", "tracked"},
               ev' = [ev EXCEPT ![e].old = old, ![e].text = text, ![e].pc = pc]
        PROVE  Handled(e)
    <3> DEFINE r == [ev[e] EXCEPT !.old = old, !.text = text, !.pc = pc]
    <3>1. r.stamp = ev[e].stamp /\ r.item = ev[e].item /\ r.pc # "claim"
      BY <1>0 DEF EvRecs
    <3>2. ev' = [ev EXCEPT ![e] = r]
      BY <1>0, <2>2
    <3> HIDE DEF r
    <3> QED
      BY <1>0, <2>0, <3>1, <3>2, Keeps
  <2>3. \/ ev' = [ev EXCEPT ![e].old = skill[ev[e].at].meta, ![e].pc = "write"]
        \/ ev' = [ev EXCEPT ![e].old = skill[ev[e].at].meta, ![e].text = skill[ev[e].at].text,
                            ![e].pc = IF At(e, "score") THEN "scored" ELSE "tracked"]
        \/ ev[e].pc \in {"score", "track"} /\ CarryOn(e)
    BY <1>23 DEF ReadMeta
  <2> QED
    BY <1>22, <2>0, <2>1, <2>2, <2>3
<1>24. ASSUME WriteBack(e) PROVE Handled(e)
  BY <1>22, <1>24 DEF WriteBack
<1>25. ASSUME DbFails(e) PROVE Handled(e)
  <2>0. evolved' = evolved
    BY <1>25 DEF DbFails
  <2>1. CASE At(e, "query") /\ Go(e, "wait") /\ items' = items
    BY <1>0, <2>0, <2>1, GoHandled
  <2>2. CASE At(e, "next") /\ items' = items /\ \E s \in ev[e].batch : ev' = [ev EXCEPT ![e].batch = @ \ {s}]
    <3>1. PICK s \in ev[e].batch : ev' = [ev EXCEPT ![e].batch = @ \ {s}]
      BY <2>2
    <3> DEFINE r == [ev[e] EXCEPT !.batch = @ \ {s}]
    <3>2. r.stamp = ev[e].stamp /\ r.item = ev[e].item /\ r.pc # "claim"
      BY <1>0, <2>2 DEF EvRecs, At
    <3>3. ev' = [ev EXCEPT ![e] = r]
      BY <1>0, <3>1
    <3> HIDE DEF r
    <3> QED
      BY <1>0, <2>0, <2>2, <3>2, <3>3, Keeps
  <2>3. CASE ReadyToPost(e) /\ Done(e) /\ LoseStamp(e) /\ items' = items
    <3>1. ev[e].item = NoItem
      BY <1>0, <2>3 DEF ReadyToPost, At, Placed, Working
    <3>2. StampSettled(e) /\ ItemSettled(e)
      BY <2>3, <3>1 DEF LoseStamp, StampSettled, ItemSettled
    <3> QED
      BY <1>0, <2>0, <2>3, <3>2, RestHandled DEF Done
  <2>4. CASE ReadyToPost(e) /\ Done(e) /\ Posted(e)
    <3> DEFINE new == [status |-> "Open", by |-> NoRig, stamp |-> ev[e].stamp]
               r == Rest(e, "next")
    <3>1. ev[e].stamp # NoStamp /\ ev[e].item = NoItem
      BY <1>0, <2>4 DEF ReadyToPost, At, Placed, Marked, Working
    <3>2. /\ Len(items') = Len(items) + 1 /\ items'[Len(items) + 1] = new
          /\ \A i \in 1..Len(items) : items'[i] = items[i]
      BY <1>0, <2>4 DEF Posted
    <3>3. r.stamp = NoStamp /\ r.item = NoItem
      BY DEF Rest, Idle
    <3>4. OthersKeep(e) /\ ev'[e] = r
      BY <1>0, <2>4 DEF Done, OthersKeep
    <3> HIDE DEF r
    <3> QED
      BY <1>0, <2>0, <3>1, <3>2, <3>3, <3>4 DEF Handled, ItemPosted
  <2>5. CASE At(e, "claim") /\ Done(e) /\ items' = items
    BY <1>0, <2>0, <2>5, RestHandled, Settled DEF Done, At
  <2>6. CASE ev[e].pc \in {"submit", "stick"} /\ Done(e) /\ LoseItem(e) /\ items' = items
    <3>1. ev[e].item # NoItem
      BY <1>0, <2>6 DEF Placed, Working
    <3>2. StampSettled(e) /\ ItemSettled(e)
      BY <2>6, <3>1 DEF LoseItem, StampSettled, ItemSettled
    <3> QED
      BY <1>0, <2>0, <2>6, <3>2, RestHandled DEF Done
  <2> QED
    BY <1>25, <2>1, <2>2, <2>3, <2>4, <2>5, <2>6 DEF DbFails
<1>15. ASSUME WriteMeta(e) PROVE Handled(e)
  BY <1>0, <1>13, <1>15, GoHandled, LeaveHandled DEF WriteMeta, At
<1>16. ASSUME WriteFails(e) PROVE Handled(e)
  BY <1>13, <1>16, <1>22 DEF WriteFails, Writing
<1>17. ASSUME Submit(e) \/ Stick(e) PROVE Handled(e)
  <2>1. ev[e].item \in 1..Len(items)
    BY <1>8, <1>17 DEF Submit, Stick, At, Working
  <2>2. ItemsKeep
    BY <1>0, <1>17, <2>1, ItemsKept DEF Submit, Stick, Statuses
  <2>3. StampSettled(e) /\ ItemSettled(e)
    <3>1. ~OursHolds(items'[ev[e].item])
      BY <1>0, <1>17, <2>1, Ended
    <3> QED
      BY <1>17, <3>1, Settled DEF Submit, Stick, At, Working
  <2> QED
    BY <1>17, <2>2, <2>3, RestHandled DEF Submit, Stick, Done
<1>18. ASSUME Sweep(e) PROVE Handled(e)
  <2>0. evolved' = evolved /\ ItemsKeep
    BY <1>0, <1>18 DEF Sweep
  <2>1. ASSUME NEW known, ev' = [ev EXCEPT ![e].known = known, ![e].pc = "decide"] PROVE Handled(e)
    <3> DEFINE r == [ev[e] EXCEPT !.known = known, !.pc = "decide"]
    <3>1. r.stamp = ev[e].stamp /\ r.item = ev[e].item /\ r.pc # "claim"
      BY <1>0 DEF EvRecs
    <3>2. ev' = [ev EXCEPT ![e] = r]
      BY <1>0, <2>1
    <3> HIDE DEF r
    <3> QED
      BY <2>0, <3>1, <3>2, Keeps
  <2> QED
    BY <1>18, <2>0, <2>1, RestHandled, Settled DEF Sweep, At, Marked, Working
<1>19. ASSUME Decide(e) PROVE Handled(e)
  <2>0. evolved' = evolved /\ ItemsKeep
    BY <1>0, <1>19 DEF Decide
  <2>1. ASSUME NEW known, ev' = [ev EXCEPT ![e].known = known] PROVE Handled(e)
    <3> DEFINE r == [ev[e] EXCEPT !.known = known]
    <3>1. r.stamp = ev[e].stamp /\ r.item = ev[e].item /\ r.pc # "claim"
      BY <1>0, <1>19 DEF EvRecs, Decide, At
    <3>2. ev' = [ev EXCEPT ![e] = r]
      BY <1>0, <2>1
    <3> HIDE DEF r
    <3> QED
      BY <2>0, <3>1, <3>2, Keeps
  <2>2. ASSUME NEW known, NEW k, ev' = [ev EXCEPT ![e].known = known, ![e].pc = "read", ![e].kind = "refine", ![e].at = k]
        PROVE  Handled(e)
    <3> DEFINE r == [ev[e] EXCEPT !.known = known, !.pc = "read", !.kind = "refine", !.at = k]
    <3>1. r.stamp = ev[e].stamp /\ r.item = ev[e].item /\ r.pc # "claim"
      BY <1>0 DEF EvRecs
    <3>2. ev' = [ev EXCEPT ![e] = r]
      BY <1>0, <2>2
    <3> HIDE DEF r
    <3> QED
      BY <2>0, <3>1, <3>2, Keeps
  <2>5. ASSUME NEW known, NEW k, ev' = [ev EXCEPT ![e].known = known, ![e].pc = "track", ![e].at = k]
        PROVE  Handled(e)
    <3> DEFINE r == [ev[e] EXCEPT !.known = known, !.pc = "track", !.at = k]
    <3>1. r.stamp = ev[e].stamp /\ r.item = ev[e].item /\ r.pc # "claim"
      BY <1>0 DEF EvRecs
    <3>2. ev' = [ev EXCEPT ![e] = r]
      BY <1>0, <2>5
    <3> HIDE DEF r
    <3> QED
      BY <2>0, <3>1, <3>2, Keeps
  <2>3. \A k : [ev EXCEPT ![e].known = @ \ {k}] = [ev EXCEPT ![e].known = ev[e].known \ {k}]
    BY <1>0 DEF EvRecs
  <2>4. \A k : /\ [ev EXCEPT ![e].known = @ \ {k}, ![e].pc = "read", ![e].kind = "refine", ![e].at = k]
                = [ev EXCEPT ![e].known = ev[e].known \ {k}, ![e].pc = "read", ![e].kind = "refine", ![e].at = k]
             /\ [ev EXCEPT ![e].known = @ \ {k}, ![e].pc = "track", ![e].at = k]
                = [ev EXCEPT ![e].known = ev[e].known \ {k}, ![e].pc = "track", ![e].at = k]
    BY <1>0 DEF EvRecs
  <2> QED
    BY <1>19, <2>0, <2>1, <2>2, <2>3, <2>4, <2>5, RestHandled, Settled DEF Decide, At, Marked, Working
<1> QED
  BY <1>1, <1>2, <1>3, <1>4, <1>5, <1>6, <1>7, <1>9, <1>11, <1>12, <1>14, <1>15, <1>16, <1>17, <1>18, <1>19,
     <1>21, <1>23, <1>24, <1>25
     DEF Process

\* So is every other step: nobody's hands are touched.
LEMMA NextHandles ==
  ASSUME TypeInv, [Next]_vars
  PROVE  \E e \in Evolvers : Handled(e)
<1>0. ev \in [Evolvers -> EvRecs] /\ (items' = items => ItemsKeep) /\ Survivor \in Evolvers
  BY ItemsKept, EvolverAssumption DEF TypeInv, EvTyped
<1>1. ASSUME NEW e \in Evolvers, Process(e) \/ WriteFails(e) \/ DbFails(e) \/ Crash(e) PROVE Handled(e)
  BY <1>1, EvolverHandles
<1>2. ASSUME ev' = ev, evolved' = evolved, ItemsKeep PROVE Handled(Survivor)
  BY <1>0, <1>2 DEF Handled, OthersKeep, HandKept
<1>3. ASSUME NEW s \in Stamps, NEW by \in Targets \cup {"human"}, NEW p \in Evolvers \cup {"cli"},
             AddStamp(s, by, p)
      PROVE  \E e \in Evolvers : Handled(e)
  <2>1. CASE p \in Evolvers /\ At(p, "wait")
    <3>1. Go(p, "query")
      BY <1>3, <2>1 DEF AddStamp, Go
    <3> QED
      BY <1>0, <1>3, <2>1, <3>1, GoHandled DEF AddStamp
  <2>2. CASE ~(p \in Evolvers /\ At(p, "wait"))
    BY <1>0, <1>2, <1>3, <2>2 DEF AddStamp
  <2> QED
    BY <2>1, <2>2
<1>4. ASSUME NEW i \in 1..Len(items), OthersAct(i) PROVE Handled(Survivor)
  <2>1. items[i] \in ItemRecs
    BY DEF TypeInv, BoardTyped
  <2>2. \E status \in Statuses, by \in Rigs \cup {NoRig} : Transition(i, status, by)
    BY <1>4, <2>1 DEF OthersAct, Statuses, ItemRecs
  <2> QED
    BY <1>2, <1>4, <2>2, ItemsKept DEF OthersAct
<1>5. ASSUME Month \/ PromoteCopy \/ PromoteRead \/ PromoteStamp \/ \E t \in Targets, n \in Names, force \in BOOLEAN : PromoteStart(t, n, force)
      PROVE  Handled(Survivor)
  BY <1>0, <1>2, <1>5 DEF Month, PromoteCopy, PromoteRead, PromoteStamp, PromoteStart
<1>6. CASE UNCHANGED vars
  BY <1>0, <1>2, <1>6 DEF vars
<1> QED
  BY <1>0, <1>1, <1>3, <1>4, <1>5, <1>6 DEF Next

LEMMA TracedInit == Init => Traced /\ OncePerStamp
<1> SUFFICES ASSUME Init PROVE Traced /\ OncePerStamp
  OBVIOUS
<1>1. \A e \in Evolvers : ev[e].stamp = NoStamp /\ ev[e].item = NoItem
  BY DEF Init, Idle
<1>2. Len(items) = 0 /\ 1..0 = {}
  BY DEF Init
<1> QED
  BY <1>1, <1>2 DEF Traced, OncePerStamp

\* A low stamp is worked on once: by one evolver and with one work item, for
\* any number of processes that read it as unprocessed.
THEOREM WorkedOnOnce == Spec => []OncePerStamp
<1>1. TypeInv /\ Traced /\ OncePerStamp /\ [Next]_vars => Traced' /\ OncePerStamp'
  BY NextHandles, TracedStep
<1> QED
  BY <1>1, TypeInit, TypeNext, TracedInit, PTL DEF Spec

-----------------------------------------------------------------------------
(* Nothing is left behind but by a crash or a refused database call.       *)

\* A marked stamp is in somebody's hands, has an item, or was lost.
Accounted(s) ==
  \/ s \in lost.stamps
  \/ \E e \in Evolvers : ev[e].stamp = s
  \/ \E i \in 1..Len(items) : items[i].stamp = s

StampsLeft == \A s \in evolved : Accounted(s)

\* An item that is claimed in the name of the evolvers is worked on by one
\* that has claimed it, or was lost.
WorksOn(e, i) == ev[e].item = i /\ ev[e].pc # "claim"

ItemsLeft ==
  \A i \in 1..Len(items) : OursHolds(items[i]) => i \in lost.items \/ \E e \in Evolvers : WorksOn(e, i)

\* What is lost stays lost.
LEMMA LostGrows ==
  ASSUME [Next]_vars
  PROVE  lost.stamps \subseteq lost'.stamps /\ lost.items \subseteq lost'.items
<1>1. ASSUME NEW e \in Evolvers, Process(e) \/ WriteFails(e) PROVE lost' = lost
  <2>1. CASE Query(e) \/ AgentCreated(e) \/ AgentRefused(e) \/ Mark(e) \/ BatchDone(e) \/ Timer(e)
    BY <2>1 DEF Query, AgentCreated, AgentRefused, Mark, BatchDone, Timer
  <2>2. CASE Load(e) \/ ShouldCount(e) \/ Post(e) \/ Claim(e) \/ Ask(e) \/ AskAgain(e)
    BY <2>2 DEF Load, ShouldCount, Post, Claim, Ask, AskAgain
  <2>3. CASE WriteText(e) \/ WriteMeta(e) \/ WriteFails(e) \/ Submit(e) \/ Stick(e)
    BY <2>3 DEF WriteText, WriteMeta, WriteFails, Submit, Stick
  <2>4. CASE Sweep(e) \/ Decide(e) \/ ReadMeta(e) \/ WriteBack(e)
    BY <2>4 DEF Sweep, Decide, ReadMeta, WriteBack
  <2> QED
    BY <1>1, <2>1, <2>2, <2>3, <2>4 DEF Process
<1>2. ASSUME NEW e \in Evolvers, DbFails(e) \/ Crash(e)
      PROVE  lost.stamps \subseteq lost'.stamps /\ lost.items \subseteq lost'.items
  <2>1. lost' = lost \/ LoseStamp(e) \/ LoseItem(e)
    BY <1>2 DEF DbFails, Crash
  <2> QED
    BY <2>1 DEF LoseStamp, LoseItem
<1>3. ASSUME \/ \E s \in Stamps, by \in Targets \cup {"human"}, p \in Evolvers \cup {"cli"} : AddStamp(s, by, p)
             \/ \E i \in 1..Len(items) : OthersAct(i)
             \/ Month \/ PromoteCopy \/ PromoteRead \/ PromoteStamp
             \/ \E t \in Targets, n \in Names, force \in BOOLEAN : PromoteStart(t, n, force)
             \/ UNCHANGED vars
      PROVE  lost' = lost
  BY <1>3 DEF AddStamp, OthersAct, Month, PromoteCopy, PromoteRead, PromoteStamp, PromoteStart, vars
<1> QED
  BY <1>1, <1>2, <1>3 DEF Next

\* The marked stamps stay accounted for.
LEMMA StampsStep ==
  ASSUME TypeInv, Traced, StampsLeft, [Next]_vars
  PROVE  StampsLeft'
<1>1. PICK e \in Evolvers : Handled(e)
  BY NextHandles
<1>2. lost.stamps \subseteq lost'.stamps
  BY LostGrows
<1>3. /\ Len(items) \in Nat
      /\ \A f \in Evolvers : ev[f].item \in 0..Len(items)
  BY DEF TypeInv, BoardTyped, EvTyped
<1>4. ASSUME ItemsKeep PROVE \A s : (\E i \in 1..Len(items) : items[i].stamp = s) => Accounted(s)'
  BY <1>4 DEF ItemsKeep, Accounted
<1>5. CASE HandKept(e)
  <2>1. \A f \in Evolvers : ev'[f].stamp = ev[f].stamp
    BY <1>1, <1>5 DEF Handled, OthersKeep, HandKept
  <2> QED
    BY <1>2, <1>4, <1>5, <2>1 DEF HandKept, StampsLeft, Accounted
<1>6. CASE HandEmptied(e)
  <2>1. \A f \in Evolvers \ {e} : ev'[f].stamp = ev[f].stamp
    BY <1>1 DEF Handled, OthersKeep
  <2>2. ASSUME NEW s, s = ev[e].stamp, s # NoStamp PROVE Accounted(s)'
    <3>1. CASE ev[e].item # NoItem
      <4>1. ev[e].item \in 1..Len(items) /\ items[ev[e].item].stamp = s
        BY <1>3, <2>2, <3>1 DEF Traced, NoItem
      <4> QED
        BY <1>4, <1>6, <4>1 DEF HandEmptied
    <3>2. CASE s \in lost'.stamps
      BY <3>2 DEF Accounted
    <3> QED
      BY <1>6, <2>2, <3>1, <3>2 DEF HandEmptied, StampSettled
  <2>3. ASSUME NEW s \in evolved PROVE Accounted(s)'
    <3>1. CASE s \in lost.stamps
      BY <1>2, <3>1 DEF Accounted
    <3>2. CASE \E i \in 1..Len(items) : items[i].stamp = s
      BY <1>4, <1>6, <3>2 DEF HandEmptied
    <3>3. ASSUME NEW f \in Evolvers, ev[f].stamp = s PROVE Accounted(s)'
      <4>1. CASE f = e
        <5>1. s # NoStamp
          BY EvolverAssumption DEF TypeInv, BoardTyped, NoStamp
        <5> QED
          BY <2>2, <3>3, <4>1, <5>1
      <4>2. CASE f # e
        BY <2>1, <3>3, <4>2 DEF Accounted
      <4> QED
        BY <4>1, <4>2
    <3> QED
      BY <3>1, <3>2, <3>3 DEF StampsLeft, Accounted
  <2> QED
    BY <1>6, <2>3 DEF HandEmptied, StampsLeft
<1>7. CASE StampTakenUp(e)
  <2>1. evolved' = evolved \cup {ev'[e].stamp} /\ ItemsKeep
    BY <1>7 DEF StampTakenUp
  <2>2. ASSUME NEW t, t = ev'[e].stamp PROVE Accounted(t)'
    BY <2>2 DEF Accounted
  <2>3. ASSUME NEW s \in evolved PROVE Accounted(s)'
    <3>1. CASE s \in lost.stamps
      BY <1>2, <3>1 DEF Accounted
    <3>2. CASE \E i \in 1..Len(items) : items[i].stamp = s
      BY <1>4, <2>1, <3>2
    <3>3. ASSUME NEW f \in Evolvers, ev[f].stamp = s PROVE Accounted(s)'
      <4>1. f # e
        BY <1>7, <3>3, EvolverAssumption DEF StampTakenUp, TypeInv, BoardTyped, NoStamp
      <4> QED
        BY <1>1, <3>3, <4>1 DEF Handled, OthersKeep, Accounted
    <3> QED
      BY <3>1, <3>2, <3>3 DEF StampsLeft, Accounted
  <2> QED
    BY <2>1, <2>2, <2>3 DEF StampsLeft
<1>8. CASE ItemPosted(e)
  <2>1. \A f \in Evolvers \ {e} : ev'[f].stamp = ev[f].stamp
    BY <1>1 DEF Handled, OthersKeep
  <2>2. \A i \in 1..Len(items) : i \in 1..Len(items') /\ items'[i] = items[i]
    BY <1>3, <1>8 DEF ItemPosted
  <2>3. Len(items) + 1 \in 1..Len(items') /\ items'[Len(items) + 1].stamp = ev[e].stamp
    BY <1>3, <1>8 DEF ItemPosted
  <2>4. ASSUME NEW s \in evolved PROVE Accounted(s)'
    <3>1. CASE s \in lost.stamps \/ \E i \in 1..Len(items) : items[i].stamp = s
      BY <1>2, <2>2, <3>1 DEF Accounted
    <3>2. ASSUME NEW f \in Evolvers, ev[f].stamp = s PROVE Accounted(s)'
      <4>1. CASE f = e
        BY <2>3, <3>2, <4>1 DEF Accounted
      <4>2. CASE f # e
        BY <2>1, <3>2, <4>2 DEF Accounted
      <4> QED
        BY <4>1, <4>2
    <3> QED
      BY <3>1, <3>2 DEF StampsLeft, Accounted
  <2> QED
    BY <1>8, <2>4 DEF ItemPosted, StampsLeft
<1> QED
  BY <1>1, <1>5, <1>6, <1>7, <1>8 DEF Handled

-----------------------------------------------------------------------------
(* No item stays behind.                                                   *)

\* An item that is claimed by an evolver after a step was so before, or
\* has just been claimed.
ItemsGoOn ==
  \A i \in 1..Len(items') : OursHolds(items'[i]) =>
    \/ i \in 1..Len(items) /\ items'[i] = items[i]
    \/ \E e \in Evolvers : WorksOn(e, i)'

LEMMA ItemsMove ==
  ASSUME TypeInv, [Next]_vars
  PROVE  ItemsGoOn
<1>0. /\ items \in Seq(ItemRecs) /\ Len(items) \in Nat /\ BoardTyped /\ ev \in [Evolvers -> EvRecs]
      /\ \A i \in 1..Len(items) : items[i] \in ItemRecs
      /\ \A e \in Evolvers : Working(ev[e]) => ev[e].item \in 1..Len(items)
  <2>1. ASSUME NEW e \in Evolvers, Working(ev[e]) PROVE ev[e].item \in 1..Len(items)
    <3>1. ev[e].item \in 0..Len(items) /\ ev[e].item # 0 /\ Len(items) \in Nat
      <4>1. Len(items) \in Nat /\ ev[e].item \in 0..Len(items) /\ Placed(ev[e])
        BY DEF TypeInv, EvTyped, BoardTyped
      <4> QED
        BY <2>1, <4>1 DEF Placed, NoItem
    <3> QED
      BY <3>1
  <2>2. items \in Seq(ItemRecs) /\ Len(items) \in Nat /\ BoardTyped /\ ev \in [Evolvers -> EvRecs]
    BY DEF TypeInv, BoardTyped, EvTyped
  <2> QED
    BY <2>1, <2>2
<1>1. ASSUME items' = items PROVE ItemsGoOn
  BY <1>1 DEF ItemsGoOn
<1>2. ASSUME NEW i \in 1..Len(items), NEW status \in Statuses, NEW by \in Rigs \cup {NoRig},
             Transition(i, status, by),
             status # "Claimed" \/ by # "evolver" \/ \E e \in Evolvers : WorksOn(e, i)'
      PROVE  ItemsGoOn
  <2>1. Len(items') = Len(items)
    BY <1>0, <1>2, ItemMoves
  <2>2. \A j \in 1..Len(items) \ {i} : items'[j] = items[j]
    BY <1>0, <1>2 DEF Transition
  <2>3. items'[i].status = status /\ items'[i].by = by
    BY <1>0, <1>2 DEF Transition, ItemRecs
  <2>4. OursHolds(items'[i]) => \E e \in Evolvers : WorksOn(e, i)'
    BY <1>2, <2>3 DEF OursHolds, VerifyClaimedBy
  <2> QED
    BY <2>1, <2>2, <2>4 DEF ItemsGoOn
<1>3. ASSUME NEW e \in Evolvers, Claim(e) PROVE ItemsGoOn
  <2>1. ev[e].item \in 1..Len(items)
    BY <1>0, <1>3 DEF Claim, At, Working
  <2>2. CASE Transition(ev[e].item, "Claimed", "evolver") /\ Go(e, "ask")
    <3>1. ev'[e].item = ev[e].item /\ ev'[e].pc = "ask"
      BY <1>0, <2>2 DEF Go, EvRecs
    <3>2. \A i : i = ev[e].item => WorksOn(e, i)'
      BY <3>1 DEF WorksOn
    <3> QED
      BY <1>2, <2>1, <2>2, <3>2, EvolverAssumption DEF Statuses
  <2> QED
    BY <1>1, <1>3, <2>2 DEF Claim
<1>4. ASSUME NEW e \in Evolvers, Submit(e) \/ Stick(e) PROVE ItemsGoOn
  <2>1. ev[e].item \in 1..Len(items)
    BY <1>0, <1>4 DEF Submit, Stick, At, Working
  <2>2. ~OursHolds(items'[ev[e].item])
    BY <1>4, <2>1, Ended
  <2>3. \/ items' = items
        \/ items' = [items EXCEPT ![ev[e].item].status = "Done"]
        \/ items' = [items EXCEPT ![ev[e].item].status = "Stuck"]
    BY <1>4 DEF Submit, Stick
  <2>4. Len(items') = Len(items) /\ \A j \in 1..Len(items) : j # ev[e].item => items'[j] = items[j]
    BY <1>0, <2>1, <2>3
  <2> QED
    BY <2>2, <2>4 DEF ItemsGoOn
<1>5. ASSUME NEW e \in Evolvers, Posted(e) PROVE ItemsGoOn
  <2> DEFINE new == [status |-> "Open", by |-> NoRig, stamp |-> ev[e].stamp]
  <2>1. items' = Append(items, new)
    BY <1>5 DEF Posted
  <2>2. /\ Len(items') = Len(items) + 1 /\ items'[Len(items) + 1] = new
        /\ \A i \in 1..Len(items) : items'[i] = items[i]
    BY <1>0, <2>1
  <2>3. ~OursHolds(new)
    BY DEF OursHolds
  <2>4. \A i \in 1..Len(items') : i \in 1..Len(items) \/ i = Len(items) + 1
    BY <1>0, <2>2
  <2> QED
    BY <2>2, <2>3, <2>4 DEF ItemsGoOn
<1>6. ASSUME NEW i \in 1..Len(items), OthersAct(i) PROVE ItemsGoOn
  <2>1. \E status \in Statuses, by \in Rigs \cup {NoRig} :
           Transition(i, status, by) /\ (status # "Claimed" \/ by # "evolver")
    BY <1>0, <1>6 DEF OthersAct, Statuses, ItemRecs
  <2> QED
    BY <1>2, <2>1
<1>7. ASSUME NEW e \in Evolvers, Process(e) \/ WriteFails(e) \/ DbFails(e) \/ Crash(e) PROVE ItemsGoOn
  <2>1. CASE Query(e) \/ AgentCreated(e) \/ AgentRefused(e) \/ Mark(e) \/ BatchDone(e) \/ Timer(e)
    BY <1>1, <2>1 DEF Query, AgentCreated, AgentRefused, Mark, BatchDone, Timer
  <2>2. CASE Load(e) \/ ShouldCount(e) \/ Ask(e) \/ AskAgain(e)
    BY <1>1, <2>2 DEF Load, ShouldCount, Ask, AskAgain
  <2>3. CASE WriteText(e) \/ WriteMeta(e) \/ WriteFails(e) \/ Crash(e)
    BY <1>1, <2>3 DEF WriteText, WriteMeta, WriteFails, Crash
  <2>4. CASE Sweep(e) \/ Decide(e) \/ ReadMeta(e) \/ WriteBack(e)
    BY <1>1, <2>4 DEF Sweep, Decide, ReadMeta, WriteBack
  <2>5. CASE Post(e) \/ DbFails(e)
    BY <1>1, <1>5, <2>5 DEF Post, DbFails
  <2> QED
    BY <1>3, <1>4, <1>7, <2>1, <2>2, <2>3, <2>4, <2>5 DEF Process
<1>8. ASSUME \/ \E s \in Stamps, by \in Targets \cup {"human"}, p \in Evolvers \cup {"cli"} : AddStamp(s, by, p)
             \/ Month \/ PromoteCopy \/ PromoteRead \/ PromoteStamp
             \/ \E t \in Targets, n \in Names, force \in BOOLEAN : PromoteStart(t, n, force)
             \/ UNCHANGED vars
      PROVE  ItemsGoOn
  BY <1>1, <1>8 DEF AddStamp, Month, PromoteCopy, PromoteRead, PromoteStamp, PromoteStart, vars
<1> QED
  BY <1>6, <1>7, <1>8 DEF Next

LEMMA ItemsStep ==
  ASSUME TypeInv, ItemsLeft, [Next]_vars
  PROVE  ItemsLeft'
<1>1. PICK e \in Evolvers : Handled(e)
  BY NextHandles
<1>2. lost.items \subseteq lost'.items /\ ItemsGoOn
  BY LostGrows, ItemsMove
<1>3. ASSUME NEW i \in 1..Len(items), items'[i] = items[i], OursHolds(items'[i]),
             NEW f \in Evolvers, WorksOn(f, i)
      PROVE  i \in lost'.items \/ \E g \in Evolvers : WorksOn(g, i)'
  <2>1. i # NoItem
    BY DEF NoItem, TypeInv, BoardTyped
  <2>2. CASE f # e
    <3>1. ev'[f] = ev[f]
      BY <1>1, <2>2 DEF Handled, OthersKeep
    <3> QED
      BY <1>3, <3>1 DEF WorksOn
  <2>3. CASE f = e /\ HandKept(e)
    BY <1>3, <2>3 DEF HandKept, WorksOn
  <2>4. CASE f = e /\ HandEmptied(e)
    BY <1>3, <2>1, <2>4 DEF HandEmptied, ItemSettled, WorksOn
  <2>5. CASE f = e /\ (StampTakenUp(e) \/ ItemPosted(e))
    BY <1>3, <2>1, <2>5 DEF StampTakenUp, ItemPosted, WorksOn
  <2> QED
    BY <1>1, <2>2, <2>3, <2>4, <2>5 DEF Handled
<1>4. ASSUME NEW i \in 1..Len(items'), OursHolds(items'[i])
      PROVE  i \in lost'.items \/ \E g \in Evolvers : WorksOn(g, i)'
  BY <1>2, <1>3, <1>4 DEF ItemsGoOn, ItemsLeft
<1> QED
  BY <1>4 DEF ItemsLeft

\* A marked stamp that nobody works on any more has left an item, and no item
\* stays claimed by an evolver that is done with it, whatever the language
\* model answers, whichever write of a file fails and whoever else takes the
\* item: only a crash, or a database call that is refused, leaves one of the
\* two behind.
THEOREM NothingLeftBehind == Spec => []StampsAccounted
<1>1. Init => StampsLeft /\ ItemsLeft
  <2>1. Init => evolved = {} /\ Len(items) = 0 /\ 1..0 = {}
    BY DEF Init
  <2> QED
    BY <2>1 DEF StampsLeft, ItemsLeft
<1>2. TypeInv /\ Traced /\ OncePerStamp /\ [Next]_vars => Traced' /\ OncePerStamp'
  BY NextHandles, TracedStep
<1>3. StampsLeft /\ ItemsLeft => StampsAccounted
  BY DEF StampsLeft, ItemsLeft, StampsAccounted, Accounted, WorksOn, OursHolds, Holds
<1> QED
  BY <1>1, <1>2, <1>3, TypeInit, TypeNext, TracedInit, StampsStep, ItemsStep, PTL DEF Spec

-----------------------------------------------------------------------------
(* The two files of a skill speak of one text.                             *)

Writes(e, k) == At(e, "meta") /\ ev[e].at = k

Matches(text, meta) ==
  /\ IsText(text) /\ IsMeta(meta)
  /\ text.by = meta.from /\ text.version = meta.version
  /\ \A c \in meta.scores : c[2] = text

\* The text that was written names the stamp that the metadata to come will name.
TextInv ==
  \A e \in Evolvers : At(e, "meta") =>
    ev[e].text.by = IF ev[e].kind = "refine" THEN ev[e].old.from ELSE ev[e].stamp

\* Who is between the two files is alone with them, and its text is there, unless a
\* sweep has deleted the skill.
WriterInv ==
  \A e \in Evolvers : \A k \in Skills \ trouble : Writes(e, k) =>
    /\ ~CopiesTo(k)
    /\ skill[k] = NoSkill \/
         /\ skill[k].text = ev[e].text
         /\ \A d \in Evolvers : Writes(d, k) => d = e

\* What is copied stays as it was, or is deleted; what is not left to copy is there.
Copied(f, g) ==
  /\ ~Busy(promote.from)
  /\ f = NoSkill \/
       /\ Matches(f.text, f.meta)
       /\ "text" \notin promote.left => g.text = f.text
       /\ "meta" \notin promote.left => Matches(f.text, g.meta)
  /\ promote.left = {} => Matches(g.text, g.meta)
  /\ promote.read # None => promote.left = {} /\ Matches(g.text, promote.read)

CopyInv ==
  promote # <<>> /\ <<Global, promote.from[2]>> \notin trouble =>
    Copied(skill[promote.from], skill[<<Global, promote.from[2]>>])

PairInv == TextInv /\ WriterInv /\ CopyInv /\ SkillPaired

LEMMA Pairing ==
  ASSUME NEW f
  PROVE  /\ IsPaired(f) <=> IF IsText(f.text) THEN Matches(f.text, f.meta) ELSE ~IsMeta(f.meta)
         /\ IsWhole(f) <=> Matches(f.text, f.meta)
         /\ IsPaired(NoSkill)
BY DEF IsPaired, IsWhole, Matches, NoSkill, IsText, IsMeta

\* A change of the metadata that leaves them paired.
Softly(f, g) ==
  /\ g.text = f.text
  /\ f = NoSkill => g = NoSkill
  /\ ~IsMeta(f.meta) => g.meta = f.meta
  /\ Matches(f.text, f.meta) => Matches(f.text, g.meta)

\* One that any text would still match.
Freely(f, g) == \A text : Matches(text, f.meta) => Matches(text, g.meta)

LEMMA SoftWriters ==
  ASSUME NEW f \in Files
  PROVE  /\ Softly(f, f) /\ Freely(f, f)
         /\ Softly(f, Age(f)) /\ Freely(f, Age(f))
         /\ IsMeta(f.meta) => Softly(f, [f EXCEPT !.meta = TrackInclusion(f.meta)])
         /\ \A s \in Stamps : IsMeta(f.meta) => Softly(f, [f EXCEPT !.meta = CountScore(f.meta, f.text, s)])
<1>1. CASE ~IsMeta(f.meta)
  BY <1>1 DEF Age, Softly, Freely
<1>2. CASE IsMeta(f.meta)
  <2>1. f.meta \in Metas /\ f # NoSkill /\ f.text \in Texts \cup {None, Torn}
    BY <1>2 DEF Files, IsMeta, NoSkill
  <2>2. ASSUME NEW b \in BOOLEAN
        PROVE  /\ Softly(f, [f EXCEPT !.meta = [f.meta EXCEPT !.fresh = b]])
               /\ Freely(f, [f EXCEPT !.meta = [f.meta EXCEPT !.fresh = b]])
    <3> DEFINE g == [f EXCEPT !.meta = [f.meta EXCEPT !.fresh = b]]
    <3>1. /\ g.text = f.text /\ g.meta \in Metas
          /\ g.meta.from = f.meta.from /\ g.meta.version = f.meta.version /\ g.meta.scores = f.meta.scores
      BY <2>1 DEF Files, Metas
    <3>2. IsMeta(g.meta)
      BY <3>1, SkillFilesAssumption DEF IsMeta
    <3> HIDE DEF g
    <3> QED
      BY <1>2, <2>1, <3>1, <3>2 DEF Softly, Freely, Matches, g
  <2>3. ASSUME NEW s \in Stamps PROVE Softly(f, [f EXCEPT !.meta = CountScore(f.meta, f.text, s)])
    <3> DEFINE m == CountScore(f.meta, f.text, s)
               g == [f EXCEPT !.meta = m]
    <3>1. /\ m \in Metas /\ m.from = f.meta.from /\ m.version = f.meta.version
          /\ m.scores = f.meta.scores \cup {<<s, f.text>>}
      BY <2>1, CountedTyped DEF Metas, CountScore
    <3> HIDE DEF m
    <3>2. g.text = f.text /\ g.meta = m
      BY DEF Files
    <3>3. IsMeta(m) /\ \A c \in m.scores : c \in f.meta.scores \/ c[2] = f.text
      BY <3>1, SkillFilesAssumption DEF IsMeta
    <3> HIDE DEF g
    <3>4. Softly(f, g)
      BY <1>2, <2>1, <3>1, <3>2, <3>3 DEF Softly, Matches
    <3> QED
      BY <3>4 DEF g, m
  <2>4. Age(f) = [f EXCEPT !.meta = [f.meta EXCEPT !.fresh = FALSE]]
    BY <1>2, <2>1 DEF Age, Files
  <2> QED
    BY <1>2, <2>1, <2>2, <2>3, <2>4 DEF TrackInclusion, Softly, Freely
<1> QED
  BY <1>1, <1>2

\* Who is between the two files stays there, and nobody gets there.
WritersKeep ==
  \A e \in Evolvers : \/ ev'[e] = ev[e]
                      \/ ev'[e].pc # "meta" /\ ev[e].pc # "meta"

\* A step that at most counts, includes or ages.
SoftStep ==
  /\ WritersKeep /\ promote' = promote /\ trouble \subseteq trouble'
  /\ \A k \in Skills : /\ Softly(skill[k], skill'[k])
                       /\ CopiesTo(k) /\ k \notin trouble' => Freely(skill[k], skill'[k])

LEMMA PairSoftly ==
  ASSUME TypeInv, PairInv, SoftStep
  PROVE  PairInv'
<1>1. \A e \in Evolvers, k \in Skills : Writes(e, k)' <=> Writes(e, k)
  BY DEF SoftStep, WritersKeep, Writes, At
<1>2. \A k \in Skills : /\ Busy(k)' <=> Busy(k)
                        /\ CopiesTo(k)' <=> CopiesTo(k)
                        /\ k \notin trouble' => k \notin trouble
  BY DEF SoftStep, WritersKeep, Busy, At, CopiesTo
<1>3. TextInv'
  BY DEF SoftStep, WritersKeep, PairInv, TextInv, At
<1>4. WriterInv'
  <2> SUFFICES ASSUME NEW e \in Evolvers, NEW k \in Skills \ trouble', Writes(e, k)'
               PROVE  /\ ~CopiesTo(k)'
                      /\ skill'[k] = NoSkill \/ (skill'[k].text = ev'[e].text /\ \A d \in Evolvers : Writes(d, k)' => d = e)
    BY DEF WriterInv
  <2>1. ev'[e] = ev[e]
    BY DEF SoftStep, WritersKeep, Writes, At
  <2>2. Softly(skill[k], skill'[k])
    BY DEF SoftStep
  <2> QED
    BY <1>1, <1>2, <2>1, <2>2 DEF PairInv, WriterInv, Softly
<1>5. SkillPaired'
  <2> SUFFICES ASSUME NEW k \in Skills \ trouble', ~Busy(k)', ~CopiesTo(k)' PROVE IsPaired(skill'[k])
    BY DEF SkillPaired
  <2>1. IsPaired(skill[k]) /\ Softly(skill[k], skill'[k])
    BY <1>2 DEF PairInv, SkillPaired, SoftStep
  <2> QED
    BY <2>1, Pairing DEF Softly
<1>6. CopyInv'
  <2> SUFFICES ASSUME promote' # <<>>, <<Global, promote'.from[2]>> \notin trouble'
               PROVE  Copied(skill[promote.from], skill[<<Global, promote.from[2]>>])'
    BY DEF CopyInv
  <2> DEFINE to == <<Global, promote.from[2]>>
  <2>1. promote' = promote /\ promote # <<>> /\ to \notin trouble /\ to \notin trouble'
    BY DEF SoftStep
  <2>2. promote.from \in Skills /\ to \in Skills
    BY <2>1 DEF TypeInv, FilesTyped, Promotions, Skills
  <2>3. Copied(skill[promote.from], skill[to])
    BY <2>1 DEF PairInv, CopyInv
  <2>4. Softly(skill[promote.from], skill'[promote.from]) /\ Softly(skill[to], skill'[to]) /\ Freely(skill[to], skill'[to])
    BY <2>1, <2>2 DEF SoftStep, CopiesTo
  <2>5. ~Busy(promote.from)'
    BY <1>2, <2>1, <2>2, <2>3 DEF Copied
  <2> QED
    BY <2>1, <2>3, <2>4, <2>5 DEF Copied, Softly, Freely
<1> QED
  BY <1>3, <1>4, <1>5, <1>6 DEF PairInv


\* A step of e that spoils k, and is known to.
SpoilStep(e, k) ==
  /\ OthersKeep(e) /\ promote' = promote
  /\ \A j \in Skills \ {k} : skill'[j] = skill[j] /\ ~Writes(e, j) /\ ~(ev'[e].pc = "meta" /\ ev'[e].at = j)
  /\ trouble \cup {k} \cup Mixed(k) \subseteq trouble'

LEMMA PairSpoilt ==
  ASSUME TypeInv, PairInv, NEW e \in Evolvers, NEW k \in Skills, SpoilStep(e, k), TextInv'
  PROVE  PairInv'
<1>1. \A j \in Skills \ {k} : \A d \in Evolvers : (Writes(d, j)' <=> Writes(d, j)) /\ (Writes(d, j) => ev'[d] = ev[d])
  BY DEF SpoilStep, OthersKeep, Writes, At
<1>2. \A j \in Skills \ {k} : (Busy(j)' <=> Busy(j)) /\ (CopiesTo(j)' <=> CopiesTo(j)) /\ skill'[j] = skill[j]
  BY <1>1 DEF SpoilStep, Busy, Writes, CopiesTo
<1>3. \A j \in Skills \ trouble' : j # k /\ j \in Skills \ trouble
  BY DEF SpoilStep
<1>4. WriterInv'
  BY <1>1, <1>2, <1>3 DEF PairInv, WriterInv
<1>5. SkillPaired'
  BY <1>2, <1>3 DEF PairInv, SkillPaired
<1>6. CopyInv'
  <2> SUFFICES ASSUME promote' # <<>>, <<Global, promote'.from[2]>> \notin trouble'
               PROVE  Copied(skill[promote.from], skill[<<Global, promote.from[2]>>])'
    BY DEF CopyInv
  <2> DEFINE to == <<Global, promote.from[2]>>
  <2>1. promote' = promote /\ promote # <<>> /\ to \notin trouble /\ to \notin trouble'
    BY DEF SpoilStep
  <2>2. promote.from \in Skills /\ to \in Skills
    BY <2>1 DEF TypeInv, FilesTyped, Promotions, Skills
  <2>3. promote.from # k /\ to # k
    BY <2>1 DEF SpoilStep, Mixed, CopiesTo
  <2>4. Copied(skill[promote.from], skill[to])
    BY <2>1 DEF PairInv, CopyInv
  <2>5. ~Busy(promote.from)' /\ skill'[promote.from] = skill[promote.from] /\ skill'[to] = skill[to]
    BY <1>2, <2>1, <2>2, <2>3, <2>4 DEF Copied
  <2> QED
    BY <2>1, <2>4, <2>5 DEF Copied
<1> QED
  BY <1>4, <1>5, <1>6 DEF PairInv

\* A text written where nobody else is writing or copying.
LEMMA PairText ==
  ASSUME TypeInv, PairInv, NEW e \in Evolvers, NEW k \in Skills, OthersKeep(e), promote' = promote,
         ev[e].pc # "meta", ev'[e].pc = "meta", ev'[e].at = k, skill'[k].text = ev'[e].text,
         \A j \in Skills \ {k} : skill'[j] = skill[j],
         ~Busy(k), ~CopiesTo(k), trouble' = (trouble \ {k}) \cup Mixed(k), TextInv'
  PROVE  PairInv'
<1>1. \A j \in Skills \ {k} : \A d \in Evolvers : (Writes(d, j)' <=> Writes(d, j)) /\ (Writes(d, j) => ev'[d] = ev[d])
  BY DEF OthersKeep, Writes, At
<1>2. \A j \in Skills \ {k} : (Busy(j)' <=> Busy(j)) /\ skill'[j] = skill[j]
  BY <1>1 DEF Busy, Writes
<1>3. \A j \in Skills : CopiesTo(j)' <=> CopiesTo(j)
  BY DEF CopiesTo
<1>4. \A j \in Skills \ trouble' : j = k \/ j \in Skills \ trouble
  OBVIOUS
<1>5. \A d \in Evolvers : Writes(d, k)' => d = e
  BY DEF OthersKeep, Writes, Busy, At
<1>6. WriterInv'
  BY <1>1, <1>2, <1>3, <1>4, <1>5 DEF PairInv, WriterInv
<1>7. Busy(k)'
  BY DEF Busy, At
<1>8. SkillPaired'
  BY <1>2, <1>3, <1>4, <1>7 DEF PairInv, SkillPaired
<1>9. CopyInv'
  <2> SUFFICES ASSUME promote' # <<>>, <<Global, promote'.from[2]>> \notin trouble'
               PROVE  Copied(skill[promote.from], skill[<<Global, promote.from[2]>>])'
    BY DEF CopyInv
  <2> DEFINE to == <<Global, promote.from[2]>>
  <2>1. promote' = promote /\ promote # <<>> /\ to \notin trouble'
    OBVIOUS
  <2>2. promote.from \in Skills /\ to \in Skills
    BY <2>1 DEF TypeInv, FilesTyped, Promotions, Skills
  <2>3. promote.from # k /\ to # k /\ to \notin trouble
    BY <2>1 DEF Mixed, CopiesTo
  <2>4. Copied(skill[promote.from], skill[to])
    BY <2>1, <2>3 DEF PairInv, CopyInv
  <2>5. ~Busy(promote.from)' /\ skill'[promote.from] = skill[promote.from] /\ skill'[to] = skill[to]
    BY <1>2, <2>1, <2>2, <2>3, <2>4 DEF Copied
  <2> QED
    BY <2>1, <2>4, <2>5 DEF Copied
<1> QED
  BY <1>6, <1>8, <1>9 DEF PairInv

\* The second file, by whoever was between the two; or nothing, because they are gone.
LEMMA PairMeta ==
  ASSUME TypeInv, PairInv, NEW e \in Evolvers, NEW k \in Skills, OthersKeep(e), UNCHANGED <<promote, trouble>>,
         Writes(e, k), ev'[e].pc # "meta", \A j \in Skills \ {k} : skill'[j] = skill[j],
         \/ skill[k] = NoSkill /\ skill'[k] = NoSkill
         \/ /\ skill[k] # NoSkill /\ skill'[k].text = skill[k].text
            /\ Matches(ev[e].text, skill'[k].meta)
  PROVE  PairInv'
<1>1. \A j \in Skills, d \in Evolvers : Writes(d, j)' => Writes(d, j) /\ d # e /\ ev'[d] = ev[d]
  BY DEF OthersKeep, Writes, At
<1>2. \A j \in Skills \ {k} : (Busy(j)' <=> Busy(j)) /\ skill'[j] = skill[j]
  BY DEF OthersKeep, Busy, Writes, At
<1>3. \A j \in Skills : CopiesTo(j)' <=> CopiesTo(j)
  BY DEF CopiesTo
<1>4. TextInv'
  BY DEF OthersKeep, PairInv, TextInv, At
<1>5. ASSUME k \notin trouble
      PROVE  /\ ~CopiesTo(k) /\ IsPaired(skill'[k])
             /\ \A d \in Evolvers : Writes(d, k)' => skill'[k] = NoSkill
  <2>1. /\ ~CopiesTo(k)
        /\ skill[k] = NoSkill \/ (skill[k].text = ev[e].text /\ \A d \in Evolvers : Writes(d, k) => d = e)
    BY <1>5 DEF PairInv, WriterInv
  <2>2. CASE skill[k] = NoSkill
    BY <2>1, <2>2, Pairing
  <2>3. CASE skill[k] # NoSkill
    <3>1. Matches(skill'[k].text, skill'[k].meta)
      BY <2>1, <2>3
    <3>2. IsPaired(skill'[k])
      BY <3>1, Pairing DEF Matches
    <3> QED
      BY <1>1, <2>1, <2>3, <3>2
  <2> QED
    BY <2>2, <2>3
<1>6. WriterInv'
  BY <1>1, <1>2, <1>3, <1>5 DEF PairInv, WriterInv
<1>7. SkillPaired'
  BY <1>2, <1>3, <1>5 DEF PairInv, SkillPaired
<1>8. CopyInv'
  <2> SUFFICES ASSUME promote' # <<>>, <<Global, promote'.from[2]>> \notin trouble'
               PROVE  Copied(skill[promote.from], skill[<<Global, promote.from[2]>>])'
    BY DEF CopyInv
  <2> DEFINE to == <<Global, promote.from[2]>>
  <2>1. promote' = promote /\ promote # <<>> /\ to \notin trouble
    OBVIOUS
  <2>2. promote.from \in Skills /\ to \in Skills
    BY <2>1 DEF TypeInv, FilesTyped, Promotions, Skills
  <2>3. Copied(skill[promote.from], skill[to])
    BY <2>1 DEF PairInv, CopyInv
  <2>4. promote.from # k
    BY <2>3 DEF Copied, Busy, Writes
  <2>5. to # k
    BY <1>5, <2>1 DEF CopiesTo
  <2>6. ~Busy(promote.from)' /\ skill'[promote.from] = skill[promote.from] /\ skill'[to] = skill[to]
    BY <1>2, <2>2, <2>3, <2>4, <2>5 DEF Copied
  <2> QED
    BY <2>1, <2>3, <2>6 DEF Copied
<1> QED
  BY <1>4, <1>6, <1>7, <1>8 DEF PairInv

\* A skill is deleted.
LEMMA PairDeleted ==
  ASSUME TypeInv, PairInv, WritersKeep, NEW k \in Skills, skill'[k] = NoSkill,
         \A j \in Skills \ {k} : skill'[j] = skill[j],
         promote' = (IF CopiesTo(k) THEN <<>> ELSE promote), trouble' = trouble \ {k}
  PROVE  PairInv'
<1>1. \A e \in Evolvers, j \in Skills : (Writes(e, j)' <=> Writes(e, j)) /\ (Writes(e, j) => ev'[e] = ev[e])
  BY DEF WritersKeep, Writes, At
<1>2. \A j \in Skills : /\ Busy(j)' <=> Busy(j)
                        /\ j # k => (CopiesTo(j)' <=> CopiesTo(j)) /\ skill'[j] = skill[j]
  BY <1>1 DEF Busy, Writes, CopiesTo
<1>3. ~CopiesTo(k)'
  BY DEF CopiesTo
<1>4. TextInv'
  BY DEF WritersKeep, PairInv, TextInv, At
<1>5. \A j \in Skills \ trouble' : j = k \/ j \in Skills \ trouble
  OBVIOUS
<1>6. WriterInv'
  BY <1>1, <1>2, <1>3, <1>5 DEF PairInv, WriterInv
<1>7. SkillPaired'
  BY <1>2, <1>5, Pairing DEF PairInv, SkillPaired
<1>8. CopyInv'
  <2> SUFFICES ASSUME promote' # <<>>, <<Global, promote'.from[2]>> \notin trouble'
               PROVE  Copied(skill[promote.from], skill[<<Global, promote.from[2]>>])'
    BY DEF CopyInv
  <2> DEFINE to == <<Global, promote.from[2]>>
  <2>1. promote' = promote /\ promote # <<>> /\ to # k
    BY DEF CopiesTo
  <2>2. promote.from \in Skills /\ to \in Skills
    BY <2>1 DEF TypeInv, FilesTyped, Promotions, Skills
  <2>3. to \notin trouble
    BY <2>1, <2>2
  <2>4. Copied(skill[promote.from], skill[to])
    BY <2>1, <2>3 DEF PairInv, CopyInv
  <2>5. /\ ~Busy(promote.from)' /\ skill'[to] = skill[to]
        /\ skill'[promote.from] \in {skill[promote.from], NoSkill}
    BY <1>2, <2>1, <2>2, <2>4 DEF Copied
  <2> QED
    BY <2>1, <2>4, <2>5 DEF Copied
<1> QED
  BY <1>4, <1>6, <1>7, <1>8 DEF PairInv


\* Where nobody gets between the two files or leaves.
OffFiles(e) == OthersKeep(e) /\ ev[e].pc # "meta" /\ ev'[e].pc # "meta"

LEMMA StayOff ==
  ASSUME TypeInv, NEW e \in Evolvers, ev[e].pc # "meta"
  PROVE  /\ \A r : ev' = [ev EXCEPT ![e] = r] /\ r.pc # "meta" => OffFiles(e)
         /\ \A pc \in Pcs \ {"meta"} : Go(e, pc) => OffFiles(e)
         /\ \A pc \in Pcs \ {"meta"} : Leave(e, pc) => OffFiles(e)
         /\ \A pc \in Pcs \ {"meta"} : ev' = [ev EXCEPT ![e] = Rest(e, pc)] => OffFiles(e)
<1>1. ev \in [Evolvers -> EvRecs] /\ ev[e] \in EvRecs
  BY DEF TypeInv, EvTyped
<1>2. ASSUME NEW r, ev' = [ev EXCEPT ![e] = r], r.pc # "meta" PROVE OffFiles(e)
  BY <1>1, <1>2 DEF OffFiles, OthersKeep
<1>3. \A pc \in Pcs : [ev[e] EXCEPT !.pc = pc].pc = pc
  BY <1>1 DEF EvRecs
<1>4. ASSUME NEW pc \in Pcs \ {"meta"}, Go(e, pc) PROVE OffFiles(e)
  BY <1>1, <1>2, <1>3, <1>4 DEF Go
<1>5. \A pc : Rest(e, pc).pc = pc /\ [Rest(e, pc) EXCEPT !.stamp = ev[e].stamp, !.item = ev[e].item].pc = pc
  BY DEF Rest, Idle
<1>6. ASSUME NEW pc \in Pcs \ {"meta"}, Leave(e, pc) PROVE OffFiles(e)
  BY <1>2, <1>5, <1>6 DEF Leave
<1>7. ASSUME NEW pc \in Pcs \ {"meta"}, ev' = [ev EXCEPT ![e] = Rest(e, pc)] PROVE OffFiles(e)
  BY <1>2, <1>5, <1>7
<1> QED
  BY <1>2, <1>4, <1>6, <1>7

\* A step of e that leaves the files alone.
LEMMA PairOff ==
  ASSUME TypeInv, PairInv, NEW e \in Evolvers, OffFiles(e), UNCHANGED files
  PROVE  PairInv'
<1>1. WritersKeep
  BY DEF OffFiles, OthersKeep, WritersKeep
<1>2. \A k \in Skills : skill[k] \in Files
  BY DEF TypeInv, FilesTyped
<1> QED
  BY <1>1, <1>2, SoftWriters, PairSoftly DEF SoftStep, files

LEMMA PairLoop ==
  ASSUME TypeInv, PairInv, NEW e \in Evolvers
  PROVE  /\ Timer(e) \/ Query(e) \/ AgentCreated(e) \/ AgentRefused(e) \/ Mark(e) \/ BatchDone(e) => PairInv'
         /\ Load(e) \/ ShouldCount(e) \/ Post(e) \/ Claim(e) \/ Ask(e) \/ AskAgain(e) => PairInv'
         /\ Submit(e) \/ Stick(e) \/ Sweep(e) \/ DbFails(e) => PairInv'
<1>0. ev \in [Evolvers -> EvRecs] /\ ev[e] \in EvRecs
  BY DEF TypeInv, EvTyped
<1>1. ASSUME Timer(e) PROVE PairInv'
  BY <1>1, StayOff, PairOff DEF Timer, At, Pcs
<1>2. ASSUME Query(e) PROVE PairInv'
  <2>1. CASE Go(e, "wait") \/ Go(e, "sweep")
    BY <1>2, <2>1, StayOff, PairOff DEF Query, At, Pcs
  <2>2. CASE ev' = [ev EXCEPT ![e].pc = IF ev[e].agent THEN "next" ELSE "create", ![e].batch = Unprocessed]
    <3>1. OffFiles(e)
      BY <1>0, <1>2, <2>2 DEF Query, At, OffFiles, OthersKeep, EvRecs
    <3> QED
      BY <1>2, <3>1, PairOff DEF Query
  <2> QED
    BY <1>2, <2>1, <2>2 DEF Query
<1>3. ASSUME AgentCreated(e) \/ AgentRefused(e) \/ Mark(e) \/ BatchDone(e) PROVE PairInv'
  <2>0. ev[e].pc # "meta"
    BY <1>3 DEF AgentCreated, AgentRefused, Mark, BatchDone, At
  <2>1. OffFiles(e)
    <3>1. CASE AgentCreated(e)
      <4>1. [ev[e] EXCEPT !.pc = "next", !.agent = TRUE].pc = "next"
        BY <1>0 DEF EvRecs
      <4>2. ev' = [ev EXCEPT ![e] = [ev[e] EXCEPT !.pc = "next", !.agent = TRUE]]
        BY <1>0, <3>1 DEF AgentCreated
      <4> QED
        BY <2>0, <4>1, <4>2, StayOff
    <3>2. CASE AgentRefused(e)
      <4>1. Idle.pc = "wait"
        BY DEF Idle
      <4> QED
        BY <2>0, <3>2, <4>1, StayOff DEF AgentRefused
    <3>3. CASE Mark(e)
      <4>1. PICK s \in ev[e].batch :
              ev' = [ev EXCEPT ![e].batch = @ \ {s}, ![e].stamp = IF s \in evolved THEN NoStamp ELSE s,
                               ![e].pc = IF s \in evolved THEN "next" ELSE "load"]
        BY <3>3 DEF Mark
      <4> DEFINE r == [ev[e] EXCEPT !.batch = @ \ {s}, !.stamp = IF s \in evolved THEN NoStamp ELSE s,
                                    !.pc = IF s \in evolved THEN "next" ELSE "load"]
      <4>2. ev' = [ev EXCEPT ![e] = r]
        BY <1>0, <4>1
      <4>3. r.pc # "meta"
        BY <1>0 DEF EvRecs
      <4> HIDE DEF r
      <4> QED
        BY <2>0, <4>2, <4>3, StayOff
    <3>4. CASE BatchDone(e)
      BY <2>0, <3>4, StayOff DEF BatchDone, Pcs
    <3> QED
      BY <1>3, <3>1, <3>2, <3>3, <3>4
  <2> QED
    BY <1>3, <2>1, PairOff DEF AgentCreated, AgentRefused, Mark, BatchDone
<1>4. ASSUME Post(e) \/ Claim(e) \/ Submit(e) \/ Stick(e) PROVE PairInv'
  <2>1. ev[e].pc # "meta" /\ UNCHANGED files
    BY <1>4 DEF Post, ReadyToPost, Claim, Submit, Stick, At
  <2>2. CASE ev' = [ev EXCEPT ![e].item = Len(items'), ![e].pc = "claim"]
    <3>1. OffFiles(e)
      BY <1>0, <2>1, <2>2 DEF OffFiles, OthersKeep, EvRecs
    <3> QED
      BY <2>1, <3>1, PairOff
  <2>3. CASE Go(e, "ask") \/ Done(e)
    <3>1. OffFiles(e)
      BY <2>1, <2>3, StayOff DEF Done, Pcs
    <3> QED
      BY <2>1, <3>1, PairOff
  <2> QED
    BY <1>4, <2>2, <2>3 DEF Post, Claim, Submit, Stick
<1>5. ASSUME Ask(e) \/ AskAgain(e) PROVE PairInv'
  <2>1. ev[e].pc # "meta" /\ UNCHANGED files
    BY <1>5 DEF Ask, AskAgain, At
  <2>2. CASE Leave(e, "stick") \/ Leave(e, "submit")
    <3>1. OffFiles(e)
      BY <2>1, <2>2, StayOff DEF Pcs
    <3> QED
      BY <2>1, <3>1, PairOff
  <2>3. CASE \E kind \in Kinds, k \in Skills \cup {ev[e].at} :
               \/ ev' = [ev EXCEPT ![e].pc = "ask again", ![e].kind = kind, ![e].at = k]
               \/ ev' = [ev EXCEPT ![e].pc = "ask again", ![e].kind = kind]
               \/ WriteAt(e, kind, k)
    <3> PICK kind \in Kinds, k \in Skills \cup {ev[e].at} :
               \/ ev' = [ev EXCEPT ![e].pc = "ask again", ![e].kind = kind, ![e].at = k]
               \/ ev' = [ev EXCEPT ![e].pc = "ask again", ![e].kind = kind]
               \/ WriteAt(e, kind, k)
      BY <2>3
    <3> DEFINE a == [ev[e] EXCEPT !.pc = "ask again", !.kind = kind, !.at = k]
               b == [ev[e] EXCEPT !.pc = "ask again", !.kind = kind]
               c == [ev[e] EXCEPT !.pc = IF kind = "create" THEN "write" ELSE "read",
                                  !.kind = kind, !.at = k, !.known = {}]
    <3>2. ev' = [ev EXCEPT ![e] = a] \/ ev' = [ev EXCEPT ![e] = b] \/ ev' = [ev EXCEPT ![e] = c]
      BY <1>0 DEF WriteAt
    <3>3. a.pc # "meta" /\ b.pc # "meta" /\ c.pc # "meta"
      BY <1>0 DEF EvRecs
    <3> HIDE DEF a, b, c
    <3>1. OffFiles(e)
      BY <2>1, <3>2, <3>3, StayOff
    <3> QED
      BY <2>1, <3>1, PairOff
  <2>4. ev[e].stamp \in Low
    BY <1>5 DEF TypeInv, EvTyped, EvRecs, Placed, Working, Ask, AskAgain, At
  <2>5. TargetOf[ev[e].stamp] \in Targets
    BY <2>4, EvolverAssumption
  <2>6. \A n \in Names : <<TargetOf[ev[e].stamp], n>> \in Skills
    BY <2>5 DEF Skills
  <2>7. ev[e].known \subseteq Skills /\ "create" \in Kinds /\ "update" \in Kinds
    BY <1>0 DEF EvRecs, Kinds
  <2>8. CASE Ask(e)
    BY <2>2, <2>3, <2>6, <2>7, <2>8 DEF Ask
  <2>9. CASE AskAgain(e)
    BY <2>2, <2>3, <2>6, <2>7, <2>9 DEF AskAgain
  <2> QED
    BY <1>5, <2>8, <2>9
<1>6. ASSUME Sweep(e) PROVE PairInv'
  <2>1. ev[e].pc # "meta" /\ UNCHANGED files
    BY <1>6 DEF Sweep, At
  <2>2. CASE ev' = [ev EXCEPT ![e] = Rest(e, "wait")]
    <3>1. OffFiles(e)
      BY <2>1, <2>2, StayOff DEF Pcs
    <3> QED
      BY <2>1, <3>1, PairOff
  <2>3. CASE \E known : ev' = [ev EXCEPT ![e].known = known, ![e].pc = "decide"]
    <3>1. OffFiles(e)
      BY <1>0, <2>1, <2>3 DEF OffFiles, OthersKeep, EvRecs
    <3> QED
      BY <2>1, <3>1, PairOff
  <2> QED
    BY <1>6, <2>2, <2>3 DEF Sweep
<1>7. ASSUME Load(e) PROVE PairInv'
  <2> DEFINE known == LoadSkills(TargetOf[ev[e].stamp])
             r == [ev[e] EXCEPT !.known = known, !.count = known, !.pc = "count"]
  <2>1. ev[e].pc # "meta" /\ UNCHANGED files /\ ev' = [ev EXCEPT ![e] = r]
    BY <1>0, <1>7 DEF Load, At
  <2> HIDE DEF known
  <2>2. r.pc = "count"
    BY <1>0 DEF EvRecs
  <2> HIDE DEF r
  <2>3. OffFiles(e)
    BY <2>1, <2>2, StayOff
  <2> QED
    BY <2>1, <2>3, PairOff
<1>8. ASSUME ShouldCount(e) PROVE PairInv'
  <2>1. PICK k \in ev[e].count :
          \/ ev' = [ev EXCEPT ![e].count = @ \ {k}, ![e].at = k, ![e].pc = "score"]
          \/ ev' = [ev EXCEPT ![e].count = @ \ {k}]
    BY <1>8 DEF ShouldCount
  <2> DEFINE r1 == [ev[e] EXCEPT !.count = @ \ {k}, !.at = k, !.pc = "score"]
             r2 == [ev[e] EXCEPT !.count = @ \ {k}]
  <2>2. ev[e].pc = "count" /\ UNCHANGED files
    BY <1>8 DEF ShouldCount, At
  <2>3. r1.pc = "score" /\ r2.pc = "count"
    BY <1>0, <2>2 DEF EvRecs
  <2>4. ev' = [ev EXCEPT ![e] = r1] \/ ev' = [ev EXCEPT ![e] = r2]
    BY <1>0, <2>1
  <2> HIDE DEF r1, r2
  <2>5. OffFiles(e)
    BY <2>2, <2>3, <2>4, StayOff
  <2> QED
    BY <2>2, <2>5, PairOff
<1>9. ASSUME DbFails(e) PROVE PairInv'
  <2>1. ev[e].pc # "meta" /\ UNCHANGED files
    BY <1>9 DEF DbFails, ReadyToPost, At
  <2>2. CASE Go(e, "wait") \/ Done(e)
    <3>1. OffFiles(e)
      BY <2>1, <2>2, StayOff DEF Done, Pcs
    <3> QED
      BY <2>1, <3>1, PairOff
  <2>3. CASE \E s \in ev[e].batch : ev' = [ev EXCEPT ![e].batch = @ \ {s}]
    <3>1. PICK s \in ev[e].batch : ev' = [ev EXCEPT ![e].batch = @ \ {s}]
      BY <2>3
    <3> DEFINE r == [ev[e] EXCEPT !.batch = @ \ {s}]
    <3>2. ev' = [ev EXCEPT ![e] = r] /\ r.pc # "meta"
      BY <1>0, <2>1, <3>1 DEF EvRecs
    <3> HIDE DEF r
    <3>3. OffFiles(e)
      BY <2>1, <3>2, StayOff
    <3> QED
      BY <2>1, <3>3, PairOff
  <2> QED
    BY <1>9, <2>2, <2>3 DEF DbFails
<1> QED
  BY <1>1, <1>2, <1>3, <1>4, <1>5, <1>6, <1>7, <1>8, <1>9


\* An error leads out of the files.
LEMMA FailLeaves ==
  ASSUME TypeInv, NEW e \in Evolvers, Fail(e)
  PROVE  OthersKeep(e) /\ ev'[e].pc # "meta"
<1>1. ev \in [Evolvers -> EvRecs]
  BY DEF TypeInv, EvTyped
<1>2. [Rest(e, "decide") EXCEPT !.known = ev[e].known].pc = "decide"
  BY DEF Rest, Idle
<1>3. [Rest(e, "stick") EXCEPT !.stamp = ev[e].stamp, !.item = ev[e].item].pc = "stick"
  BY DEF Rest, Idle
<1>4. \/ ev' = [ev EXCEPT ![e] = [Rest(e, "decide") EXCEPT !.known = ev[e].known]]
      \/ ev' = [ev EXCEPT ![e] = [Rest(e, "stick") EXCEPT !.stamp = ev[e].stamp, !.item = ev[e].item]]
  BY DEF Fail, Leave
<1> QED
  BY <1>1, <1>2, <1>3, <1>4 DEF OthersKeep

LEMMA CarryLeaves ==
  ASSUME TypeInv, NEW e \in Evolvers, CarryOn(e)
  PROVE  OthersKeep(e) /\ ev'[e].pc # "meta"
<1> DEFINE a == [Rest(e, "count") EXCEPT !.stamp = ev[e].stamp, !.known = ev[e].known, !.count = ev[e].count]
           b == [Rest(e, "decide") EXCEPT !.known = ev[e].known]
<1>1. ev \in [Evolvers -> EvRecs]
  BY DEF TypeInv, EvTyped
<1>2. a.pc = "count" /\ b.pc = "decide"
  BY DEF Rest, Idle
<1>3. ev' = [ev EXCEPT ![e] = a] \/ ev' = [ev EXCEPT ![e] = b]
  BY DEF CarryOn
<1> HIDE DEF a, b
<1> QED
  BY <1>1, <1>2, <1>3 DEF OthersKeep

\* Metadata is read, and written back: over what was read, or known to be spoilt.
LEMMA PairBack ==
  ASSUME TypeInv, PairInv, NEW e \in Evolvers
  PROVE  ReadMeta(e) \/ WriteBack(e) => PairInv'
<1> DEFINE k == ev[e].at
           read == [text |-> ev[e].text, meta |-> ev[e].old]
<1>0. /\ ev \in [Evolvers -> EvRecs] /\ ev[e] \in EvRecs /\ Placed(ev[e])
      /\ skill \in [Skills -> Files] /\ \A j \in Skills : skill[j] \in Files
  BY DEF TypeInv, EvTyped, FilesTyped
<1>1. ASSUME ReadMeta(e) PROVE PairInv'
  <2> DEFINE f == skill[k]
             pc == IF At(e, "score") THEN "scored" ELSE "tracked"
             a == [ev[e] EXCEPT !.old = f.meta, !.pc = "write"]
             b == [ev[e] EXCEPT !.old = f.meta, !.text = f.text, !.pc = pc]
  <2>1. ev[e].pc # "meta" /\ UNCHANGED files
    BY <1>1 DEF ReadMeta, At
  <2>2. a.pc # "meta" /\ b.pc # "meta"
    BY <1>0 DEF EvRecs
  <2>3. ev' = [ev EXCEPT ![e] = a] \/ ev' = [ev EXCEPT ![e] = b] \/ CarryOn(e)
    BY <1>0, <1>1 DEF ReadMeta
  <2> HIDE DEF a, b
  <2>4. OffFiles(e)
    BY <2>1, <2>2, <2>3, StayOff, CarryLeaves DEF OffFiles
  <2> QED
    BY <2>1, <2>4, PairOff
<1>2. ASSUME WriteBack(e) PROVE PairInv'
  <2> DEFINE meta == IF At(e, "scored") THEN CountScore(ev[e].old, ev[e].text, ev[e].stamp)
                                        ELSE TrackInclusion(ev[e].old)
  <2>1. /\ k \in Skills /\ ev[e].old \in Metas /\ ev[e].pc # "meta"
        /\ At(e, "scored") => ev[e].stamp \in Stamps
    BY <1>0, <1>2, EvolverAssumption DEF WriteBack, Placed, Marked, EvRecs, At
  <2>2. OffFiles(e) /\ promote' = promote
    BY <1>2, <2>1, CarryLeaves DEF WriteBack, OffFiles
  <2>3. TextInv'
    BY <2>2 DEF PairInv, TextInv, OffFiles, OthersKeep, At
  <2>4. CASE UNCHANGED <<skill, trouble>>
    BY <2>2, <2>4, PairOff DEF files
  <2>5. CASE /\ skill' = [skill EXCEPT ![k].meta = meta]
             /\ trouble' = (IF skill[k] = read THEN trouble ELSE trouble \cup {k}) \cup Mixed(k)
    <3>1. \A j \in Skills \ {k} : skill'[j] = skill[j]
      BY <1>0, <2>1, <2>5
    <3>2. skill'[k] = [skill[k] EXCEPT !.meta = meta]
      BY <1>0, <2>1, <2>5
    <3> HIDE DEF meta
    <3>3. CASE skill[k] # read
      <4>1. SpoilStep(e, k)
        BY <2>2, <2>5, <3>1, <3>3 DEF SpoilStep, OffFiles, Writes, At
      <4> QED
        BY <2>1, <2>3, <4>1, PairSpoilt
    <3>4. CASE skill[k] = read
      <4>1. IsMeta(ev[e].old)
        BY <2>1, SkillFilesAssumption DEF IsMeta
      <4>6. /\ skill[k] \in Files /\ IsMeta(skill[k].meta)
            /\ skill[k].text = ev[e].text /\ skill[k].meta = ev[e].old
        BY <1>0, <2>1, <3>4, <4>1
      <4>7. ASSUME At(e, "scored") PROVE Softly(skill[k], skill'[k])
        <5>1. meta = CountScore(skill[k].meta, skill[k].text, ev[e].stamp)
          BY <4>6, <4>7 DEF meta
        <5> QED
          BY <2>1, <3>2, <4>6, <4>7, <5>1, SoftWriters
      <4>8. ASSUME ~At(e, "scored") PROVE Softly(skill[k], skill'[k])
        <5>1. meta = TrackInclusion(skill[k].meta)
          BY <4>6, <4>8 DEF meta
        <5> QED
          BY <3>2, <4>6, <5>1, SoftWriters
      <4>2. Softly(skill[k], skill'[k])
        BY <4>7, <4>8
      <4>3. CopiesTo(k) => k \in trouble'
        BY <2>5, <3>4 DEF Mixed, CopiesTo
      <4>4. \A j \in Skills : /\ Softly(skill[j], skill'[j])
                              /\ CopiesTo(j) /\ j \notin trouble' => Freely(skill[j], skill'[j])
        BY <1>0, <3>1, <4>2, <4>3, SoftWriters
      <4>5. WritersKeep /\ trouble \subseteq trouble'
        BY <2>2, <2>5, <3>4 DEF OffFiles, OthersKeep, WritersKeep
      <4> QED
        BY <2>2, <4>4, <4>5, PairSoftly DEF SoftStep
    <3> QED
      BY <3>3, <3>4
  <2> QED
    BY <1>2, <2>4, <2>5 DEF WriteBack
<1> QED
  BY <1>1, <1>2

\* A decision of the sweep: at most a skill is deleted.
LEMMA PairDecide ==
  ASSUME TypeInv, PairInv, NEW e \in Evolvers, Decide(e)
  PROVE  PairInv'
<1>0. /\ ev \in [Evolvers -> EvRecs] /\ ev[e] \in EvRecs /\ skill \in [Skills -> Files]
      /\ ev[e].pc # "meta" /\ ev[e].known \subseteq Skills
  BY DEF TypeInv, EvTyped, FilesTyped, Decide, At, EvRecs
<1>1. CASE ev' = [ev EXCEPT ![e] = Rest(e, "wait")] /\ UNCHANGED files
  <2>1. OffFiles(e)
    BY <1>0, <1>1, StayOff DEF Pcs
  <2> QED
    BY <1>1, <2>1, PairOff
<1>2. ASSUME NEW k \in Skills, NEW pc \in {"track", "read"}, NEW kind \in {ev[e].kind, "refine"}, UNCHANGED files,
             ev' = [ev EXCEPT ![e] = [ev[e] EXCEPT !.known = @ \ {k}, !.pc = pc, !.kind = kind, !.at = k]]
      PROVE  PairInv'
  <2> DEFINE r == [ev[e] EXCEPT !.known = @ \ {k}, !.pc = pc, !.kind = kind, !.at = k]
  <2>1. ev' = [ev EXCEPT ![e] = r] /\ r.pc # "meta"
    BY <1>0, <1>2 DEF EvRecs
  <2> HIDE DEF r
  <2>2. OffFiles(e)
    BY <1>0, <2>1, StayOff
  <2> QED
    BY <1>2, <2>2, PairOff
<1>3. ASSUME NEW k \in Skills, ev' = [ev EXCEPT ![e].known = @ \ {k}], skill' = [skill EXCEPT ![k] = NoSkill],
             promote' = (IF CopiesTo(k) THEN <<>> ELSE promote), trouble' = trouble \ {k}
      PROVE  PairInv'
  <2> DEFINE r == [ev[e] EXCEPT !.known = @ \ {k}]
  <2>1. ev' = [ev EXCEPT ![e] = r] /\ r.pc # "meta"
    BY <1>0, <1>3 DEF EvRecs
  <2> HIDE DEF r
  <2>2. WritersKeep
    BY <1>0, <2>1, StayOff DEF OffFiles, OthersKeep, WritersKeep
  <2>3. skill'[k] = NoSkill /\ \A j \in Skills \ {k} : skill'[j] = skill[j]
    BY <1>0, <1>3
  <2> QED
    BY <1>3, <2>2, <2>3, PairDeleted
<1>4. ASSUME NEW k \in Skills, UNCHANGED files, ev' = [ev EXCEPT ![e].known = @ \ {k}, ![e].pc = "track", ![e].at = k]
      PROVE  PairInv'
  <2>1. [ev[e] EXCEPT !.known = @ \ {k}, !.pc = "track", !.at = k]
          = [ev[e] EXCEPT !.known = @ \ {k}, !.pc = "track", !.kind = ev[e].kind, !.at = k]
    BY <1>0 DEF EvRecs
  <2>2. ev' = [ev EXCEPT ![e] = [ev[e] EXCEPT !.known = @ \ {k}, !.pc = "track", !.at = k]]
    BY <1>0, <1>4
  <2> QED
    BY <1>2, <1>4, <2>1, <2>2
<1>5. ASSUME NEW k \in Skills, UNCHANGED files,
             ev' = [ev EXCEPT ![e].known = @ \ {k}, ![e].pc = "read", ![e].kind = "refine", ![e].at = k]
      PROVE  PairInv'
  <2>1. ev' = [ev EXCEPT ![e] = [ev[e] EXCEPT !.known = @ \ {k}, !.pc = "read", !.kind = "refine", !.at = k]]
    BY <1>0, <1>5
  <2> QED
    BY <1>2, <1>5, <2>1
<1> QED
  BY <1>0, <1>1, <1>3, <1>4, <1>5 DEF Decide

\* A write cut short, by an error or with its process.
LEMMA PairTorn ==
  ASSUME TypeInv, PairInv, NEW e \in Evolvers, WriteFails(e) \/ Crash(e)
  PROVE  PairInv'
<1> DEFINE k == ev[e].at
<1>0. /\ ev \in [Evolvers -> EvRecs] /\ ev[e] \in EvRecs /\ Placed(ev[e])
      /\ skill \in [Skills -> Files] /\ promote' = promote
  BY DEF TypeInv, EvTyped, FilesTyped, WriteFails, Crash
<1>1. OthersKeep(e) /\ ev'[e].pc # "meta"
  <2>1. CASE WriteFails(e)
    BY <2>1, FailLeaves, CarryLeaves DEF WriteFails
  <2>2. CASE Crash(e)
    BY <1>0, <2>2 DEF Crash, OthersKeep, Idle
  <2> QED
    BY <2>1, <2>2
<1>2. CASE ev[e].pc \in Writing
  <2>1. Tear(e)
    BY <1>2 DEF WriteFails, Crash
  <2>2. k \in Skills
    BY <1>0, <1>2 DEF Placed, Writing
  <2>3. \A j \in Skills \ {k} : skill'[j] = skill[j]
    BY <1>0, <2>1, <2>2 DEF Tear
  <2>4. trouble \cup {k} \cup Mixed(k) \subseteq trouble'
    BY <2>1 DEF Tear
  <2>5. TextInv'
    BY <1>1 DEF PairInv, TextInv, OthersKeep, At
  <2> HIDE DEF k
  <2>6. SpoilStep(e, k)
    BY <1>0, <1>1, <2>3, <2>4 DEF SpoilStep, Writes, k
  <2> QED
    BY <2>2, <2>5, <2>6, PairSpoilt
<1>3. CASE ev[e].pc \notin Writing
  <2>1. UNCHANGED files /\ OffFiles(e)
    BY <1>1, <1>3 DEF WriteFails, Crash, Writing, OffFiles, files
  <2> QED
    BY <2>1, PairOff
<1> QED
  BY <1>2, <1>3


LEMMA PairFirst ==
  ASSUME TypeInv, PairInv, NEW e \in Evolvers, WriteText(e)
  PROVE  PairInv'
<1> DEFINE k == ev[e].at
           new == NewText(e)
           orphan == ev[e].kind = "refine" /\ ~IsMeta(ev[e].old)
           r == [ev[e] EXCEPT !.text = new, !.pc = IF orphan THEN "track" ELSE "meta"]
<1>0. /\ ev \in [Evolvers -> EvRecs] /\ ev[e] \in EvRecs /\ Placed(ev[e])
      /\ skill \in [Skills -> Files] /\ promote' = promote
      /\ ev[e].pc = "write" /\ k \in Skills /\ ev[e].kind \in {"create", "update", "refine"}
  BY DEF TypeInv, EvTyped, FilesTyped, WriteText, At, Placed, EvRecs, Kinds
<1>1. CASE Fail(e) /\ UNCHANGED <<skill, trouble>>
  <2>1. OffFiles(e)
    BY <1>0, <1>1, FailLeaves DEF OffFiles
  <2> QED
    BY <1>0, <1>1, <2>1, PairOff DEF files
<1>2. CASE /\ skill' = [skill EXCEPT ![k].text = new]
           /\ ev' = [ev EXCEPT ![e].text = new, ![e].pc = IF orphan THEN "track" ELSE "meta"]
           /\ trouble' = (IF Busy(k) \/ orphan THEN trouble \cup {k} ELSE trouble \ {k}) \cup Mixed(k)
  <2>1. ev' = [ev EXCEPT ![e] = r]
    BY <1>0, <1>2
  <2>2. /\ r.text = new /\ r.old = ev[e].old /\ r.at = k /\ r.kind = ev[e].kind /\ r.stamp = ev[e].stamp
        /\ r.pc = IF orphan THEN "track" ELSE "meta"
    BY <1>0 DEF EvRecs
  <2>3. ~orphan => new.by = IF ev[e].kind = "refine" THEN ev[e].old.from ELSE ev[e].stamp
    <3>1. CASE ev[e].kind = "create"
      BY <3>1 DEF NewText
    <3>2. CASE ev[e].kind = "update"
      BY <3>2 DEF NewText
    <3>3. CASE ev[e].kind = "refine"
      BY <3>3 DEF NewText
    <3> QED
      BY <1>0, <3>1, <3>2, <3>3
  <2>4. /\ skill'[k].text = new
        /\ \A j \in Skills \ {k} : skill'[j] = skill[j]
    <3>1. skill' = [skill EXCEPT ![k] = [skill[k] EXCEPT !.text = new]]
      BY <1>0, <1>2
    <3>2. [skill[k] EXCEPT !.text = new].text = new
      BY <1>0 DEF Files
    <3> QED
      BY <1>0, <3>1, <3>2
  <2> HIDE DEF new, r, orphan
  <2>5. ev'[e] = r /\ OthersKeep(e)
    BY <1>0, <2>1 DEF OthersKeep
  <2>6. TextInv'
    <3> SUFFICES ASSUME NEW d \in Evolvers, ev'[d].pc = "meta"
                 PROVE  ev'[d].text.by = IF ev'[d].kind = "refine" THEN ev'[d].old.from ELSE ev'[d].stamp
      BY DEF TextInv, At
    <3>1. CASE d = e
      BY <2>2, <2>3, <2>5, <3>1
    <3>2. CASE d # e
      BY <2>5, <3>2 DEF OthersKeep, PairInv, TextInv, At
    <3> QED
      BY <3>1, <3>2
  <2>7. CASE Busy(k) \/ orphan \/ CopiesTo(k)
    <3>1. trouble \cup {k} \cup Mixed(k) \subseteq trouble'
      BY <1>2, <2>7 DEF Mixed, CopiesTo, orphan
    <3> HIDE DEF k
    <3>2. SpoilStep(e, k)
      BY <1>0, <2>2, <2>4, <2>5, <3>1 DEF SpoilStep, Writes, At
    <3> QED
      BY <1>0, <2>6, <3>2, PairSpoilt
  <2>8. CASE ~(Busy(k) \/ orphan \/ CopiesTo(k))
    <3>1. trouble' = (trouble \ {k}) \cup Mixed(k)
      BY <1>2, <2>8 DEF orphan
    <3> HIDE DEF k
    <3>2. ev[e].pc # "meta" /\ ev'[e].pc = "meta" /\ ev'[e].at = k /\ skill'[k].text = ev'[e].text
      BY <1>0, <2>2, <2>4, <2>5, <2>8
    <3> QED
      BY <1>0, <2>4, <2>5, <2>6, <2>8, <3>1, <3>2, PairText
  <2> QED
    BY <2>7, <2>8
<1> QED
  BY <1>1, <1>2 DEF WriteText

LEMMA PairSecond ==
  ASSUME TypeInv, PairInv, NEW e \in Evolvers, WriteMeta(e)
  PROVE  PairInv'
<1> DEFINE k == ev[e].at
           meta == IF ev[e].kind = "refine"
                     THEN RefineMetadata(ev[e].old, ev[e].text.version)
                     ELSE BuildSkillMetadata(ev[e].stamp, ev[e].text.version)
<1>0. /\ ev \in [Evolvers -> EvRecs] /\ ev[e] \in EvRecs /\ Placed(ev[e])
      /\ skill \in [Skills -> Files] /\ UNCHANGED <<promote, trouble>>
      /\ ev[e].pc = "meta" /\ k \in Skills /\ Writes(e, k)
  BY DEF TypeInv, EvTyped, FilesTyped, WriteMeta, At, Placed, Writes
<1>1. CASE Fail(e) /\ UNCHANGED skill /\ skill[k] = NoSkill
  <2>1. OthersKeep(e) /\ ev'[e].pc # "meta"
    BY <1>1, FailLeaves
  <2> QED
    BY <1>0, <1>1, <2>1, PairMeta
<1>2. CASE /\ skill[k] # NoSkill
           /\ skill' = [skill EXCEPT ![k].meta = meta]
           /\ IF ev[e].kind = "refine" THEN Go(e, "track") ELSE Leave(e, "submit")
  <2>1. ev[e].text \in Texts /\ (ev[e].kind = "refine" => ev[e].old \in Metas)
    BY <1>0 DEF Placed
  <2>2. ev[e].kind # "refine" => ev[e].stamp \in Stamps
    BY <1>0, EvolverAssumption DEF EvRecs, Placed, Working
  <2>3. ev[e].text.by = IF ev[e].kind = "refine" THEN ev[e].old.from ELSE ev[e].stamp
    BY <1>0 DEF PairInv, TextInv, At
  <2>4. /\ meta \in Metas /\ meta.version = ev[e].text.version /\ meta.scores = {}
        /\ meta.from = IF ev[e].kind = "refine" THEN ev[e].old.from ELSE ev[e].stamp
    <3>1. ev[e].text.version \in 1..MaxVersion
      BY <2>1 DEF Texts
    <3>2. meta \in Metas
      BY <2>1, <2>2, <3>1, MetasTyped
    <3>3. CASE ev[e].kind = "refine"
      BY <2>1, <3>2, <3>3 DEF RefineMetadata, Metas
    <3>4. CASE ev[e].kind # "refine"
      BY <3>2, <3>4 DEF BuildSkillMetadata
    <3> QED
      BY <3>2, <3>3, <3>4
  <2> HIDE DEF meta
  <2>5. Matches(ev[e].text, meta)
    BY <2>1, <2>3, <2>4, SkillFilesAssumption DEF Matches, IsText, IsMeta
  <2>6. /\ skill'[k].text = skill[k].text /\ skill'[k].meta = meta
        /\ \A j \in Skills \ {k} : skill'[j] = skill[j]
    <3>1. skill' = [skill EXCEPT ![k] = [skill[k] EXCEPT !.meta = meta]]
      BY <1>0, <1>2
    <3>2. [skill[k] EXCEPT !.meta = meta].meta = meta /\ [skill[k] EXCEPT !.meta = meta].text = skill[k].text
      BY <1>0 DEF Files
    <3> QED
      BY <1>0, <3>1, <3>2
  <2>7. OthersKeep(e) /\ ev'[e].pc # "meta"
    <3>1. CASE ev[e].kind = "refine"
      <4>1. ev' = [ev EXCEPT ![e] = [ev[e] EXCEPT !.pc = "track"]] /\ [ev[e] EXCEPT !.pc = "track"].pc = "track"
        BY <1>0, <1>2, <3>1 DEF Go, EvRecs
      <4> QED
        BY <1>0, <4>1 DEF OthersKeep
    <3>2. CASE ev[e].kind # "refine"
      <4>1. ev' = [ev EXCEPT ![e] = [Rest(e, "submit") EXCEPT !.stamp = ev[e].stamp, !.item = ev[e].item]]
        BY <1>2, <3>2 DEF Leave
      <4>2. [Rest(e, "submit") EXCEPT !.stamp = ev[e].stamp, !.item = ev[e].item].pc = "submit"
        BY DEF Rest, Idle
      <4> QED
        BY <1>0, <4>1, <4>2 DEF OthersKeep
    <3> QED
      BY <3>1, <3>2
  <2> HIDE DEF k
  <2> QED
    BY <1>0, <1>2, <2>5, <2>6, <2>7, PairMeta
<1> QED
  BY <1>0, <1>1, <1>2 DEF WriteMeta, CanWrite, DirExists, At

\* `skills promote` beside everything else.
LEMMA PairPromote ==
  ASSUME TypeInv, PairInv
  PROVE  /\ \A t \in Targets, n \in Names, force \in BOOLEAN : PromoteStart(t, n, force) => PairInv'
         /\ PromoteCopy \/ PromoteRead \/ PromoteStamp => PairInv'
<1> DEFINE to == <<Global, promote.from[2]>>
<1>0. skill \in [Skills -> Files] /\ TextInv /\ WriterInv /\ CopyInv /\ SkillPaired
  BY DEF TypeInv, FilesTyped, PairInv
<1>1. ASSUME ev' = ev
      PROVE  /\ TextInv'
             /\ \A j \in Skills : Busy(j)' <=> Busy(j)
             /\ \A d \in Evolvers, j \in Skills : Writes(d, j)' <=> Writes(d, j)
  BY <1>0, <1>1 DEF TextInv, Busy, Writes, At
<1>2. ASSUME promote # <<>>
      PROVE  /\ promote \in Promotions /\ to \in Skills /\ promote.from \in Skills /\ to # promote.from
             /\ \A k \in Skills : CopiesTo(k) <=> k = to
  <2>1. promote \in Promotions
    BY <1>2 DEF TypeInv, FilesTyped
  <2>2. promote.from \in Targets \X Names
    BY <2>1 DEF Promotions
  <2>3. promote.from[1] # Global
    BY <2>2, EvolverAssumption DEF Global
  <2> QED
    BY <1>2, <2>1, <2>2, <2>3 DEF Skills, CopiesTo
<1>3. ASSUME NEW t \in Targets, NEW n \in Names, NEW force \in BOOLEAN, PromoteStart(t, n, force) PROVE PairInv'
  <2> DEFINE from == <<t, n>>
             copy == <<Global, n>>
  <2>1. /\ promote = <<>> /\ UNCHANGED <<skill, ev>> /\ promote' # <<>>
        /\ promote'.from = from /\ promote'.read = None /\ <<Global, promote'.from[2]>> = copy
        /\ promote'.left = {f \in {"text", "meta"} : skill[from][f] # None}
        /\ trouble' = IF Busy(from) \/ Busy(copy) \/ ~IsWhole(skill[from])
                        THEN trouble \cup {copy} ELSE trouble \ {copy}
    BY <1>3 DEF PromoteStart
  <2>2. from \in Skills /\ copy \in Skills
    BY DEF Skills
  <2>3. (\A k \in Skills : ~CopiesTo(k)) /\ (\A k \in Skills : CopiesTo(k)' <=> k = copy)
    BY <2>1 DEF CopiesTo
  <2> HIDE DEF from, copy
  <2>4. \A k \in Skills \ trouble' : k = copy \/ k \in Skills \ trouble
    BY <2>1
  <2>5. copy \notin trouble' => ~Busy(from) /\ ~Busy(copy) /\ IsWhole(skill[from])
    BY <2>1
  <2>6. WriterInv'
    BY <1>0, <1>1, <2>1, <2>3, <2>4, <2>5 DEF WriterInv, Busy, Writes
  <2>7. SkillPaired'
    BY <1>0, <1>1, <2>1, <2>3, <2>4 DEF SkillPaired
  <2>8. CopyInv'
    <3> SUFFICES ASSUME copy \notin trouble' PROVE Copied(skill[from], skill[copy])'
      BY <2>1 DEF CopyInv
    <3>1. Matches(skill[from].text, skill[from].meta)
      BY <2>5, Pairing
    <3>2. skill[from].text # None /\ skill[from].meta # None
      BY <3>1 DEF Matches, IsText, IsMeta
    <3>3. promote'.left = {"text", "meta"}
      BY <2>1, <3>2
    <3>4. ~Busy(from)'
      BY <1>1, <2>1, <2>2, <2>5
    <3> QED
      BY <2>1, <3>1, <3>3, <3>4 DEF Copied
  <2> QED
    BY <1>1, <2>1, <2>6, <2>7, <2>8 DEF PairInv
<1>4. ASSUME promote # <<>>, promote' = <<>>, ev' = ev, \A k \in Skills \ {to} : skill'[k] = skill[k],
             trouble \subseteq trouble', to \in trouble' \/ IsPaired(skill'[to])
      PROVE  PairInv'
  <2>1. \A k \in Skills : ~CopiesTo(k)'
    BY <1>4 DEF CopiesTo
  <2>2. to \notin trouble => \A d \in Evolvers : ~Writes(d, to)
    BY <1>0, <1>2, <1>4 DEF WriterInv
  <2>3. WriterInv'
    BY <1>0, <1>1, <1>2, <1>4, <2>1, <2>2 DEF WriterInv
  <2>4. SkillPaired'
    BY <1>0, <1>1, <1>2, <1>4, <2>1 DEF SkillPaired
  <2> QED
    BY <1>1, <1>4, <2>3, <2>4 DEF PairInv, CopyInv
<1>5. ASSUME PromoteCopy PROVE PairInv'
  <2>1. promote # <<>> /\ ev' = ev
    BY <1>5 DEF PromoteCopy
  <2>2. PICK f \in promote.left :
          \/ /\ skill[promote.from][f] # None
             /\ skill' = [skill EXCEPT ![to] = [@ EXCEPT ![f] = skill[promote.from][f]]]
             /\ promote' = [promote EXCEPT !.left = @ \ {f}]
             /\ UNCHANGED <<spent, trouble>>
          \/ promote' = <<>> /\ trouble' = trouble \cup {to} /\ UNCHANGED skill
    BY <1>5 DEF PromoteCopy
  <2>3. CASE promote' = <<>> /\ trouble' = trouble \cup {to} /\ UNCHANGED skill
    BY <1>4, <2>1, <2>3
  <2>4. CASE /\ skill[promote.from][f] # None
             /\ skill' = [skill EXCEPT ![to] = [@ EXCEPT ![f] = skill[promote.from][f]]]
             /\ promote' = [promote EXCEPT !.left = @ \ {f}]
             /\ UNCHANGED <<spent, trouble>>
    <3>1. /\ promote' # <<>> /\ promote'.from = promote.from /\ promote'.left = promote.left \ {f}
          /\ promote'.read = promote.read /\ f \in {"text", "meta"}
      BY <1>2, <2>1, <2>4 DEF Promotions
    <3>2. /\ \A k \in Skills \ {to} : skill'[k] = skill[k]
          /\ f = "text" => skill'[to].text = skill[promote.from].text /\ skill'[to].meta = skill[to].meta
          /\ f = "meta" => skill'[to].meta = skill[promote.from].meta /\ skill'[to].text = skill[to].text
      <4>1. skill' = [skill EXCEPT ![to] = [skill[to] EXCEPT ![f] = skill[promote.from][f]]]
        BY <1>0, <1>2, <2>1, <2>4
      <4>2. skill[to] \in Files
        BY <1>0, <1>2, <2>1
      <4> HIDE DEF to
      <4>3. CASE f = "text"
        BY <1>0, <1>2, <2>1, <4>1, <4>2, <4>3 DEF Files
      <4>4. CASE f = "meta"
        BY <1>0, <1>2, <2>1, <4>1, <4>2, <4>4 DEF Files
      <4> QED
        BY <3>1, <4>3, <4>4
    <3>3. \A k \in Skills : CopiesTo(k)' <=> CopiesTo(k)
      BY <2>1, <3>1 DEF CopiesTo
    <3>4. to \notin trouble => Copied(skill[promote.from], skill[to])
      BY <1>0, <2>1 DEF CopyInv
    <3>5. WriterInv'
      <4>1. to \notin trouble => \A d \in Evolvers : ~Writes(d, to)
        BY <1>0, <1>2, <2>1 DEF WriterInv
      <4> QED
        BY <1>0, <1>1, <1>2, <2>1, <2>4, <3>2, <3>3, <4>1 DEF WriterInv
    <3>6. SkillPaired'
      BY <1>0, <1>1, <1>2, <2>1, <2>4, <3>2, <3>3 DEF SkillPaired
    <3>7. CopyInv'
      <4> SUFFICES ASSUME to \notin trouble' PROVE Copied(skill[promote.from], skill[to])'
        BY <3>1 DEF CopyInv
      <4> DEFINE src == skill[promote.from]
      <4>1. to \notin trouble /\ Copied(src, skill[to])
        BY <2>4, <3>4
      <4>2. ~Busy(promote.from)' /\ skill'[promote'.from] = src /\ src # NoSkill
        BY <1>1, <1>2, <2>1, <2>4, <3>1, <3>2, <4>1 DEF Copied, NoSkill
      <4>3. /\ Matches(src.text, src.meta)
            /\ "text" \notin promote'.left => skill'[to].text = src.text
            /\ "meta" \notin promote'.left => Matches(src.text, skill'[to].meta)
        BY <3>1, <3>2, <4>1, <4>2 DEF Copied
      <4>4. promote'.left = {} => Matches(skill'[to].text, skill'[to].meta)
        BY <4>3
      <4>5. promote'.read = None
        BY <3>1, <4>1 DEF Copied
      <4> QED
        BY <3>1, <4>2, <4>3, <4>4, <4>5 DEF Copied
    <3> QED
      BY <1>1, <2>1, <3>5, <3>6, <3>7 DEF PairInv
  <2> QED
    BY <2>2, <2>3, <2>4
<1>6. ASSUME PromoteRead PROVE PairInv'
  <2>1. promote # <<>> /\ UNCHANGED <<ev, skill, trouble>> /\ promote.left = {}
    BY <1>6 DEF PromoteRead
  <2>2. to \notin trouble => Copied(skill[promote.from], skill[to])
    BY <1>0, <2>1 DEF CopyInv
  <2>3. CASE promote' = <<>> /\ ~IsMeta(skill[to].meta)
    <3>1. to \in trouble
      BY <2>1, <2>2, <2>3 DEF Copied, Matches
    <3> QED
      BY <1>4, <2>1, <2>3, <3>1
  <2>4. CASE promote' = [promote EXCEPT !.read = skill[to].meta]
    <3>1. /\ promote' # <<>> /\ promote'.from = promote.from /\ promote'.left = {}
          /\ promote'.read = skill[to].meta
      BY <1>2, <2>1, <2>4 DEF Promotions
    <3>2. \A k \in Skills : CopiesTo(k)' <=> CopiesTo(k)
      BY <2>1, <3>1 DEF CopiesTo
    <3>3. WriterInv' /\ SkillPaired'
      BY <1>0, <1>1, <2>1, <3>2 DEF WriterInv, SkillPaired
    <3>4. ~Busy(promote.from) => ~Busy(promote.from)'
      BY <1>1, <1>2, <2>1, <3>1
    <3>5. CopyInv'
      BY <2>1, <2>2, <3>1, <3>4 DEF CopyInv, Copied
    <3> QED
      BY <1>1, <2>1, <3>3, <3>5 DEF PairInv
  <2> QED
    BY <1>6, <2>3, <2>4 DEF PromoteRead
<1>7. ASSUME PromoteStamp PROVE PairInv'
  <2>1. /\ promote # <<>> /\ promote' = <<>> /\ ev' = ev /\ promote.read # None
        /\ trouble \subseteq trouble'
    BY <1>7 DEF PromoteStamp
  <2>2. /\ \A k \in Skills \ {to} : skill'[k] = skill[k]
        /\ to \in trouble' \/ (skill'[to].text = skill[to].text /\ skill'[to].meta = promote.read)
    BY <1>0, <1>2, <1>7, <2>1 DEF PromoteStamp, Files
  <2>3. to \in trouble \/ Matches(skill[to].text, promote.read)
    BY <1>0, <2>1 DEF CopyInv, Copied
  <2>4. to \in trouble' \/ IsPaired(skill'[to])
    BY <2>1, <2>2, <2>3, Pairing DEF Matches
  <2> QED
    BY <1>4, <2>1, <2>2, <2>4
<1> QED
  BY <1>3, <1>5, <1>6, <1>7

LEMMA PairNext == TypeInv /\ PairInv /\ [Next]_vars => PairInv'
<1> SUFFICES ASSUME TypeInv, PairInv, [Next]_vars PROVE PairInv'
  OBVIOUS
<1>0. /\ ev \in [Evolvers -> EvRecs]
      /\ skill \in [Skills -> Files] /\ \A k \in Skills : skill[k] \in Files
  BY DEF TypeInv, EvTyped, FilesTyped
<1>1. ASSUME NEW e \in Evolvers, Process(e) \/ WriteFails(e) \/ DbFails(e) \/ Crash(e) PROVE PairInv'
  BY <1>1, PairLoop, PairBack, PairDecide, PairFirst, PairSecond, PairTorn DEF Process
<1>2. ASSUME WritersKeep, UNCHANGED files PROVE PairInv'
  BY <1>0, <1>2, SoftWriters, PairSoftly DEF SoftStep, files
<1>3. ASSUME NEW s \in Stamps, NEW by \in Targets \cup {"human"}, NEW p \in Evolvers \cup {"cli"},
             AddStamp(s, by, p)
      PROVE  PairInv'
  <2>1. WritersKeep
    <3>1. CASE p \in Evolvers /\ At(p, "wait")
      <4>1. ev' = [ev EXCEPT ![p] = [ev[p] EXCEPT !.pc = "query"]] /\ [ev[p] EXCEPT !.pc = "query"].pc = "query"
        BY <1>0, <1>3, <3>1 DEF AddStamp, EvRecs
      <4> QED
        BY <1>0, <3>1, <4>1 DEF WritersKeep, At
    <3>2. CASE ~(p \in Evolvers /\ At(p, "wait"))
      BY <1>3, <3>2 DEF AddStamp, WritersKeep
    <3> QED
      BY <3>1, <3>2
  <2> QED
    BY <1>2, <1>3, <2>1 DEF AddStamp, files
<1>4. ASSUME NEW i \in 1..Len(items), OthersAct(i) PROVE PairInv'
  BY <1>2, <1>4 DEF OthersAct, WritersKeep
<1>5. ASSUME Month PROVE PairInv'
  <2>1. \A k \in Skills : Softly(skill[k], skill'[k]) /\ Freely(skill[k], skill'[k])
    BY <1>0, <1>5, SoftWriters DEF Month
  <2> QED
    BY <1>5, <2>1, PairSoftly DEF Month, SoftStep, WritersKeep
<1>6. CASE UNCHANGED vars
  BY <1>2, <1>6 DEF vars, WritersKeep, files
<1> QED
  BY <1>1, <1>3, <1>4, <1>5, <1>6, PairPromote DEF Next

\* SKILL.md and metadata.json of a skill speak of one stamp and version, and the scores
\* were counted for the text that is there, but where a write failed, a process died
\* between the two files, two wrote at once, or metadata was written back over what came
\* after it was read: for any number of processes, skills, versions, sweeps and promotions.
THEOREM SkillsPaired == Spec => []SkillPaired
<1>1. Init => PairInv
  <2> SUFFICES ASSUME Init PROVE PairInv
    OBVIOUS
  <2>1. /\ \A e \in Evolvers : ev[e].pc = "wait"
        /\ promote = <<>>
        /\ \A k \in Skills : skill[k] = NoSkill
    BY DEF Init, Idle
  <2>2. TextInv /\ WriterInv
    BY <2>1 DEF TextInv, WriterInv, Writes, At
  <2>3. CopyInv
    BY <2>1 DEF CopyInv
  <2>4. SkillPaired
    BY <2>1, Pairing DEF SkillPaired
  <2> QED
    BY <2>2, <2>3, <2>4 DEF PairInv
<1>2. PairInv => SkillPaired
  BY DEF PairInv
<1> QED
  BY <1>1, <1>2, TypeInit, TypeNext, PairNext, PTL DEF Spec

=============================================================================
