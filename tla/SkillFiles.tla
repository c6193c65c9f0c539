----------------------------- MODULE SkillFiles -----------------------------
(***************************************************************************)
(* The directory of one learned skill: SKILL.md and metadata.json, and     *)
(* what each writer of opengoose-skills does to them.                      *)
(*                                                                         *)
(* A text is known by the stamp it came from and the version its writer    *)
(* means it to have.  Metadata records that stamp and version, the scores  *)
(* counted since (each with the text that was in force), and whether the   *)
(* skill was made or included within the last 30 days (`fresh`, Lifecycle  *)
(* Active).  std::fs::write truncates and then writes, so a write that is  *)
(* cut short leaves a file that does not parse.                            *)
(***************************************************************************)
EXTENDS Naturals

CONSTANTS
  Stamps,        \* stamp ids
  MaxVersion,    \* bound on skill_version
  None,          \* no such file
  Torn           \* a file that does not parse

Texts == [by: Stamps, version: 1..MaxVersion]
Metas == [from: Stamps, version: 1..MaxVersion,
          scores: SUBSET (Stamps \X (Texts \cup {None, Torn})), fresh: BOOLEAN]

ASSUME SkillFilesAssumption == {None, Torn} \cap (Texts \cup Metas) = {}

Files == [text: Texts \cup {None, Torn}, meta: Metas \cup {None, Torn}]
NoSkill == [text |-> None, meta |-> None]

IsText(t) == t \notin {None, Torn}
IsMeta(m) == m \notin {None, Torn}

DirExists(f) == f # NoSkill

\* scan_scope: a skill is loaded when its SKILL.md is there and parses.
Loads(f) == IsText(f.text)

\* load_dormant_and_archived keeps the skills whose metadata says so.
IsDormant(f) == Loads(f) /\ IsMeta(f.meta) /\ ~f.meta.fresh

(***************************************************************************)
(* Writers.                                                                *)
(***************************************************************************)
\* build_skill_metadata: nothing counted yet, generated now.
BuildSkillMetadata(s, version) ==
  [from |-> s, version |-> version, scores |-> {}, fresh |-> TRUE]

\* compute_version_bump on what could be read of the old metadata.
ComputeVersionBump(meta) == IF IsMeta(meta) THEN meta.version + 1 ELSE 1

\* Mutant of RefineMetadata: the scores of the old text are kept.
RefineMetadataVariant(meta, version) == [meta EXCEPT !.version = version]

\* refine_skill keeps generated_from and generated_at: the age stays.
RefineMetadata(meta, version) ==
  [meta EXCEPT !.version = version, !.scores = {}]

\* What update_effectiveness_versioned makes of the metadata it read, with
\* the text there was then.  No caller passes the versions that were active
\* (active_skill_versions is None), so the version always matches.
CountScore(meta, text, s) == [meta EXCEPT !.scores = @ \cup {<<s, text>>}]

\* What update_inclusion_tracking makes of it.
TrackInclusion(meta) == [meta EXCEPT !.fresh = TRUE]

\* Thirty days later.
Age(f) == IF IsMeta(f.meta) THEN [f EXCEPT !.meta.fresh = FALSE] ELSE f

\* The two files speak of one text.
IsPaired(f) ==
  /\ IsText(f.text) <=> IsMeta(f.meta)
  /\ IsText(f.text) =>
       /\ f.text.by = f.meta.from
       /\ f.text.version = f.meta.version
       /\ \A c \in f.meta.scores : c[2] = f.text

\* Both are there and do.
IsWhole(f) == IsText(f.text) /\ IsPaired(f)
=============================================================================
