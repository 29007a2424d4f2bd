------------------------------- MODULE Resume -------------------------------
(***************************************************************************)
(* The resume of one user (backend/internal/resume): a profile, its        *)
(* projects, an uploaded file, and the score of the rule-based ATS scorer. *)
(*                                                                         *)
(* A profile that is deleted is kept, with its projects, and the next one  *)
(* has an id of its own.  Every request reads before it writes, so it is   *)
(* two steps here, with those of other requests among them; an upload is   *)
(* one transaction, known by the file it found.                            *)
(*                                                                         *)
(* The scorer is that of AtsScorer.                                        *)
(***************************************************************************)
EXTENDS AtsScorer

CONSTANTS
  Profiles,       \* ids, numbers: each new profile has the next one
  Projects,       \* ids
  Requests,       \* handlers at work at once
  ProfileInputs,  \* resumes, and
  ProjectInputs,  \* sequences of bullets, as in AtsScorer
  MaxUploads,     \* bound
  None

VARIABLES
  profile,     \* Profiles -> [input, score, live], or None
  project,     \* Projects -> [of: Profiles, bullets, live], or None
  file,        \* number of the live upload; 0: none, and -1: deleted
  uploads,     \* how many there were
  serving      \* Requests -> [op, ...], what it has read, or None

resumeVars == <<profile, project, file, uploads, serving>>

ResumeInit ==
  /\ profile = [i \in Profiles |-> None]
  /\ project = [j \in Projects |-> None]
  /\ file = 0 /\ uploads = 0
  /\ serving = [r \in Requests |-> None]

IsLive(row) == row # None /\ row.live
LiveProfiles == {i \in Profiles : IsLive(profile[i])}      \* a partial unique index
Live == CHOOSE i \in Profiles : IsLive(profile[i])
ProjectsOf(i) == {j \in Projects : IsLive(project[j]) /\ project[j].of = i}

-----------------------------------------------------------------------------
\* buildScoreInput
Bullets(js) == FoldSet(LAMBDA j, s : s \o project[j].bullets, <<>>, js)

-----------------------------------------------------------------------------
(***************************************************************************)
(* The requests: what they read, and Write what they write.                *)
(***************************************************************************)
Read(r, work) ==
  /\ serving[r] = None
  /\ serving' = [serving EXCEPT ![r] = work]
  /\ UNCHANGED <<profile, project, file, uploads>>

UpsertProfile(r, in) ==
  IF LiveProfiles = {} THEN Read(r, [op |-> "create_profile", input |-> in])
  ELSE Read(r, [op |-> "update_profile", id |-> Live, input |-> in])
DeleteProfile(r) == LiveProfiles # {} /\ Read(r, [op |-> "delete_profile"])
Score(r) ==
  /\ LiveProfiles # {}
  /\ Read(r, [op |-> "score", id |-> Live,
              score |-> ATSScore(profile[Live].input, Bullets(ProjectsOf(Live)),
                                Cardinality(ProjectsOf(Live)))])
CreateProject(r, bullets) ==
  LiveProfiles # {} /\ Read(r, [op |-> "create_project", of |-> Live, bullets |-> bullets])
UpdateProject(r, j, bullets) ==
  IsLive(project[j]) /\ Read(r, [op |-> "update_project", id |-> j, bullets |-> bullets])
DeleteProject(r, j) == IsLive(project[j]) /\ Read(r, [op |-> "delete_project", id |-> j])
UploadFile(r) == uploads < MaxUploads /\ Read(r, [op |-> "upload", found |-> file])
DeleteFile(r) == file > 0 /\ Read(r, [op |-> "delete_file"])

Fresh(rows) == {i \in DOMAIN rows : rows[i] = None}

\* A second profile fails on the index.
InsertProfile(in) ==
  IF LiveProfiles # {} THEN UNCHANGED profile
  ELSE /\ Fresh(profile) # {}
       /\ profile' = [profile EXCEPT ![Min(Fresh(profile))] =
                        [input |-> in, score |-> None, live |-> TRUE]]

\* An update of a row that is deleted changes nothing, and is no error.
Edit(rows, i, column, value) ==
  IF IsLive(rows[i]) THEN [rows EXCEPT ![i][column] = value] ELSE rows

\* UpdateScore, of the profile that was read (and, in Bug_Scored, of the user's)
Bug_Scored(w) ==
  [id |-> IF LiveProfiles = {} THEN w.id ELSE Live, is |-> [of |-> w.id, score |-> w.score]]
Scored(w) == [id |-> w.id, is |-> [of |-> w.id, score |-> w.score]]

\* UpsertFile: after another upload the insert fails on the index.
ReplaceFile(w) ==
  IF file > w.found THEN UNCHANGED <<file, uploads>>
  ELSE file' = uploads + 1 /\ uploads' = uploads + 1

Write(r) ==
  LET w == serving[r] IN
  /\ w # None /\ serving' = [serving EXCEPT ![r] = None]
  /\ CASE w.op = "create_profile" -> InsertProfile(w.input)
       [] w.op = "update_profile" -> profile' = Edit(profile, w.id, "input", w.input)
       [] w.op = "delete_profile" ->
            profile' = [i \in Profiles |-> IF IsLive(profile[i])
                          THEN [profile[i] EXCEPT !.live = FALSE] ELSE profile[i]]
       [] w.op = "score" -> profile' = Edit(profile, Scored(w).id, "score", Scored(w).is)
       [] OTHER -> UNCHANGED profile
  /\ CASE w.op = "create_project" ->
            /\ Fresh(project) # {}
            /\ \E j \in Fresh(project) : project' = [project EXCEPT ![j] =
                 [of |-> w.of, bullets |-> w.bullets, live |-> TRUE]]
       [] w.op = "update_project" -> project' = Edit(project, w.id, "bullets", w.bullets)
       [] w.op = "delete_project" -> project' = Edit(project, w.id, "live", FALSE)
       [] OTHER -> UNCHANGED project
  /\ CASE w.op = "upload" -> ReplaceFile(w)
       [] w.op = "delete_file" -> file' = (IF file > 0 THEN -1 ELSE file) /\ UNCHANGED uploads
       [] OTHER -> UNCHANGED <<file, uploads>>

ResumeNext ==
  \E r \in Requests :
    \/ \E in \in ProfileInputs : UpsertProfile(r, in)
    \/ \E bullets \in ProjectInputs :
         CreateProject(r, bullets) \/ \E j \in Projects : UpdateProject(r, j, bullets)
    \/ \E j \in Projects : DeleteProject(r, j)
    \/ DeleteProfile(r) \/ Score(r) \/ UploadFile(r) \/ DeleteFile(r) \/ Write(r)

-----------------------------------------------------------------------------
\* The score on a profile was computed from that profile: one that is computed
\* while the profile is deleted and replaced never ends up on its successor
\* (service.go Score; repository UpdateScore).
ScoreIsItsOwn ==
  \A i \in Profiles : profile[i] # None /\ profile[i].score # None =>
    profile[i].score.of = i
=============================================================================
