------------------------------ MODULE Roadmap -------------------------------
(***************************************************************************)
(* Roadmap generation (backend/internal/roadmap) for one user who has a    *)
(* profile: POST /roadmaps/generate, with and without regenerate, several  *)
(* requests at once, while tasks are completed and reopened and problems   *)
(* recorded.                                                               *)
(*                                                                         *)
(* The check for an active roadmap is made outside the transaction.        *)
(* CreateGraph then archives the active row, inserts the new roadmap with  *)
(* its tasks, and marks those tasks completed whose item has a completed   *)
(* progress row.  Every statement is a step.  The transaction is READ      *)
(* COMMITTED: a statement sees what was committed when it started; an      *)
(* UPDATE waits for a row another transaction has changed and looks at it  *)
(* again; an INSERT waits for a transaction that holds the same key of     *)
(* uq_roadmap_user_active and fails if that one commits.                   *)
(*                                                                         *)
(* A definition named Bug_... is a plausible slip in the one that follows  *)
(* it; nothing uses it but the runs that show which property catches it.   *)
(***************************************************************************)
CONSTANTS
  Items,      \* content items
  ItemType,   \* Items -> the item_type of the tasks about it
  Plans,      \* the sets of items the curriculum engine may plan
  Gens        \* generate requests, each handled once; names its roadmap

ItemTypes == {"topic", "problem", "resource"}
States == {"absent", "pending", "completed"}

ASSUME RoadmapAssumption ==
  /\ ItemType \in [Items -> ItemTypes]
  /\ Plans \subseteq SUBSET Items

VARIABLES
  roadmap,   \* Gens -> the committed roadmaps row of that request
  task,      \* Gens -> Items -> the committed plan_tasks row
  progress,  \* the items with a completed progress row
  gen,       \* Gens -> the handler of the request
  kept       \* history: the items completed ever since a regenerate came in

rows == <<roadmap, task, progress>>
vars == <<rows, gen, kept>>

Handler ==
  [pc : {"new", "asked", "archiving", "inserting", "topics", "problems",
         "committing", "done"},
   regenerate : BOOLEAN,
   seen : SUBSET Gens,            \* the rows its UPDATE found active
   archived : SUBSET Gens,        \* those it archived, not committed yet
   graph : [Items -> States],     \* the tasks it inserted, not committed yet
   reply : {"none", "created", "exists", "conflict", "error"}]

TypeOK ==
  /\ roadmap \in [Gens -> {"none", "active", "archived"}]
  /\ task \in [Gens -> [Items -> States]]
  /\ progress \subseteq Items
  /\ gen \in [Gens -> Handler]
  /\ kept \in [Gens -> SUBSET Items]

NoTasks == [i \in Items |-> "absent"]

Init ==
  /\ roadmap = [g \in Gens |-> "none"]
  /\ task = [g \in Gens |-> NoTasks]
  /\ progress \in SUBSET {i \in Items : ItemType[i] = "problem"}
  /\ gen = [g \in Gens |-> [pc |-> "new", regenerate |-> FALSE, seen |-> {},
                            archived |-> {}, graph |-> NoTasks,
                            reply |-> "none"]]
  /\ kept = [g \in Gens |-> {}]

Active == {g \in Gens : roadmap[g] = "active"}
InHand(g) == gen[g].pc \notin {"new", "done"}
HasInserted(g) == gen[g].pc \in {"topics", "problems", "committing"}

\* The handler answers; a transaction that is still open is rolled back.
Reply(g, answer) ==
  gen' = [gen EXCEPT ![g] = [@ EXCEPT !.pc = "done", !.seen = {},
                                      !.archived = {}, !.graph = NoTasks,
                                      !.reply = answer]]

-----------------------------------------------------------------------------
Ask(g) ==
  /\ gen[g].pc = "new"
  /\ \E regenerate \in BOOLEAN :
       /\ gen' = [gen EXCEPT ![g] = [@ EXCEPT !.pc = "asked",
                                              !.regenerate = regenerate]]
       /\ kept' = [kept EXCEPT ![g] = IF regenerate THEN progress ELSE {}]
  /\ UNCHANGED rows

\* Without regenerate, an active roadmap is left alone.
Exists(g) ==
  /\ gen[g].pc = "asked" /\ ~gen[g].regenerate
  /\ Active # {}
  /\ Reply(g, "exists")
  /\ UNCHANGED <<rows, kept>>

NoneExists(g) ==
  /\ gen[g].pc = "asked" /\ ~gen[g].regenerate
  /\ Active = {}
  /\ gen' = [gen EXCEPT ![g].pc = "inserting"]
  /\ UNCHANGED <<rows, kept>>

\* The UPDATE that archives starts: it finds what is active now.
FindActive(g) ==
  /\ gen[g].pc = "asked" /\ gen[g].regenerate
  /\ gen' = [gen EXCEPT ![g] = [@ EXCEPT !.pc = "archiving",
                                         !.seen = Active]]
  /\ UNCHANGED <<rows, kept>>

\* The archiving commits before the new roadmap is inserted.
Bug_ArchiveCommits(g) ==
  /\ gen[g].pc = "archiving"
  /\ roadmap' = [h \in Gens |-> IF h \in gen[g].seen THEN "archived"
                                ELSE roadmap[h]]
  /\ gen' = [gen EXCEPT ![g] = [@ EXCEPT !.pc = "inserting"]]
  /\ UNCHANGED <<task, progress, kept>>
\* It waits for the transactions that archived a row it found, and leaves out
\* the rows that are no longer active.
Archive(g) ==
  /\ gen[g].pc = "archiving"
  /\ \A h \in Gens \ {g} : gen[h].archived \cap gen[g].seen = {}
  /\ gen' = [gen EXCEPT ![g] = [@ EXCEPT !.pc = "inserting",
                                         !.archived = gen[g].seen \cap Active]]
  /\ UNCHANGED <<rows, kept>>
\* Any transaction that has begun to write.
Bug_TableLock(h) == InHand(h) /\ gen[h].pc # "asked"
\* Transactions that inserted or archived a row with the key of the index.
HoldsKey(h) == HasInserted(h) \/ gen[h].archived # {}

\* The roadmaps are not unique in the database.
Bug_NoIndex(g) ==
  /\ gen[g].pc = "inserting"
  /\ gen' = [gen EXCEPT
               ![g] = [@ EXCEPT
                         !.pc = IF gen[g].regenerate THEN "topics"
                                ELSE "committing",
                         !.graph = [i \in Items |-> "pending"]]]
  /\ UNCHANGED <<rows, kept>>
Insert(g) ==
  /\ gen[g].pc = "inserting"
  /\ \A h \in Gens \ {g} : ~HoldsKey(h)
  /\ Active \subseteq gen[g].archived
  /\ \E plan \in Plans :
       gen' = [gen EXCEPT
                 ![g] = [@ EXCEPT
                           !.pc = IF gen[g].regenerate THEN "topics"
                                  ELSE "committing",
                           !.graph = [i \in Items |-> IF i \in plan
                                                      THEN "pending"
                                                      ELSE "absent"]]]
  /\ UNCHANGED <<rows, kept>>

\* uq_roadmap_user_active is violated.
Conflict(g) ==
  /\ gen[g].pc = "inserting"
  /\ \A h \in Gens \ {g} : ~HoldsKey(h)
  /\ ~(Active \subseteq gen[g].archived)
  /\ Reply(g, "conflict")
  /\ UNCHANGED <<rows, kept>>

\* From the tasks of the archived roadmap instead of the progress rows.
Bug_FromTasks(g, type) ==
  [i \in Items |-> IF /\ gen[g].graph[i] = "pending"
                      /\ ItemType[i] = type
                      /\ \E h \in gen[g].archived : task[h][i] = "completed"
                   THEN "completed" ELSE gen[g].graph[i]]
\* The tasks of the new roadmap about items of a type that have a completed
\* progress row, as one UPDATE sees it.
CarryOver(g, type) ==
  [i \in Items |-> IF /\ gen[g].graph[i] = "pending"
                      /\ ItemType[i] = type /\ i \in progress
                   THEN "completed" ELSE gen[g].graph[i]]

CarryTopics(g) ==
  /\ gen[g].pc = "topics"
  /\ gen' = [gen EXCEPT ![g] = [@ EXCEPT !.pc = "problems",
                                         !.graph = CarryOver(g, "topic")]]
  /\ UNCHANGED <<rows, kept>>

CarryProblems(g) ==
  /\ gen[g].pc = "problems"
  /\ gen' = [gen EXCEPT ![g] = [@ EXCEPT !.pc = "committing",
                                         !.graph = CarryOver(g, "problem")]]
  /\ UNCHANGED <<rows, kept>>

Commit(g) ==
  /\ gen[g].pc = "committing"
  /\ roadmap' = [h \in Gens |-> IF h = g THEN "active"
                                ELSE IF h \in gen[g].archived THEN "archived"
                                ELSE roadmap[h]]
  /\ task' = [task EXCEPT ![g] = gen[g].graph]
  /\ Reply(g, "created")
  /\ UNCHANGED <<progress, kept>>

\* No profile, a failing statement, a lost client, a server that stops.
Fail(g) ==
  /\ InHand(g)
  /\ Reply(g, "error")
  /\ UNCHANGED <<rows, kept>>

-----------------------------------------------------------------------------
(***************************************************************************)
(* What goes on besides, each in a transaction of its own: the handlers of *)
(* module PlanTasks, and the problem page (backend/internal/dsaprogress).  *)
(***************************************************************************)
SetProgress(done) ==
  /\ progress' = done
  /\ kept' = [g \in Gens |-> kept[g] \cap done]

\* The progress row is that of the task, not of its item.
\* A task of any roadmap, archived or not, can be completed.
Complete(g, i) ==
  /\ task[g][i] = "pending"
  /\ task' = [task EXCEPT ![g] = [@ EXCEPT ![i] = "completed"]]
  /\ SetProgress(IF ItemType[i] \in {"topic", "problem"}
                 THEN progress \cup {i} ELSE progress)
  /\ UNCHANGED <<roadmap, gen>>

\* It leaves the progress row alone.
Reopen(g, i) ==
  /\ task[g][i] = "completed"
  /\ task' = [task EXCEPT ![g] = [@ EXCEPT ![i] = "pending"]]
  /\ UNCHANGED <<roadmap, progress, gen, kept>>

Record(i) ==
  /\ ItemType[i] = "problem"
  /\ SetProgress(progress \cup {i}) \/ SetProgress(progress \ {i})
  /\ UNCHANGED <<roadmap, task, gen>>

Step(g) ==
  \/ Exists(g) \/ NoneExists(g) \/ FindActive(g) \/ Archive(g)
  \/ Insert(g) \/ Conflict(g) \/ CarryTopics(g) \/ CarryProblems(g)
  \/ Commit(g)

Next ==
  \/ \E g \in Gens : Ask(g) \/ Step(g) \/ Fail(g)
  \/ \E g \in Gens, i \in Items : Complete(g, i) \/ Reopen(g, i)
  \/ \E i \in Items : Record(i)

Spec == Init /\ [][Next]_vars

\* A handler at work is not stopped forever between two statements.
FairSpec == Spec /\ \A g \in Gens : WF_vars(Step(g))

-----------------------------------------------------------------------------
(***************************************************************************)
(* The inductive invariant: what the open transactions hold.               *)
(***************************************************************************)
\* The archived rows of an open transaction are active for everyone else, and
\* no other transaction has them.
RowLocks ==
  \A g \in Gens :
    /\ gen[g].archived \subseteq Active
    /\ \A h \in Gens \ {g} : gen[g].archived \cap gen[h].archived = {}

\* One transaction at a time has inserted its roadmap, and it has archived
\* what is active.
KeyLock ==
  \A g \in Gens :
    HasInserted(g) =>
      /\ Active \subseteq gen[g].archived
      /\ \A h \in Gens \ {g} : ~HasInserted(h)

\* A roadmap is there once its request is answered with it.
OwnRoadmap == \A g \in Gens : gen[g].pc # "done" => roadmap[g] = "none"

\* How far the carry-over of an open transaction has come.
Carried(g, type) ==
  \A i \in kept[g] : ItemType[i] = type => gen[g].graph[i] # "pending"
CarriedSoFar ==
  \A g \in Gens :
    /\ InHand(g) => kept[g] \subseteq progress
    /\ gen[g].regenerate /\ gen[g].pc \in {"problems", "committing"}
         => Carried(g, "topic")
    /\ gen[g].regenerate /\ gen[g].pc = "committing" => Carried(g, "problem")

-----------------------------------------------------------------------------
(***************************************************************************)
(* Properties.                                                             *)
(***************************************************************************)
\* However many generate requests race, a user has one active roadmap at
\* most, replaced by the next in one step and never lost to a request that
\* fails; an archived one stays archived (CreateGraph).
Plan == INSTANCE ActivePlan WITH
  current <- Active,
  past <- {g \in Gens : roadmap[g] = "archived"}
ImplementsPlan == Plan!Spec

\* Topics and problems that were completed when a regenerate came in, and
\* stay so, are completed in the roadmap it creates, whatever is completed,
\* reopened or recorded meanwhile (carryOverCompletedProgress).
CarriedOver ==
  [][\A g \in Gens : \A i \in kept[g] :
       /\ Commit(g) /\ gen[g].regenerate
       /\ ItemType[i] \in {"topic", "problem"}
       => task'[g][i] # "pending"]_vars

\* A request is refused only because the user has a roadmap, and still has.
RefusedHasPlan ==
  \A g \in Gens : gen[g].reply \in {"exists", "conflict"} => Active # {}

\* No two requests wait for each other's rows and keys: every one is answered.
GenerateAnswered ==
  \A g \in Gens : gen[g].pc = "asked" ~> gen[g].pc = "done"

-----------------------------------------------------------------------------
\* "preserving already-recorded progress where the content item still exists
\* in the new plan" (02-SRS.md, FR-CUR-010): what is completed in the roadmap
\* that is replaced is completed in the one that replaces it.
RegenerationPreserves ==
  [][\A g \in Gens : \A h \in gen[g].archived, i \in Items :
       Commit(g) /\ task[h][i] = "completed" => task'[g][i] # "pending"]_vars
=============================================================================
