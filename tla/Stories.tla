------------------------------- MODULE Stories -------------------------------
(***************************************************************************)
(* The STAR stories of one user (backend/internal/behavioral): their       *)
(* editing, and the feedback and strength score that an analysis stores    *)
(* with a story.                                                           *)
(*                                                                         *)
(* An edit and an analysis both read the story, work on the copy and write *)
(* every column back, and nothing locks the row in between; so each is two *)
(* steps here, with those of other requests among them.                    *)
(*                                                                         *)
(* The analysis is that of Improver.                                       *)
(***************************************************************************)
EXTENDS Improver

CONSTANTS
  Stories,    \* ids
  Requests,   \* handlers at work at once
  Drafts,     \* [titled, themed, oversized, section]: what a client may send
  Gone

VARIABLES
  story,      \* Stories -> its row, None before there is one, Gone once deleted
  editing     \* Requests -> what it works on, or None

storyVars == <<story, editing>>

Stored(s) == story[s] \notin {None, Gone}

StoriesInit ==
  /\ story = [s \in Stories |-> None]
  /\ editing = [r \in Requests |-> None]

-----------------------------------------------------------------------------
(***************************************************************************)
(* The requests                                                            *)
(***************************************************************************)
Valid(draft) == draft.titled /\ draft.themed /\ ~draft.oversized

\* Blank sections are stored as NULL.
ApplyText(section) == [s \in Sections |-> IF section[s].words = 0 THEN None ELSE section[s]]

Create(s, draft) ==
  /\ story[s] = None /\ Valid(draft)
  /\ story' = [story EXCEPT ![s] = [section |-> ApplyText(draft.section), feedback |-> None]]
  /\ UNCHANGED editing

\* The handlers read first: a story that is gone, or of another user, is a 404.
Update(r, s, draft) ==
  /\ editing[r] = None /\ Valid(draft) /\ Stored(s)
  /\ editing' = [editing EXCEPT ![r] = [op |-> "update", story |-> s,
       row |-> [section |-> ApplyText(draft.section), feedback |-> None]]]
  /\ UNCHANGED story

Improve(r, s) ==
  /\ editing[r] = None /\ Stored(s)
  /\ editing' = [editing EXCEPT ![r] = [op |-> "improve", story |-> s,
       row |-> [story[s] EXCEPT !.feedback = Analysis(story[s].section, TRUE)]]]
  /\ UNCHANGED story

\* The statement both end in sets all columns, of a row that is not deleted.
\* (Bug_Columns is a plausible slip in it: an analysis that stores its own only.)
Bug_Columns(old, e) ==
  IF e.op = "improve" THEN [old EXCEPT !.feedback = e.row.feedback] ELSE e.row
Columns(old, e) == e.row
Save(r) ==
  /\ editing[r] # None
  /\ LET e == editing[r] IN
       story' = IF ~Stored(e.story) THEN story
                ELSE [story EXCEPT ![e.story] = Columns(@, e)]
  /\ editing' = [editing EXCEPT ![r] = None]

Delete(s) == Stored(s) /\ story' = [story EXCEPT ![s] = Gone] /\ UNCHANGED editing

StoriesNext ==
  \/ \E s \in Stories, draft \in Drafts : Create(s, draft)
  \/ \E s \in Stories : Delete(s)
  \/ \E r \in Requests, s \in Stories :
       Improve(r, s) \/ \E draft \in Drafts : Update(r, s, draft)
  \/ \E r \in Requests : Save(r)

-----------------------------------------------------------------------------
\* Feedback and score that are stored with a story are those of the text stored
\* with them, whatever was edited while it was analysed ("stale AI feedback no
\* longer reflects the story", service.go Update; Improve and repository Update).
FeedbackMatchesStory ==
  \A s \in Stories : Stored(s) /\ story[s].feedback # None =>
    story[s].feedback = Analysis(story[s].section, TRUE)
=============================================================================
