------------------------------- MODULE Intake -------------------------------
(***************************************************************************)
(* The profile of one user, the row of user_profiles that the roadmap is   *)
(* generated from: the intake form (internal/intake) writes it as a whole, *)
(* Company Mode (internal/company) its target company alone, and the       *)
(* deletion of the account (internal/auth) deletes it.                     *)
(*                                                                         *)
(* Both writers look for the row, write it and read it back in one         *)
(* transaction, at READ COMMITTED.  A form is its name, the company it     *)
(* targets and what is wrong with it; nothing checks that the company of a *)
(* form exists.                                                            *)
(***************************************************************************)
EXTENDS Naturals

CONSTANTS
  Requests,     \* handlers at work at once
  Forms,        \* [form, target, flaws]
  Companies,    \* companies asked for as a target
  Known,        \* those of them that exist
  None

VARIABLES
  profile,   \* the live row: [form, target], or None
  write,     \* Requests -> the transaction at work, or None
  answer     \* Requests -> the last answer, or None

intakeVars == <<profile, write, answer>>

IntakeInit ==
  /\ profile = None
  /\ write = [r \in Requests |-> None]
  /\ answer = [r \in Requests |-> None]

Idle(r) == write[r] = None
At(r, step) == write[r] # None /\ write[r].step = step
Ends(r, what) ==
  /\ answer' = [answer EXCEPT ![r] = what]
  /\ write' = [write EXCEPT ![r] = None]
Error(status) == [status |-> status, asked |-> None, shown |-> None]

\* The request whose transaction has written the row, or inserted one
Writing(r) == At(r, "written") \/ At(r, "read")
Locked == \E r \in Requests : Writing(r)

-----------------------------------------------------------------------------
\* toInput refuses what it cannot parse, validate what it does not accept.
Unparsable == {"track_id", "target_company_id", "start_date"}
Invalid == {"target_role", "years_experience", "hours_per_week", "target_weeks",
            "pillar_strengths"}
Refused(form) == form.flaws \cap (Unparsable \cup Invalid) # {}

Start(r, what) ==
  /\ write' = [write EXCEPT ![r] =
       [asked |-> what, step |-> "begun", found |-> FALSE, row |-> None, shown |-> None]]
  /\ answer' = [answer EXCEPT ![r] = None]

\* PUT /profile
Upsert(r, form) ==
  /\ Idle(r)
  /\ IF Refused(form)
     THEN answer' = [answer EXCEPT ![r] = Error(422)] /\ UNCHANGED write
     ELSE Start(r, [form |-> form.form, target |-> form.target])
  /\ UNCHANGED profile

\* PUT /company/target
SetTarget(r, company) ==
  /\ Idle(r)
  /\ IF company \notin Known
     THEN answer' = [answer EXCEPT ![r] = Error(422)] /\ UNCHANGED write
     ELSE Start(r, [form |-> None, target |-> company])
  /\ UNCHANGED profile

IsForm(r) == write[r].asked.form # None

\* The first read of the transaction
Find(r) ==
  /\ At(r, "begun")
  /\ IF profile = None /\ ~IsForm(r) THEN Ends(r, Error(404))
     ELSE /\ write' = [write EXCEPT ![r].step = "found", ![r].found = profile # None]
          /\ UNCHANGED answer
  /\ UNCHANGED profile

Written(r, row) == write' = [write EXCEPT ![r].step = "written", ![r].row = row] /\ UNCHANGED answer

\* The insert waits for another transaction that inserts; one live row per user.
Create(r) ==
  /\ At(r, "found") /\ ~write[r].found /\ ~Locked
  /\ IF profile # None THEN Ends(r, Error(500)) ELSE Written(r, write[r].asked)
  /\ UNCHANGED profile

\* The update waits for the row; if that was deleted it writes none, and the
\* read that follows fails.
Update(r) ==
  /\ At(r, "found") /\ write[r].found /\ ~Locked
  /\ IF profile = None THEN Ends(r, Error(500))
     ELSE Written(r, IF IsForm(r) THEN write[r].asked
                     ELSE [profile EXCEPT !.target = write[r].asked.target])
  /\ UNCHANGED profile

\* A transaction sees what it has written.  Bug_View is a plausible slip: the
\* read on the connection that is not the transaction's.
Bug_View(r) == profile
View(r) == write[r].row
Reload(r) ==
  /\ At(r, "written")
  /\ write' = [write EXCEPT ![r].step = "read", ![r].shown = View(r)]
  /\ UNCHANGED <<profile, answer>>

Commit(r) ==
  /\ At(r, "read")
  /\ profile' = write[r].row
  /\ Ends(r, [status |-> 200, asked |-> write[r].asked, shown |-> write[r].shown])

\* The client goes away: the transaction is rolled back.
Disconnect(r) == ~Idle(r) /\ Ends(r, None) /\ UNCHANGED profile

\* SoftDeleteUserData; an access token outlives it.
DeleteAccount ==
  /\ profile # None /\ ~Locked
  /\ profile' = None
  /\ UNCHANGED <<write, answer>>

IntakeNext ==
  \/ \E r \in Requests :
       \/ \E form \in Forms : Upsert(r, form)
       \/ \E company \in Companies : SetTarget(r, company)
       \/ Find(r) \/ Create(r) \/ Update(r) \/ Reload(r) \/ Commit(r) \/ Disconnect(r)
  \/ DeleteAccount

-----------------------------------------------------------------------------
\* Whatever forms and targets race, a request that is answered with a profile
\* is shown what it asked for: a form all of it, a target beside the whole of
\* one form (intake/repository.go Upsert, company/repository.go
\* SetTargetCompany).
AnswerShowsTheWrite ==
  \A r \in Requests : answer[r] # None /\ answer[r].status = 200 =>
    LET asked == answer[r].asked
        shown == answer[r].shown
    IN /\ shown # None /\ shown.target = asked.target
       /\ shown.form \in {form.form : form \in Forms}
       /\ asked.form # None => shown.form = asked.form
=============================================================================
