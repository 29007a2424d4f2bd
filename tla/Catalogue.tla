------------------------------ MODULE Catalogue ------------------------------
(***************************************************************************)
(* The rows of the catalogue and who writes them: the administrators, who  *)
(* create, change and delete DSA problems and topics (internal/content),   *)
(* design problems and LLD problems, and the seeder (internal/seed), which *)
(* upserts its own problems and topics by slug.                            *)
(*                                                                         *)
(* A behaviour is about one table.  Topics, design problems and LLD        *)
(* problems are written by a single statement; a problem has associations, *)
(* which its update deletes and inserts anew in a transaction that holds   *)
(* the row from its UPDATE to its end.  The input of a write is its slug, the      *)
(* associations it asks for, and what is wrong with it.                    *)
(***************************************************************************)
EXTENDS FiniteSets, Naturals

CONSTANTS
  Requests,        \* handlers at work at once
  Ids,             \* of the rows of the table
  Tables,          \* a subset of {"problem", "topic", "design", "lld"}
  Bodies,          \* inputs: [slug, tags, flaws]
  SeedBodies,      \* the seeder's rows: [slug, tags, flaws |-> {}]
  None

VARIABLES
  table,     \* the table the behaviour is about
  rows,      \* Ids -> [body, deleted], or None
  tags,      \* Ids -> the associations of a problem
  request,   \* Requests -> the write at work, or None
  answer     \* Requests -> the last answer, or None

catalogueVars == <<table, rows, tags, request, answer>>

CatalogueInit ==
  /\ table \in Tables
  /\ rows = [i \in Ids |-> None]
  /\ tags = [i \in Ids |-> {}]
  /\ request = [r \in Requests |-> None]
  /\ answer = [r \in Requests |-> None]

Live(i) == rows[i] # None /\ ~rows[i].deleted
Free(i) == rows[i] = None

\* SlugExists does not count deleted rows; the unique index does.
SlugExists(slug, except) == \E i \in Ids \ except : Live(i) /\ rows[i].body.slug = slug
Indexed(slug, except) == \E i \in Ids \ except : rows[i] # None /\ rows[i].body.slug = slug

-----------------------------------------------------------------------------
(* What the services refuse before they look at the table.                 *)

Refusal(checks) ==
  LET wrong == {n \in DOMAIN checks : checks[n].flaw}
  IN IF wrong = {} THEN None
     ELSE checks[CHOOSE n \in wrong : \A k \in wrong : n <= k].answer
Invalid(body, flaws) == [flaw |-> body.flaws \cap flaws # {}, answer |-> "validation"]
Missing(body, flaw) == [flaw |-> flaw \in body.flaws, answer |-> "not found"]
BadRequest(body) == [flaw |-> "malformed" \in body.flaws, answer |-> "bad request"]

ProblemRefusal(body) ==
  Refusal(<<BadRequest(body),
            Invalid(body, {"slug", "title", "difficulty", "platform", "source"}),
            Missing(body, "no track"),
            Invalid(body, {"minutes", "frequency"})>>)
TopicRefusal(body) ==
  Refusal(<<BadRequest(body),
            Invalid(body, {"slug", "name", "pillar", "difficulty", "priority"}),
            Missing(body, "no pillar"),
            Invalid(body, {"hours"})>>)
DesignRefusal(body) ==
  Refusal(<<BadRequest(body), Invalid(body, {"slug", "title", "difficulty"}),
            Missing(body, "no track")>>)
LldRefusal(body) ==
  Refusal(<<BadRequest(body), Invalid(body, {"slug", "title", "difficulty"}),
            Missing(body, "no track")>>)
Refused(body) ==
  CASE table = "problem" -> ProblemRefusal(body)
    [] table = "topic" -> TopicRefusal(body)
    [] table = "design" -> DesignRefusal(body)
    [] table = "lld" -> LldRefusal(body)

\* A pattern or a company that does not exist is met in the transaction only, as
\* is a frequency that names no company.
Unknown(body, flaw) == [flaw |-> flaw \in body.flaws, answer |-> "unknown reference"]
Unresolved(body) ==
  Refusal(<<Unknown(body, "unknown pattern"), Invalid(body, {"no company"}),
            Unknown(body, "unknown company")>>)

-----------------------------------------------------------------------------
At(r, step) == request[r] # None /\ request[r].step = step
Answer(r, what) ==
  /\ answer' = [answer EXCEPT ![r] = what]
  /\ request' = [request EXCEPT ![r] = None]
Proceed(r, step) == request' = [request EXCEPT ![r].step = step] /\ UNCHANGED answer

\* The row is locked by a transaction that has updated it.
Holds(r, i) == request[r] # None /\ request[r].id = i /\ request[r].locked
Locked(i) == \E r \in Requests : Holds(r, i)
\* A slug that a transaction at work takes or gives up makes the next writer
\* wait.
Awaited(slug, i) ==
  \E r \in Requests, k \in Ids \ {i} :
    Holds(r, k) /\ slug \in {rows[k].body.slug, request[r].body.slug}

\* Create and Update up to the check of the slug
Begin(r, op, i, body) ==
  /\ request[r] = None
  /\ IF Refused(body) # None
     THEN answer' = [answer EXCEPT ![r] = Refused(body)] /\ UNCHANGED request
     ELSE IF SlugExists(body.slug, IF op = "update" THEN {i} ELSE {})
     THEN answer' = [answer EXCEPT ![r] = "conflict"] /\ UNCHANGED request
     ELSE /\ request' = [request EXCEPT ![r] =
               [op |-> op, id |-> i, body |-> body, step |-> "checked",
                locked |-> FALSE, seen |-> {}]]
          /\ answer' = [answer EXCEPT ![r] = None]
  /\ UNCHANGED <<table, rows, tags>>

\* The insert of a row, and of the associations of a problem in the same
\* transaction
Insert(r) ==
  /\ At(r, "checked") /\ request[r].op = "create"
  /\ LET body == request[r].body
     IN /\ ~Awaited(body.slug, None)
        /\ IF Indexed(body.slug, {})
           THEN Answer(r, "conflict") /\ UNCHANGED <<rows, tags>>
           ELSE IF table = "problem" /\ Unresolved(body) # None
           THEN Answer(r, Unresolved(body)) /\ UNCHANGED <<rows, tags>>
           ELSE /\ \E i \in Ids :
                     /\ Free(i)
                     /\ rows' = [rows EXCEPT ![i] = [body |-> body, deleted |-> FALSE]]
                     /\ tags' = [tags EXCEPT ![i] = body.tags]
                /\ Answer(r, "created")
  /\ UNCHANGED table
CreateProblem(r) == table = "problem" /\ Insert(r)
CreateTopic(r) == table = "topic" /\ Insert(r)
CreateDesign(r) == table = "design" /\ Insert(r)
CreateLld(r) == table = "lld" /\ Insert(r)

\* The update of any other row is one statement.
UpdateRow(r) ==
  /\ At(r, "checked") /\ request[r].op = "update"
  /\ LET i == request[r].id
         body == request[r].body
     IN IF ~Live(i) THEN Answer(r, "not found") /\ UNCHANGED rows
        ELSE IF Indexed(body.slug, {i}) THEN Answer(r, "conflict") /\ UNCHANGED rows
        ELSE Answer(r, "updated") /\ rows' = [rows EXCEPT ![i].body = body]
  /\ UNCHANGED <<table, tags>>
UpdateTopic(r) == table = "topic" /\ UpdateRow(r)
UpdateDesign(r) == table = "design" /\ UpdateRow(r)
UpdateLld(r) == table = "lld" /\ UpdateRow(r)

\* The update of a problem: read it, write its columns, replace what is
\* associated with it, commit.
FindProblem(r) ==
  /\ table = "problem" /\ At(r, "checked") /\ request[r].op = "update"
  /\ IF Live(request[r].id) THEN Proceed(r, "found") ELSE Answer(r, "not found")
  /\ UNCHANGED <<table, rows, tags>>

\* No row, no lock: the problem may be deleted since it was read.  Bug_Lock is
\* a plausible slip: the columns written last.
Bug_Lock(r) == FALSE
Lock(r) == Live(request[r].id)
UpdateColumns(r) ==
  /\ At(r, "found")
  /\ ~Locked(request[r].id) /\ ~Awaited(request[r].body.slug, request[r].id)
  /\ IF Live(request[r].id) /\ Indexed(request[r].body.slug, {request[r].id})
     THEN Answer(r, "conflict")
     ELSE /\ request' = [request EXCEPT ![r].step = "updated", ![r].locked = Lock(r)]
          /\ UNCHANGED answer
  /\ UNCHANGED <<table, rows, tags>>

ReplaceAssociations(r) ==
  /\ At(r, "updated")
  /\ IF Unresolved(request[r].body) # None THEN Answer(r, Unresolved(request[r].body))
     ELSE /\ request' = [request EXCEPT ![r].step = "replaced", ![r].seen = tags[request[r].id]]
          /\ UNCHANGED answer
  /\ UNCHANGED <<table, rows, tags>>

\* An association that another transaction has inserted is a duplicate key.
Commit(r) ==
  /\ At(r, "replaced")
  /\ LET i == request[r].id
         left == tags[i] \ request[r].seen
     IN IF left \cap request[r].body.tags # {}
        THEN Answer(r, "conflict") /\ UNCHANGED <<rows, tags>>
        ELSE /\ tags' = [tags EXCEPT ![i] = left \cup request[r].body.tags]
             /\ rows' = IF Live(i) THEN [rows EXCEPT ![i].body = request[r].body] ELSE rows
             /\ Answer(r, IF Live(i) THEN "updated" ELSE "not found")
  /\ UNCHANGED table

\* One statement, which waits for the row.
Delete(r, i) ==
  /\ request[r] = None /\ ~Locked(i)
  /\ rows' = IF Live(i) THEN [rows EXCEPT ![i].deleted = TRUE] ELSE rows
  /\ answer' = [answer EXCEPT ![r] = IF Live(i) THEN "deleted" ELSE "not found"]
  /\ UNCHANGED <<table, tags, request>>

\* The administrator disconnects: what is not committed is rolled back.
Disconnect(r) ==
  /\ request[r] # None /\ Answer(r, None)
  /\ UNCHANGED <<table, rows, tags>>

-----------------------------------------------------------------------------
(* The seeder, in one transaction.  An upsert meets deleted rows, too, and *)
(* leaves them deleted; the read that follows it does not find such a row, *)
(* and nothing of the run stays.                                           *)

Seeded(i, seed) == rows[i] # None /\ rows[i].body.slug = seed.slug
Holder(seed) == {i \in Ids : Seeded(i, seed)}
Unreadable(seed) == \E i \in Holder(seed) : rows[i].deleted

\* Where a run puts its rows: over those that hold their slugs, else anew
Placement(place) ==
  /\ \A seed \in SeedBodies :
       IF Holder(seed) = {} THEN Free(place[seed]) ELSE place[seed] \in Holder(seed)
  /\ \A a, b \in SeedBodies : place[a] = place[b] => a = b

\* Patterns and sources are added to those of a problem, never taken from it.
SeedProblems(place) ==
  tags' = [i \in Ids |->
    tags[i] \cup UNION {seed.tags : seed \in {s \in SeedBodies : place[s] = i}}]
SeedRows(place) ==
  rows' = [i \in Ids |->
    IF \E seed \in SeedBodies : place[seed] = i
    THEN [body |-> CHOOSE seed \in SeedBodies : place[seed] = i, deleted |-> FALSE]
    ELSE rows[i]]

Seed ==
  /\ table \in {"problem", "topic"}
  /\ \A seed \in SeedBodies :
       ~Awaited(seed.slug, None) /\ \A i \in Holder(seed) : ~Locked(i)
  /\ ~ \E seed \in SeedBodies : Unreadable(seed)
  /\ \E place \in [SeedBodies -> Ids] :
       /\ Placement(place) /\ SeedRows(place)
       /\ IF table = "problem" THEN SeedProblems(place) ELSE UNCHANGED tags
  /\ UNCHANGED <<table, request, answer>>

CatalogueNext ==
  \/ \E r \in Requests :
       \/ \E body \in Bodies :
            Begin(r, "create", None, body) \/ \E i \in Ids : Begin(r, "update", i, body)
       \/ CreateProblem(r) \/ CreateTopic(r) \/ CreateDesign(r) \/ CreateLld(r)
       \/ UpdateTopic(r) \/ UpdateDesign(r) \/ UpdateLld(r)
       \/ FindProblem(r) \/ UpdateColumns(r)
       \/ ReplaceAssociations(r) \/ Commit(r) \/ Disconnect(r)
       \/ \E i \in Ids : Delete(r, i)
  \/ Seed

-----------------------------------------------------------------------------
\* However administrators and the seeder interleave, the associations of a
\* problem belong to the write that its columns come from: an administrator's
\* are exactly those that were asked for, and the seeder's are all there
\* (content/write_repository.go UpdateProblem, replaceProblemAssociations).
AssociationsOfOneWrite ==
  table = "problem" =>
    \A i \in Ids : Live(i) =>
      IF rows[i].body \in SeedBodies THEN rows[i].body.tags \subseteq tags[i]
      ELSE tags[i] = rows[i].body.tags
=============================================================================
