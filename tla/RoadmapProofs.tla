--------------------------- MODULE RoadmapProofs ---------------------------
(***************************************************************************)
(* Theorems about Roadmap, for any items, any plans and any number of      *)
(* racing requests.                                                        *)
(*                                                                         *)
(* The argument is about what the open transactions hold.  The row lock    *)
(* keeps two of them from archiving the same roadmap, the key of the       *)
(* unique index keeps two of them from having inserted one, and whoever    *)
(* has inserted one has archived what is active.  So a commit turns what   *)
(* is active into what is archived in one step.                            *)
(***************************************************************************)
EXTENDS Roadmap, TLAPS

OneActive == \A g, h \in Active : g = h

IInv ==
  TypeOK /\ OneActive /\ RowLocks /\ KeyLock /\ OwnRoadmap /\ CarriedSoFar

\* A step in which no handler moves.
World ==
  \/ \E g \in Gens, i \in Items : Complete(g, i) \/ Reopen(g, i)
  \/ \E i \in Items : Record(i)

\* A step of the handler of g.
By(g) == Ask(g) \/ Step(g) \/ Fail(g)

(***************************************************************************)
(* What each step does to the handlers.                                    *)
(***************************************************************************)
\* The record of g becomes h, those of the others stay.
Becomes(g, h) == gen' = [gen EXCEPT ![g] = h]

LEMMA BecomesIs ==
  ASSUME TypeOK, NEW g \in Gens, NEW h \in Handler, Becomes(g, h)
  PROVE  /\ gen' \in [Gens -> Handler]
         /\ gen'[g] = h
         /\ \A k \in Gens \ {g} : gen'[k] = gen[k]
  BY DEF TypeOK, Becomes

LEMMA HandlerOf ==
  ASSUME TypeOK, NEW g \in Gens
  PROVE  gen[g] \in Handler
  BY DEF TypeOK

Answered(g, a) ==
  [gen[g] EXCEPT !.pc = "done", !.seen = {}, !.archived = {},
                 !.graph = NoTasks, !.reply = a]

LEMMA AnsweredIs ==
  ASSUME TypeOK, NEW g \in Gens, NEW a \in {"created", "exists", "conflict", "error"},
         Reply(g, a)
  PROVE  /\ Becomes(g, Answered(g, a))
         /\ Answered(g, a) \in Handler
         /\ Answered(g, a).pc = "done"
         /\ Answered(g, a).archived = {}
         /\ Answered(g, a).reply = a
<1>1. gen[g] \in Handler
  BY HandlerOf
<1>2. NoTasks \in [Items -> States]
  BY DEF NoTasks, States
<1> QED BY <1>1, <1>2 DEF Handler, Answered, Reply, Becomes

\* The steps of a request that asks or is refused leave no trace but the
\* answer.
LEMMA AskStep ==
  ASSUME TypeOK, NEW g \in Gens, Ask(g)
  PROVE  \E h \in Handler : /\ Becomes(g, h)
                            /\ h.pc = "asked"
                            /\ h.archived = gen[g].archived
                            /\ h.reply = gen[g].reply
<1>1. PICK regenerate \in BOOLEAN :
        gen' = [gen EXCEPT ![g] = [@ EXCEPT !.pc = "asked",
                                            !.regenerate = regenerate]]
  BY DEF Ask
<1> DEFINE q == gen[g]
           h == [q EXCEPT !.pc = "asked", !.regenerate = regenerate]
<1>2. q \in Handler
  BY HandlerOf
<1>3. Becomes(g, h)
  BY <1>1 DEF Becomes
<1> HIDE DEF q
<1>4. h \in Handler
  BY <1>2 DEF Handler
<1>5. h.pc = "asked" /\ h.archived = q.archived /\ h.reply = q.reply
  BY <1>2 DEF Handler
<1> QED BY <1>3, <1>4, <1>5 DEF q

LEMMA NoneExistsStep ==
  ASSUME TypeOK, NEW g \in Gens, NoneExists(g)
  PROVE  \E h \in Handler : /\ Becomes(g, h)
                            /\ h.pc = "inserting"
                            /\ h.archived = gen[g].archived
                            /\ h.reply = gen[g].reply
<1> DEFINE q == gen[g]
           h == [q EXCEPT !.pc = "inserting"]
<1>1. q \in Handler
  BY HandlerOf
<1>2. Becomes(g, h)
  BY DEF NoneExists, Becomes
<1> HIDE DEF q
<1>3. h \in Handler
  BY <1>1 DEF Handler
<1>4. h.pc = "inserting" /\ h.archived = q.archived /\ h.reply = q.reply
  BY <1>1 DEF Handler
<1> QED BY <1>2, <1>3, <1>4 DEF q

LEMMA FindActiveStep ==
  ASSUME TypeOK, NEW g \in Gens, FindActive(g)
  PROVE  \E h \in Handler : /\ Becomes(g, h)
                            /\ h.pc = "archiving"
                            /\ h.archived = gen[g].archived
                            /\ h.reply = gen[g].reply
<1> DEFINE q == gen[g]
           found == Active
           h == [q EXCEPT !.pc = "archiving", !.seen = found]
<1>1. q \in Handler /\ found \in SUBSET Gens
  BY HandlerOf DEF Active
<1>2. Becomes(g, h)
  BY DEF FindActive, Becomes
<1> HIDE DEF q, found
<1>3. h \in Handler
  BY <1>1 DEF Handler
<1>4. h.pc = "archiving" /\ h.archived = q.archived /\ h.reply = q.reply
  BY <1>1 DEF Handler
<1> QED BY <1>2, <1>3, <1>4 DEF q

LEMMA ArchiveStep ==
  ASSUME TypeOK, NEW g \in Gens, Archive(g)
  PROVE  \E h \in Handler : /\ Becomes(g, h)
                            /\ h.pc = "inserting"
                            /\ h.archived = gen[g].seen \cap Active
                            /\ h.reply = gen[g].reply
<1> DEFINE q == gen[g]
           mine == gen[g].seen \cap Active
           h == [q EXCEPT !.pc = "inserting", !.archived = mine]
<1>1. q \in Handler /\ mine \in SUBSET Gens
  BY HandlerOf DEF Active
<1>2. Becomes(g, h)
  BY DEF Archive, Becomes
<1> HIDE DEF q, mine
<1>3. h \in Handler
  BY <1>1 DEF Handler
<1>4. h.pc = "inserting" /\ h.archived = mine /\ h.reply = q.reply
  BY <1>1 DEF Handler
<1> QED BY <1>2, <1>3, <1>4 DEF q, mine

LEMMA InsertStep ==
  ASSUME TypeOK, NEW g \in Gens, Insert(g)
  PROVE  \E h \in Handler : /\ Becomes(g, h)
                            /\ h.pc = IF gen[g].regenerate THEN "topics"
                                      ELSE "committing"
                            /\ h.regenerate = gen[g].regenerate
                            /\ h.archived = gen[g].archived
                            /\ h.reply = gen[g].reply
<1>1. PICK plan \in Plans :
        gen' = [gen EXCEPT
                 ![g] = [@ EXCEPT
                           !.pc = IF gen[g].regenerate THEN "topics"
                                  ELSE "committing",
                           !.graph = [i \in Items |-> IF i \in plan
                                                      THEN "pending"
                                                      ELSE "absent"]]]
  BY DEF Insert
<1> DEFINE q == gen[g]
           tasks == [i \in Items |-> IF i \in plan THEN "pending" ELSE "absent"]
           pc == IF gen[g].regenerate THEN "topics" ELSE "committing"
           h == [q EXCEPT !.pc = pc, !.graph = tasks]
<1>2. q \in Handler /\ tasks \in [Items -> States] /\ pc \in {"topics", "committing"}
  BY HandlerOf DEF States
<1>3. Becomes(g, h)
  BY <1>1 DEF Becomes
<1> HIDE DEF q, tasks, pc
<1>4. h \in Handler
  BY <1>2 DEF Handler
<1>5. h.pc = pc /\ h.regenerate = q.regenerate /\ h.archived = q.archived
        /\ h.reply = q.reply
  BY <1>2 DEF Handler
<1> QED BY <1>3, <1>4, <1>5 DEF q, pc

\* The record of a handler that has carried over the items of a type.
Carrying(g, type, pc) ==
  [gen[g] EXCEPT !.pc = pc, !.graph = CarryOver(g, type)]

LEMMA CarryingIs ==
  ASSUME TypeOK, NEW g \in Gens, NEW type, NEW pc \in {"problems", "committing"}
  PROVE  /\ Carrying(g, type, pc) \in Handler
         /\ Carrying(g, type, pc).pc = pc
         /\ Carrying(g, type, pc).graph = CarryOver(g, type)
         /\ Carrying(g, type, pc).regenerate = gen[g].regenerate
         /\ Carrying(g, type, pc).archived = gen[g].archived
         /\ Carrying(g, type, pc).reply = gen[g].reply
<1> DEFINE q == gen[g]
           tasks == CarryOver(g, type)
           h == [q EXCEPT !.pc = pc, !.graph = tasks]
<1>1. q \in Handler
  BY HandlerOf
<1>2. tasks \in [Items -> States]
  BY <1>1 DEF CarryOver, Handler, States
<1>3. h = Carrying(g, type, pc)
  BY DEF Carrying
<1> HIDE DEF q, tasks
<1>4. h \in Handler
  BY <1>1, <1>2 DEF Handler
<1>5. h.pc = pc /\ h.graph = tasks /\ h.regenerate = q.regenerate
        /\ h.archived = q.archived /\ h.reply = q.reply
  BY <1>1, <1>2 DEF Handler
<1> HIDE DEF h
<1> QED BY <1>3, <1>4, <1>5 DEF q, tasks

LEMMA CarryTopicsStep ==
  ASSUME TypeOK, NEW g \in Gens, CarryTopics(g)
  PROVE  \E h \in Handler : /\ Becomes(g, h)
                            /\ h.pc = "problems"
                            /\ h.graph = CarryOver(g, "topic")
                            /\ h.regenerate = gen[g].regenerate
                            /\ h.archived = gen[g].archived
                            /\ h.reply = gen[g].reply
<1> DEFINE h == Carrying(g, "topic", "problems")
<1>1. Becomes(g, h)
  BY DEF CarryTopics, Becomes, Carrying
<1>2. /\ h \in Handler
      /\ h.pc = "problems"
      /\ h.graph = CarryOver(g, "topic")
      /\ h.regenerate = gen[g].regenerate
      /\ h.archived = gen[g].archived
      /\ h.reply = gen[g].reply
  BY CarryingIs
<1> HIDE DEF h
<1> QED BY <1>1, <1>2

LEMMA CarryProblemsStep ==
  ASSUME TypeOK, NEW g \in Gens, CarryProblems(g)
  PROVE  \E h \in Handler : /\ Becomes(g, h)
                            /\ h.pc = "committing"
                            /\ h.graph = CarryOver(g, "problem")
                            /\ h.regenerate = gen[g].regenerate
                            /\ h.archived = gen[g].archived
                            /\ h.reply = gen[g].reply
<1> DEFINE h == Carrying(g, "problem", "committing")
<1>1. Becomes(g, h)
  BY DEF CarryProblems, Becomes, Carrying
<1>2. /\ h \in Handler
      /\ h.pc = "committing"
      /\ h.graph = CarryOver(g, "problem")
      /\ h.regenerate = gen[g].regenerate
      /\ h.archived = gen[g].archived
      /\ h.reply = gen[g].reply
  BY CarryingIs
<1> HIDE DEF h
<1> QED BY <1>1, <1>2

LEMMA CommitStep ==
  ASSUME TypeOK, NEW g \in Gens, Commit(g)
  PROVE  /\ Becomes(g, Answered(g, "created"))
         /\ roadmap' \in [Gens -> {"none", "active", "archived"}]
         /\ task' \in [Gens -> [Items -> States]]
         /\ task'[g] = gen[g].graph
         /\ progress' = progress /\ kept' = kept
<1>1. gen[g] \in Handler
  BY HandlerOf
<1>2. gen[g].graph \in [Items -> States]
  BY <1>1 DEF Handler
<1>3. Becomes(g, Answered(g, "created"))
  BY AnsweredIs DEF Commit
<1> QED BY <1>2, <1>3 DEF Commit, TypeOK

(***************************************************************************)
(* The invariant.                                                          *)
(***************************************************************************)
\* A handler step that commits nothing preserves the invariant if the locks
\* it holds afterwards are its own.
LEMMA QuietStep ==
  ASSUME IInv, NEW g \in Gens, NEW h \in Handler, Becomes(g, h),
         UNCHANGED rows,
         h.pc # "done" => gen[g].pc # "done",
         h.archived \subseteq Active,
         \A k \in Gens \ {g} : h.archived \cap gen[k].archived = {},
         h.pc \in {"topics", "problems", "committing"} =>
           /\ Active \subseteq h.archived
           /\ \A k \in Gens \ {g} : ~HasInserted(k),
         kept' \in [Gens -> SUBSET Items],
         \A k \in Gens \ {g} : kept'[k] = kept[k],
         h.pc \notin {"new", "done"} => kept'[g] \subseteq progress,
         h.regenerate /\ h.pc \in {"problems", "committing"} =>
           \A i \in kept'[g] : ItemType[i] = "topic" => h.graph[i] # "pending",
         h.regenerate /\ h.pc = "committing" =>
           \A i \in kept'[g] : ItemType[i] = "problem" => h.graph[i] # "pending"
  PROVE  IInv'
<1>1. /\ gen' \in [Gens -> Handler]
      /\ gen'[g] = h
      /\ \A k \in Gens \ {g} : gen'[k] = gen[k]
  BY BecomesIs DEF IInv
<1>2. Active' = Active /\ progress' = progress
  BY DEF rows, Active
<1>3. TypeOK'
  BY <1>1 DEF IInv, TypeOK, rows
<1>4. OneActive'
  BY <1>2 DEF IInv, OneActive
<1>5. RowLocks'
  <2>1. ASSUME NEW a \in Gens PROVE gen'[a].archived \subseteq Active
    BY <1>1 DEF IInv, RowLocks
  <2>2. ASSUME NEW a \in Gens, NEW b \in Gens \ {a}
        PROVE  gen'[a].archived \cap gen'[b].archived = {}
    BY <1>1 DEF IInv, RowLocks
  <2> QED BY <1>2, <2>1, <2>2 DEF RowLocks
<1>6. KeyLock'
  <2>1. ASSUME NEW a \in Gens, HasInserted(a)'
        PROVE  /\ Active \subseteq gen'[a].archived
               /\ \A b \in Gens \ {a} : ~HasInserted(b)'
    BY <1>1, <2>1 DEF IInv, KeyLock, HasInserted
  <2> QED BY <1>2, <2>1 DEF KeyLock
<1>7. OwnRoadmap'
  BY <1>1 DEF IInv, OwnRoadmap, rows
<1>8. CarriedSoFar'
  <2> SUFFICES ASSUME NEW a \in Gens
               PROVE  /\ InHand(a)' => kept'[a] \subseteq progress'
                      /\ gen'[a].regenerate /\ gen'[a].pc \in {"problems", "committing"}
                           => Carried(a, "topic")'
                      /\ gen'[a].regenerate /\ gen'[a].pc = "committing"
                           => Carried(a, "problem")'
    BY DEF CarriedSoFar
  <2>1. CASE a = g
    BY <1>1, <1>2, <2>1 DEF InHand, Carried
  <2>2. CASE a # g
    BY <1>1, <1>2, <2>2 DEF IInv, CarriedSoFar, InHand, Carried
  <2> QED BY <2>1, <2>2
<1> QED BY <1>3, <1>4, <1>5, <1>6, <1>7, <1>8 DEF IInv

\* What the invariant says of one handler.
LEMMA Held ==
  ASSUME IInv, NEW g \in Gens
  PROVE  /\ gen[g].archived \subseteq Active
         /\ \A k \in Gens \ {g} : gen[g].archived \cap gen[k].archived = {}
         /\ HasInserted(g) => /\ Active \subseteq gen[g].archived
                              /\ \A k \in Gens \ {g} : ~HasInserted(k)
         /\ InHand(g) => kept[g] \subseteq progress
         /\ kept \in [Gens -> SUBSET Items] /\ progress \subseteq Items
  BY DEF IInv, RowLocks, KeyLock, CarriedSoFar, TypeOK

\* An answer that is not a commit gives everything up.
LEMMA RefusalPreserves ==
  ASSUME IInv, NEW g \in Gens, NEW a \in {"created", "exists", "conflict", "error"},
         Reply(g, a), UNCHANGED <<rows, kept>>
  PROVE  IInv'
<1>1. /\ Becomes(g, Answered(g, a))
      /\ Answered(g, a) \in Handler
      /\ Answered(g, a).pc = "done"
      /\ Answered(g, a).archived = {}
  BY AnsweredIs DEF IInv
<1> DEFINE h == Answered(g, a)
<1> HIDE DEF h
<1>2. Becomes(g, h) /\ h \in Handler /\ h.pc = "done" /\ h.archived = {}
  BY <1>1 DEF h
<1> QED BY <1>2, QuietStep, Held

LEMMA AskPreserves ==
  ASSUME IInv, NEW g \in Gens, Ask(g)
  PROVE  IInv'
<1>1. PICK h \in Handler : /\ Becomes(g, h)
                           /\ h.pc = "asked"
                           /\ h.archived = gen[g].archived
  BY AskStep DEF IInv
<1>2. PICK regenerate \in BOOLEAN :
        kept' = [kept EXCEPT ![g] = IF regenerate THEN progress ELSE {}]
  BY DEF Ask
<1>3. /\ kept' \in [Gens -> SUBSET Items]
      /\ \A k \in Gens \ {g} : kept'[k] = kept[k]
      /\ kept'[g] \subseteq progress
  BY <1>2, Held
<1> QED BY <1>1, <1>3, QuietStep, Held DEF Ask

LEMMA BeforeInsertPreserves ==
  ASSUME IInv, NEW g \in Gens, NoneExists(g) \/ FindActive(g)
  PROVE  IInv'
<1>1. PICK h \in Handler : /\ Becomes(g, h)
                           /\ h.pc \in {"archiving", "inserting"}
                           /\ h.archived = gen[g].archived
  BY NoneExistsStep, FindActiveStep DEF IInv
<1> QED BY <1>1, QuietStep, Held DEF NoneExists, FindActive, InHand

LEMMA ArchivePreserves ==
  ASSUME IInv, NEW g \in Gens, Archive(g)
  PROVE  IInv'
<1>1. PICK h \in Handler : /\ Becomes(g, h)
                           /\ h.pc = "inserting"
                           /\ h.archived = gen[g].seen \cap Active
  BY ArchiveStep DEF IInv
<1>2. \A k \in Gens \ {g} : h.archived \cap gen[k].archived = {}
  BY <1>1 DEF Archive
<1> QED BY <1>1, <1>2, QuietStep, Held DEF Archive, InHand

LEMMA InsertPreserves ==
  ASSUME IInv, NEW g \in Gens, Insert(g)
  PROVE  IInv'
<1>1. PICK h \in Handler : /\ Becomes(g, h)
                           /\ h.pc = IF gen[g].regenerate THEN "topics"
                                     ELSE "committing"
                           /\ h.regenerate = gen[g].regenerate
                           /\ h.archived = gen[g].archived
  BY InsertStep DEF IInv
<1>2. Active \subseteq h.archived /\ \A k \in Gens \ {g} : ~HasInserted(k)
  BY <1>1 DEF Insert, HoldsKey
<1>3. ~(h.regenerate /\ h.pc \in {"problems", "committing"})
  BY <1>1
<1> QED BY <1>1, <1>2, <1>3, QuietStep, Held DEF Insert, InHand

LEMMA CarryPreserves ==
  ASSUME IInv, NEW g \in Gens, CarryTopics(g) \/ CarryProblems(g)
  PROVE  IInv'
<1>1. HasInserted(g) /\ InHand(g) /\ UNCHANGED <<rows, kept>>
  BY DEF CarryTopics, CarryProblems, HasInserted, InHand
<1>2. ASSUME NEW type
      PROVE  \A i \in kept[g] : /\ ItemType[i] = type
                                  => CarryOver(g, type)[i] # "pending"
                                /\ gen[g].graph[i] # "pending"
                                  => CarryOver(g, type)[i] # "pending"
  BY <1>1, Held DEF CarryOver
<1>3. CASE CarryTopics(g)
  <2>1. PICK h \in Handler : /\ Becomes(g, h)
                             /\ h.pc = "problems"
                             /\ h.graph = CarryOver(g, "topic")
                             /\ h.archived = gen[g].archived
    BY <1>3, CarryTopicsStep DEF IInv
  <2> QED BY <1>1, <1>2, <1>3, <2>1, QuietStep, Held DEF CarryTopics
<1>4. CASE CarryProblems(g)
  <2>1. PICK h \in Handler : /\ Becomes(g, h)
                             /\ h.pc = "committing"
                             /\ h.graph = CarryOver(g, "problem")
                             /\ h.regenerate = gen[g].regenerate
                             /\ h.archived = gen[g].archived
    BY <1>4, CarryProblemsStep DEF IInv
  <2>2. gen[g].regenerate => Carried(g, "topic")
    BY <1>4 DEF IInv, CarriedSoFar, CarryProblems
  <2>3. h.regenerate =>
          \A i \in kept[g] : /\ ItemType[i] = "topic" => h.graph[i] # "pending"
                             /\ ItemType[i] = "problem" => h.graph[i] # "pending"
    BY <1>2, <2>1, <2>2 DEF Carried
  <2> QED BY <1>1, <1>4, <2>1, <2>3, QuietStep, Held DEF CarryProblems
<1> QED BY <1>3, <1>4

\* A commit turns what is active into what it archived.
LEMMA CommitRows ==
  ASSUME IInv, NEW g \in Gens, Commit(g)
  PROVE  /\ Active' = {g}
         /\ Active = gen[g].archived
         /\ roadmap[g] = "none"
         /\ \A k \in Gens \ {g} :
              roadmap'[k] = IF k \in Active THEN "archived" ELSE roadmap[k]
<1>1. Active = gen[g].archived
  BY DEF IInv, RowLocks, KeyLock, HasInserted, Commit
<1>2. roadmap[g] = "none"
  BY DEF IInv, OwnRoadmap, Commit
<1>3. roadmap' = [k \in Gens |-> IF k = g THEN "active"
                                 ELSE IF k \in Active THEN "archived"
                                 ELSE roadmap[k]]
  BY <1>1 DEF Commit
<1>4. Active' = {g}
  BY <1>3 DEF Active
<1> QED BY <1>1, <1>2, <1>3, <1>4

LEMMA CommitPreserves ==
  ASSUME IInv, NEW g \in Gens, Commit(g)
  PROVE  IInv'
<1> DEFINE h == Answered(g, "created")
<1>1. Becomes(g, h) /\ h \in Handler /\ h.pc = "done" /\ h.archived = {}
  BY CommitStep, AnsweredIs DEF IInv, Commit
<1> HIDE DEF h
<1>2. /\ gen' \in [Gens -> Handler]
      /\ gen'[g] = h
      /\ \A k \in Gens \ {g} : gen'[k] = gen[k]
  BY <1>1, BecomesIs DEF IInv
<1>3. TypeOK'
  BY <1>2, CommitStep DEF IInv, TypeOK
<1>4. OneActive'
  BY CommitRows DEF OneActive
<1>5. HasInserted(g)
  BY DEF Commit, HasInserted
<1>6. \A k \in Gens : gen'[k].archived = {}
  <2>1. ASSUME NEW k \in Gens \ {g} PROVE gen[k].archived = {}
    BY CommitRows DEF IInv, RowLocks
  <2> QED BY <1>1, <1>2, <2>1
<1>7. \A k \in Gens : ~HasInserted(k)'
  BY <1>1, <1>2, <1>5, Held DEF HasInserted
<1>8. RowLocks' /\ KeyLock'
  BY <1>6, <1>7 DEF RowLocks, KeyLock
<1>9. OwnRoadmap'
  <2> SUFFICES ASSUME NEW k \in Gens, gen'[k].pc # "done"
               PROVE  roadmap'[k] = "none"
    BY DEF OwnRoadmap
  <2>1. k # g
    BY <1>1, <1>2
  <2>2. roadmap[k] = "none"
    BY <1>2, <2>1 DEF IInv, OwnRoadmap
  <2> QED BY <2>1, <2>2, CommitRows DEF Active
<1>10. CarriedSoFar'
  <2>1. progress' = progress /\ kept' = kept
    BY DEF Commit
  <2> QED BY <1>1, <1>2, <2>1 DEF IInv, CarriedSoFar, Carried, InHand
<1> QED BY <1>3, <1>4, <1>8, <1>9, <1>10 DEF IInv

\* Tasks and progress rows may change at any time; what was kept is kept.
LEMMA WorldPreserves ==
  ASSUME IInv, World
  PROVE  IInv'
<1>1. roadmap' = roadmap /\ gen' = gen
  BY DEF World, Complete, Reopen, Record
<1>2. /\ progress' \subseteq Items
      /\ kept' \in [Gens -> SUBSET Items]
      /\ \A g \in Gens : /\ kept'[g] \subseteq kept[g]
                         /\ kept[g] \subseteq progress => kept'[g] \subseteq progress'
  <2>1. ASSUME NEW done \in SUBSET Items, SetProgress(done)
        PROVE  /\ progress' \subseteq Items
               /\ kept' \in [Gens -> SUBSET Items]
               /\ \A g \in Gens : /\ kept'[g] \subseteq kept[g]
                                  /\ kept[g] \subseteq progress
                                       => kept'[g] \subseteq progress'
    BY <2>1 DEF SetProgress, IInv, TypeOK
  <2>2. ASSUME NEW i \in Items
        PROVE  progress \cup {i} \in SUBSET Items /\ progress \ {i} \in SUBSET Items
               /\ progress \in SUBSET Items
    BY DEF IInv, TypeOK
  <2>3. CASE \E g \in Gens, i \in Items : Complete(g, i)
    BY <2>1, <2>2, <2>3 DEF Complete
  <2>4. CASE \E g \in Gens, i \in Items : Reopen(g, i)
    BY <2>4 DEF Reopen, IInv, TypeOK
  <2>5. CASE \E i \in Items : Record(i)
    BY <2>1, <2>2, <2>5 DEF Record
  <2> QED BY <2>3, <2>4, <2>5 DEF World
<1>3. task' \in [Gens -> [Items -> States]]
  <2>1. ASSUME NEW g \in Gens, NEW i \in Items, NEW s \in States,
               task' = [task EXCEPT ![g] = [@ EXCEPT ![i] = s]]
        PROVE  task' \in [Gens -> [Items -> States]]
    BY <2>1 DEF IInv, TypeOK
  <2> QED BY <2>1 DEF World, Complete, Reopen, Record, States, IInv, TypeOK
<1>4. TypeOK'
  BY <1>1, <1>2, <1>3 DEF IInv, TypeOK
<1>5. OneActive' /\ RowLocks' /\ KeyLock' /\ OwnRoadmap'
  BY <1>1 DEF IInv, OneActive, RowLocks, KeyLock, OwnRoadmap, Active, HasInserted
<1>6. CarriedSoFar'
  BY <1>1, <1>2 DEF IInv, CarriedSoFar, Carried, InHand
<1> QED BY <1>4, <1>5, <1>6 DEF IInv

LEMMA Invariance == Spec => []IInv
<1>1. Init => IInv
  <2> SUFFICES ASSUME Init PROVE IInv
    OBVIOUS
  <2>1. TypeOK
    BY DEF Init, TypeOK, Handler, NoTasks, States
  <2>2. Active = {}
    BY DEF Init, Active
  <2>3. \A g \in Gens : gen[g].pc = "new" /\ gen[g].archived = {} /\ roadmap[g] = "none"
    BY DEF Init
  <2> QED BY <2>1, <2>2, <2>3 DEF IInv, OneActive, RowLocks, KeyLock,
               OwnRoadmap, CarriedSoFar, HasInserted, InHand
<1>2. IInv /\ [Next]_vars => IInv'
  <2> SUFFICES ASSUME IInv, [Next]_vars PROVE IInv'
    OBVIOUS
  <2>1. CASE UNCHANGED vars
    BY <2>1 DEF vars, rows, IInv, TypeOK, OneActive, RowLocks, KeyLock,
                OwnRoadmap, CarriedSoFar, Carried, Active, HasInserted, InHand
  <2>2. CASE World
    BY <2>2, WorldPreserves
  <2>3. ASSUME NEW g \in Gens, By(g) PROVE IInv'
    <3>1. CASE Exists(g) \/ Conflict(g) \/ Fail(g)
      BY <3>1, RefusalPreserves DEF Exists, Conflict, Fail
    <3> QED BY <2>3, <3>1, AskPreserves, BeforeInsertPreserves,
               ArchivePreserves, InsertPreserves, CarryPreserves,
               CommitPreserves DEF By, Step
  <2> QED BY <2>1, <2>2, <2>3 DEF Next, World, By
<1> QED BY <1>1, <1>2, PTL DEF Spec

(***************************************************************************)
(* The theorems.                                                           *)
(***************************************************************************)
\* Rows, handlers and the history variable are well-typed in every reachable
\* state, whatever requests race (GenerateRoadmap, CreateGraph).
THEOREM TypeCorrect == Spec => []TypeOK
  BY Invariance, PTL DEF IInv

\* What a step does to the rows: nothing, or a commit.
LEMMA RowsOrCommit ==
  ASSUME [Next]_vars
  PROVE  roadmap' = roadmap \/ \E g \in Gens : Commit(g)
  BY DEF Next, Step, Ask, Exists, NoneExists, FindActive, Archive, Insert,
         Conflict, CarryTopics, CarryProblems, Fail, Complete, Reopen, Record,
         vars, rows

\* A user's plan starts once and is then replaced in single steps: generate
\* requests that race, fail or wait for each other never leave two active
\* roadmaps, never lose the active one, and never revive an archived one
\* (CreateGraph and uq_roadmap_user_active).
THEOREM PlanImplemented == Spec => ImplementsPlan
<1> DEFINE Past == {g \in Gens : roadmap[g] = "archived"}
<1>1. Init => Plan!Init
  BY DEF Init, Plan!Init, Active
<1>2. IInv /\ [Next]_vars => [Plan!Next]_<<Active, Past>>
  <2> SUFFICES ASSUME IInv, [Next]_vars
               PROVE  [Plan!Next]_<<Active, Past>>
    OBVIOUS
  <2>1. CASE roadmap' = roadmap
    BY <2>1 DEF Active
  <2>2. ASSUME NEW g \in Gens, Commit(g)
        PROVE  [Plan!Next]_<<Active, Past>>
    <3>1. /\ Active' = {g}
          /\ roadmap[g] = "none"
          /\ \A k \in Gens \ {g} :
               roadmap'[k] = IF k \in Active THEN "archived" ELSE roadmap[k]
      BY <2>2, CommitRows
    <3>2. roadmap'[g] = "active"
      BY <3>1 DEF Active
    <3>3. Past' = Past \cup Active
      BY <3>1, <3>2 DEF Active
    <3>4. g \in Gens \ Past
      BY <3>1
    <3>5. CASE Active = {}
      BY <3>1, <3>3, <3>4, <3>5 DEF Plan!Next, Plan!Start
    <3>6. CASE Active # {}
      <4>1. PICK old \in Active : TRUE
        BY <3>6
      <4>2. Active = {old} /\ old \in Gens /\ old # g
        BY <3>1, <4>1 DEF IInv, OneActive, Active
      <4> QED BY <3>1, <3>3, <3>4, <4>2 DEF Plan!Next, Plan!Replace
    <3> QED BY <3>5, <3>6
  <2> QED BY <2>1, <2>2, RowsOrCommit
<1> QED BY <1>1, <1>2, Invariance, PTL DEF Spec, ImplementsPlan, Plan!Spec

\* A request that is refused, by the check or by the unique index, leaves a
\* user with a roadmap, for good.
THEOREM RefusedHasPlanHolds == Spec => []RefusedHasPlan
<1>1. Init => RefusedHasPlan
  BY DEF Init, RefusedHasPlan
<1>2. IInv /\ RefusedHasPlan /\ [Next]_vars => RefusedHasPlan'
  <2> SUFFICES ASSUME IInv, RefusedHasPlan, [Next]_vars,
                      NEW g \in Gens, gen'[g].reply \in {"exists", "conflict"}
               PROVE  Active' # {}
    BY DEF RefusedHasPlan
  <2>1. Active # {} => Active' # {}
    BY RowsOrCommit, CommitRows DEF Active
  <2>2. CASE gen'[g].reply = gen[g].reply
    BY <2>1, <2>2 DEF RefusedHasPlan
  <2>3. ASSUME NEW k \in Gens, By(k)
        PROVE  gen'[g].reply = gen[g].reply \/ Active' # {}
    <3>1. ASSUME NEW h \in Handler, Becomes(k, h)
          PROVE  /\ g # k => gen'[g] = gen[g]
                 /\ g = k => gen'[g] = h
      BY <3>1, BecomesIs DEF IInv
    <3>2. CASE Exists(k) \/ Conflict(k)
      BY <2>1, <3>2 DEF Exists, Conflict
    <3>3. CASE Fail(k)
      BY <3>1, <3>3, AnsweredIs DEF Fail, IInv
    <3>4. CASE Commit(k)
      BY <3>4, CommitRows
    <3>5. CASE CarryTopics(k)
      <4>1. PICK h \in Handler : Becomes(k, h) /\ h.reply = gen[k].reply
        BY <3>5, CarryTopicsStep DEF IInv
      <4> QED BY <3>1, <4>1
    <3>6. CASE CarryProblems(k)
      <4>1. PICK h \in Handler : Becomes(k, h) /\ h.reply = gen[k].reply
        BY <3>6, CarryProblemsStep DEF IInv
      <4> QED BY <3>1, <4>1
    <3>7. CASE Ask(k) \/ NoneExists(k) \/ FindActive(k) \/ Archive(k) \/ Insert(k)
      BY <3>1, <3>7, AskStep, NoneExistsStep, FindActiveStep, ArchiveStep,
         InsertStep DEF IInv
    <3> QED BY <2>3, <3>2, <3>3, <3>4, <3>5, <3>6, <3>7 DEF By, Step
  <2>4. CASE gen' = gen
    BY <2>2, <2>4
  <2> QED BY <2>2, <2>3, <2>4
          DEF Next, By, Complete, Reopen, Record, vars
<1> QED BY <1>1, <1>2, Invariance, PTL DEF Spec

\* Named for the temporal step.
CarriesOver ==
  \A g \in Gens : \A i \in kept[g] :
    /\ Commit(g) /\ gen[g].regenerate
    /\ ItemType[i] \in {"topic", "problem"}
    => task'[g][i] # "pending"

\* A regenerated roadmap never asks again for a topic or a problem that was
\* completed when the request came in and stayed so
\* (carryOverCompletedProgress).
THEOREM CarriedOverHolds == Spec => CarriedOver
<1>1. IInv /\ [Next]_vars => CarriesOver
  <2> SUFFICES ASSUME IInv, NEW g \in Gens, NEW i \in kept[g],
                      Commit(g), gen[g].regenerate,
                      ItemType[i] \in {"topic", "problem"}
               PROVE  task'[g][i] # "pending"
    BY DEF CarriesOver
  <2>1. Carried(g, "topic") /\ Carried(g, "problem")
    BY DEF IInv, CarriedSoFar, Commit
  <2>2. task'[g] = gen[g].graph
    BY CommitStep DEF IInv
  <2> QED BY <2>1, <2>2 DEF Carried
<1>2. CarriedOver <=> [][CarriesOver]_vars
  BY DEF CarriedOver, CarriesOver
<1> QED BY <1>1, <1>2, Invariance, PTL DEF Spec
=============================================================================
