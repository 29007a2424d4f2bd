----------------------------- MODULE AuthSessions -----------------------------
(***************************************************************************)
(* Accounts and sessions (backend/internal/auth), for one e-mail address   *)
(* and one identity at an OAuth provider.                                  *)
(*                                                                         *)
(* A session is a family of refresh tokens: a sign-in starts it, and each  *)
(* refresh inserts the successor of the token presented and then retires   *)
(* that token.  A token that comes back after it was retired ends its      *)
(* family.  No request runs in a transaction, so every statement is a step *)
(* of its own; the browser learns of a new token only from the answer.     *)
(*                                                                         *)
(* An access token is a signed claim that no statement looks up: here a    *)
(* request that needs one may name any user.  Time is abstract: a read of  *)
(* a token may find it expired.  No code sets the status suspended.        *)
(***************************************************************************)
EXTENDS Naturals, FiniteSets

CONSTANTS
  Browsers,    \* each with its refresh_token cookie
  Handlers,    \* requests the server has in hand at once
  MaxUsers, MaxTokens, MaxResets,    \* bound the rows of each table
  None

Users == 1..MaxUsers
Tokens == 1..MaxTokens
Resets == 1..MaxResets

User == [live : BOOLEAN, password : BOOLEAN]
Token == [user : Users, family : Tokens, live : BOOLEAN]     \* replaced_by is never read
\* set: whether it has set a password (not a column)
Reset == [user : Users, used : BOOLEAN, set : BOOLEAN]

ASSUME AuthAssumption ==
  /\ MaxUsers \in Nat /\ MaxTokens \in Nat /\ MaxResets \in Nat
  /\ None \notin Nat \cup User \cup Token \cup Reset

VARIABLES
  user,      \* Users -> the row with that id: [live, password], or None
  identity,  \* user_id of the oauth_accounts row, or None without one
  token,     \* Tokens -> the refresh_tokens row, or None
  reset,     \* Resets -> the password_reset_tokens row, or None
  cookie,    \* Browsers -> the refresh token each holds, or None
  handler,   \* Handlers -> the request in hand and its next statement
  fate       \* Tokens -> what has befallen the family that token began:
             \*   "sound"   each rotation ended before the next began
             \*   "broken"  two overlapped, an answer was lost, or it was
             \*             revoked under a rotation
             \*   "ended"   revoked while no rotation was in hand

vars == <<user, identity, token, reset, cookie, handler, fate>>

Handler ==
  [pc : {"idle", "insert_user", "find_user", "link", "issue", "check_user", "rotate",
         "retire", "revoke_family", "set_password", "mark_used", "delete_user",
         "revoke_all", "answer"},
   browser : Browsers \cup {None},
   oauth : BOOLEAN,                 \* a sign-in by identity
   user : Users \cup {None},
   token : Tokens \cup {None},      \* the refresh token presented
   reset : Resets \cup {None},
   new : Tokens \cup {None}]        \* the refresh token to answer with

TypeOK ==
  /\ user \in [Users -> User \cup {None}]
  /\ identity \in Users \cup {None}
  /\ token \in [Tokens -> Token \cup {None}]
  /\ reset \in [Resets -> Reset \cup {None}]
  /\ cookie \in [Browsers -> Tokens \cup {None}]
  /\ handler \in [Handlers -> Handler]
  /\ fate \in [Tokens -> {"sound", "broken", "ended"}]

Idle == [pc |-> "idle", browser |-> None, oauth |-> FALSE, user |-> None,
         token |-> None, reset |-> None, new |-> None]

Init ==
  /\ user = [u \in Users |-> None]
  /\ identity = None
  /\ token = [t \in Tokens |-> None]
  /\ reset = [r \in Resets |-> None]
  /\ cookie = [b \in Browsers |-> None]
  /\ handler = [h \in Handlers |-> Idle]
  /\ fate = [t \in Tokens |-> "sound"]

-----------------------------------------------------------------------------
(***************************************************************************)
(* Queries and statements (repository.go, data.go).  A definition named    *)
(* Bug_... is a plausible slip in the one after it; no specification uses  *)
(* it.                                                                     *)
(***************************************************************************)
Rows(table) == {i \in DOMAIN table : table[i] # None}
Unused(table) == CHOOSE i \in DOMAIN table : table[i] = None     \* a new id
Room(table) == Rows(table) # DOMAIN table

\* GetUserByEmail: the account that is not soft-deleted, if any.
UserByEmail == {u \in Rows(user) : user[u].live}
\* GetUserByID
UserByID(u) == user[u] # None /\ user[u].live

Family(t) == token[t].family
Live(t) == token[t] # None /\ token[t].live
\* RevokeRefreshToken, RevokeRefreshTokenFamily and RevokeAllUserRefreshTokens
\* set revoked_at on the rows they find that have none.
Bug_OfFamily(f) == {t \in Rows(token) : t = f}
OfFamily(f) == {t \in Rows(token) : token[t].family = f}
OfUser(u) == {t \in Rows(token) : token[t].user = u}
Revoked(ts) ==
  [t \in Tokens |-> IF t \in ts THEN [token[t] EXCEPT !.live = FALSE] ELSE token[t]]
\* Requests that have read a token of family f and have yet to answer.
Rotating(f) ==
  {h \in Handlers : /\ handler[h].pc \in {"check_user", "rotate", "retire", "answer"}
                    /\ handler[h].token # None /\ Family(handler[h].token) = f}
Ended(fs) ==
  [f \in Tokens |-> IF f \notin fs \/ fate[f] = "ended" THEN fate[f]
                    ELSE IF Rotating(f) = {} THEN "ended" ELSE "broken"]

-----------------------------------------------------------------------------
(***************************************************************************)
(* Requests arrive and make their first query (handler.go, service.go).    *)
(***************************************************************************)
Begin(h, request) ==
  /\ handler[h].pc = "idle"
  /\ handler' = [handler EXCEPT ![h] = request]
  /\ UNCHANGED <<user, identity, token, reset, cookie>>

\* Register of an address no account has.
Register(h, b) ==
  /\ UserByEmail = {}
  /\ Begin(h, [Idle EXCEPT !.pc = "insert_user", !.browser = b])
  /\ UNCHANGED fate

\* Login with the right password; a wrong one changes nothing here.
Login(h, b) ==
  /\ \E u \in UserByEmail :
       /\ user[u].password
       /\ Begin(h, [Idle EXCEPT !.pc = "issue", !.browser = b, !.user = u])
  /\ UNCHANGED fate

\* OAuthCallback, once the provider has named the identity: the account it is
\* linked to or, without a link, the account of its address.
OAuthCallback(h, b) ==
  /\ LET request == [Idle EXCEPT !.browser = b, !.oauth = TRUE] IN
     IF identity = None THEN Begin(h, [request EXCEPT !.pc = "find_user"])
     ELSE /\ UserByID(identity)
          /\ Begin(h, [request EXCEPT !.pc = "issue", !.user = identity])
  /\ UNCHANGED fate

\* Refresh with the browser's cookie.  A token that is revoked already is reuse.
\* (One that is found expired is refused and nothing changes.)
Bug_Presented(t) == "check_user"
Presented(t) == IF Live(t) THEN "check_user" ELSE "revoke_family"

Refresh(h, b) ==
  LET t == cookie[b] IN
  /\ t # None
  /\ Begin(h, [Idle EXCEPT !.pc = Presented(t), !.browser = b, !.token = t,
                           !.user = token[t].user])
  /\ fate' = IF Live(t) /\ Rotating(Family(t)) # {} /\ fate[Family(t)] = "sound"
             THEN [fate EXCEPT ![Family(t)] = "broken"] ELSE fate

Logout(h, b) ==
  /\ cookie[b] # None
  /\ Begin(h, [Idle EXCEPT !.pc = "revoke_family", !.browser = b,
                           !.token = cookie[b], !.new = None])
  /\ UNCHANGED fate

\* ResetPassword with a link that is neither used nor expired: the password,
\* then the link, then the sessions.
Bug_ResetOrder == <<"mark_used", "set_password", "revoke_all">>
ResetOrder == <<"set_password", "mark_used", "revoke_all">>
Following(step) == ResetOrder[1 + CHOOSE i \in 1..2 : ResetOrder[i] = step]

ResetPassword(h, r) ==
  /\ reset[r] # None /\ ~reset[r].used
  /\ Begin(h, [Idle EXCEPT !.pc = ResetOrder[1], !.reset = r, !.user = reset[r].user])
  /\ UNCHANGED fate

\* DeleteAccount by whoever holds an access token of the user.  The rows the
\* user owns in other tables are soft-deleted first, in one transaction.
DeleteAccount(h, u) ==
  /\ UserByID(u)
  /\ Begin(h, [Idle EXCEPT !.pc = "delete_user", !.user = u])
  /\ UNCHANGED fate

\* ForgotPassword: the row is there before the mail is sent, if ever.
ForgotPassword ==
  /\ Room(reset)
  /\ \E u \in UserByEmail :
       reset' = [reset EXCEPT ![Unused(reset)] = [user |-> u, used |-> FALSE, set |-> FALSE]]
  /\ UNCHANGED <<user, identity, token, cookie, handler, fate>>

-----------------------------------------------------------------------------
(***************************************************************************)
(* The statements that follow, in the order of each request.               *)
(***************************************************************************)
To(h, pc) == handler' = [handler EXCEPT ![h].pc = pc]
End(h) == handler' = [handler EXCEPT ![h] = Idle]

\* OAuthCallback: the account of the identity's address, if there is one.
FindUser(h) ==
  /\ handler[h].pc = "find_user"
  /\ IF UserByEmail = {} THEN To(h, "insert_user")
     ELSE \E u \in UserByEmail :
            handler' = [handler EXCEPT ![h].pc = "link", ![h].user = u]
  /\ UNCHANGED <<user, identity, token, reset, cookie, fate>>

\* CreateUser.  The unique index refuses a second account at the address, and
\* both kinds of sign-in answer with an error then.
InsertUser(h) ==
  /\ handler[h].pc = "insert_user"
  /\ IF UserByEmail # {} THEN End(h) /\ UNCHANGED user
     ELSE /\ Room(user)
          /\ LET u == Unused(user) IN
             /\ user' = [user EXCEPT ![u] = [live |-> TRUE, password |-> ~handler[h].oauth]]
             /\ handler' = [handler EXCEPT
                  ![h].pc = IF handler[h].oauth THEN "link" ELSE "issue", ![h].user = u]
  /\ UNCHANGED <<identity, token, reset, cookie, fate>>

\* UpsertOAuthAccount: a conflict keeps the user_id of the row that is there.
Link(h) ==
  /\ handler[h].pc = "link"
  /\ identity' = IF identity = None THEN handler[h].user ELSE identity
  /\ To(h, "issue")
  /\ UNCHANGED <<user, token, reset, cookie, fate>>

\* issueRefreshAndAccess: a live token of the family; 0 stands for a new family.
Issued(u, f) ==
  LET t == Unused(token) IN
  [token EXCEPT ![t] = [user |-> u, family |-> IF f = 0 THEN t ELSE f, live |-> TRUE]]

Issue(h) ==
  /\ handler[h].pc = "issue" /\ Room(token)
  /\ token' = Issued(handler[h].user, 0)
  /\ handler' = [handler EXCEPT ![h].pc = "answer", ![h].new = Unused(token)]
  /\ UNCHANGED <<user, identity, reset, cookie, fate>>

\* Refresh: the account still exists.
CheckUser(h) ==
  /\ handler[h].pc = "check_user"
  /\ IF UserByID(handler[h].user) THEN To(h, "rotate") ELSE End(h)
  /\ UNCHANGED <<user, identity, token, reset, cookie, fate>>

\* Refresh: the successor is inserted, and then the token presented retired.
Bug_Rotated(t) == [Issued(token[t].user, Family(t)) EXCEPT ![t].live = FALSE]
Rotated(t) == Issued(token[t].user, Family(t))

Rotate(h) ==
  /\ handler[h].pc = "rotate" /\ Room(token)
  /\ token' = Rotated(handler[h].token)
  /\ handler' = [handler EXCEPT ![h].pc = "retire", ![h].new = Unused(token)]
  /\ UNCHANGED <<user, identity, reset, cookie, fate>>

Retire(h) ==
  /\ handler[h].pc = "retire"
  /\ token' = Revoked({handler[h].token})
  /\ To(h, "answer")
  /\ UNCHANGED <<user, identity, reset, cookie, fate>>

\* Reuse is answered with an error and Logout without a cookie.
RevokeFamily(h) ==
  /\ handler[h].pc = "revoke_family"
  /\ LET f == Family(handler[h].token) IN
     /\ token' = Revoked(OfFamily(f))
     /\ fate' = Ended({f})
  /\ IF handler[h].user # None THEN End(h) ELSE To(h, "answer")
  /\ UNCHANGED <<user, identity, reset, cookie>>

SetPassword(h) ==
  /\ handler[h].pc = "set_password"
  /\ user' = IF UserByID(handler[h].user)
             THEN [user EXCEPT ![handler[h].user].password = TRUE] ELSE user
  /\ reset' = [reset EXCEPT ![handler[h].reset].set = TRUE]
  /\ To(h, Following("set_password"))
  /\ UNCHANGED <<identity, token, cookie, fate>>

MarkUsed(h) ==
  /\ handler[h].pc = "mark_used"
  /\ reset' = [reset EXCEPT ![handler[h].reset].used = TRUE]
  /\ To(h, Following("mark_used"))
  /\ UNCHANGED <<user, identity, token, cookie, fate>>

\* DeleteAccount: the account, then the sessions.
DeleteUser(h) ==
  /\ handler[h].pc = "delete_user"
  /\ user' = [user EXCEPT ![handler[h].user].live = FALSE]
  /\ To(h, "revoke_all")
  /\ UNCHANGED <<identity, token, reset, cookie, fate>>

RevokeAll(h) ==
  /\ handler[h].pc = "revoke_all"
  /\ token' = Revoked(OfUser(handler[h].user))
  /\ fate' = Ended({Family(t) : t \in OfUser(handler[h].user)})
  /\ End(h)
  /\ UNCHANGED <<user, identity, reset, cookie>>

-----------------------------------------------------------------------------
\* The answer reaches the browser and sets or clears its cookie.
Answer(h) ==
  /\ handler[h].pc = "answer"
  /\ cookie' = [cookie EXCEPT ![handler[h].browser] = handler[h].new]
  /\ End(h)
  /\ UNCHANGED <<user, identity, token, reset, fate>>

\* The answer is lost, and with it a token the browser never learns of.
LoseAnswer(h) ==
  /\ handler[h].pc = "answer"
  /\ fate' = IF handler[h].token # None /\ fate[Family(handler[h].token)] = "sound"
             THEN [fate EXCEPT ![Family(handler[h].token)] = "broken"] ELSE fate
  /\ End(h)
  /\ UNCHANGED <<user, identity, token, reset, cookie>>

\* A statement fails or the server stops before it: an error is answered.
Fail(h) ==
  /\ handler[h].pc \notin {"idle", "answer"}
  /\ End(h)
  /\ UNCHANGED <<user, identity, token, reset, cookie, fate>>

Next ==
  \/ \E h \in Handlers :
       \/ \E b \in Browsers : \/ Register(h, b) \/ Login(h, b) \/ OAuthCallback(h, b)
                              \/ Refresh(h, b) \/ Logout(h, b)
       \/ \E r \in Resets : ResetPassword(h, r)
       \/ \E u \in Users : DeleteAccount(h, u)
       \/ FindUser(h) \/ InsertUser(h) \/ Link(h) \/ Issue(h)
       \/ CheckUser(h) \/ Rotate(h) \/ Retire(h) \/ RevokeFamily(h)
       \/ SetPassword(h) \/ MarkUsed(h) \/ DeleteUser(h) \/ RevokeAll(h)
       \/ Answer(h) \/ LoseAnswer(h) \/ Fail(h)
  \/ ForgotPassword

Spec == Init /\ [][Next]_vars

-----------------------------------------------------------------------------
\* A session that ended stays ended: once a logout, a reuse, a reset or a
\* deletion has revoked a family that no refresh had in hand, no token of it is
\* ever live again (Refresh against RevokeRefreshTokenFamily and
\* RevokeAllUserRefreshTokens).
EndedStaysEnded ==
  \A t \in Rows(token) : fate[Family(t)] = "ended" => ~token[t].live

\* Nobody is signed out by an error: a browser holds a live token of its
\* session unless that was ended, an answer was lost or two of its refreshes
\* overlapped, whichever statements failed (the order of Refresh).
SignedInStaysIn ==
  \A b \in Browsers :
    LET t == cookie[b] IN
    t # None /\ fate[Family(t)] = "sound" /\ Rotating(Family(t)) = {} => token[t].live

\* A reset that failed can be repeated with the same link: a link is spent only
\* when it has set a password (the order of ResetPassword).
LinkNotBurned == \A r \in Rows(reset) : reset[r].used => reset[r].set
=============================================================================
