-------------------------- MODULE AuthSessionsProofs --------------------------
(***************************************************************************)
(* What TLAPS proves of AuthSessions for any number of browsers, requests  *)
(* at once, accounts, tokens and reset links.                              *)
(*                                                                         *)
(* The argument about sessions has three parts.  A family belongs to one   *)
(* browser (OneBrowser), and nobody knows the successor of a token before  *)
(* the answer to its rotation (UnknownNew).  So a retired token that its   *)
(* browser still holds has an answer on its way (CookieLive).  And a       *)
(* rotation that is under way keeps its family from being ended            *)
(* (SessionOK), so it adds no token to one that was.                       *)
(***************************************************************************)
EXTENDS AuthSessions, TLAPS

\* The handler h gets the record q, those of the others stay.
Gets(h, q) == handler' = [handler EXCEPT ![h] = q]

SessionTypes ==
  /\ token \in [Tokens -> Token \cup {None}]
  /\ cookie \in [Browsers -> Tokens \cup {None}]
  /\ handler \in [Handlers -> Handler]
  /\ fate \in [Tokens -> {"sound", "broken", "ended"}]
AccountTypes ==
  /\ user \in [Users -> User \cup {None}]
  /\ identity \in Users \cup {None}
  /\ reset \in [Resets -> Reset \cup {None}]

-----------------------------------------------------------------------------
(***************************************************************************)
(* The invariant of the sessions.                                          *)
(***************************************************************************)
ForBrowser == {"insert_user", "find_user", "link", "issue", "check_user", "rotate",
               "retire", "revoke_family", "answer"}
Rotations == {"check_user", "rotate", "retire"}

\* The first token of a family is there, and all are of one user.
FamiliesOK ==
  \A t \in Rows(token) :
    /\ Family(t) \in Rows(token)
    /\ \A s \in Rows(token) : Family(s) = Family(t) => token[s].user = token[t].user
FateFresh == \A f \in Tokens : token[f] = None => fate[f] = "sound"

\* A handler at work on a session: its tokens exist, a family under rotation
\* is not ended, and the successor of a sound family is live.
SessionOK(q) ==
  /\ q.pc \in ForBrowser => q.browser \in Browsers
  /\ q.token # None => token[q.token] # None
  /\ q.new # None => token[q.new] # None
  /\ q.pc \in Rotations \cup {"revoke_family"} => q.token # None
  /\ q.pc \in Rotations => fate[Family(q.token)] # "ended"
  /\ q.pc = "retire" => q.new # None
  /\ q.pc \notin {"retire", "answer"} => q.new = None
  /\ q.new # None /\ fate[Family(q.new)] = "sound" => token[q.new].live
HandlersOK == \A h \in Handlers : SessionOK(handler[h])
CookiesOK == \A b \in Browsers : cookie[b] # None => token[cookie[b]] # None

\* The tokens a browser holds or its requests are about.
Knows(b, t) ==
  \/ cookie[b] = t
  \/ \E h \in Handlers : handler[h].browser = b /\ t \in {handler[h].token, handler[h].new}
OneBrowser ==
  \A b, c \in Browsers, t, s \in Tokens :
    Knows(b, t) /\ Knows(c, s) /\ Family(t) = Family(s) => b = c
UnknownNew ==
  \A h \in Handlers : handler[h].new # None =>
    /\ \A b \in Browsers : cookie[b] # handler[h].new
    /\ \A k \in Handlers : handler[k].token # handler[h].new
    /\ \A k \in Handlers \ {h} : handler[k].new # handler[h].new

\* The answer that brings b the successor of t
Successor(h, b, t) ==
  /\ handler[h].pc = "answer" /\ handler[h].browser = b
  /\ handler[h].token = t /\ handler[h].new # None
CookieLive ==
  \A b \in Browsers : cookie[b] # None /\ fate[Family(cookie[b])] = "sound" =>
    token[cookie[b]].live \/ \E h \in Handlers : Successor(h, b, cookie[b])

SInv == /\ SessionTypes /\ FamiliesOK /\ FateFresh /\ HandlersOK /\ CookiesOK
        /\ OneBrowser /\ UnknownNew /\ CookieLive /\ EndedStaysEnded

(***************************************************************************)
(* The invariant of the accounts and the links.                            *)
(***************************************************************************)
AccountOK(q) ==
  /\ q.pc \in {"link", "issue", "delete_user"} => q.user \in Users
  /\ q.pc = "delete_user" => user[q.user] # None
  /\ q.pc \in {"set_password", "mark_used"} => q.reset # None /\ reset[q.reset] # None
  /\ q.pc = "mark_used" => reset[q.reset].set
AInv == AccountTypes /\ LinkNotBurned /\ \A h \in Handlers : AccountOK(handler[h])

IInv == SInv /\ AInv

-----------------------------------------------------------------------------
(***************************************************************************)
(* What each kind of step does to the sessions.                            *)
(***************************************************************************)
LEMMA NoRow ==
  /\ \A x \in User \cup Token \cup Reset : x # None
  /\ \A n \in Users \cup Tokens \cup Resets : n # None
BY AuthAssumption DEF Users, Tokens, Resets

LEMMA GetsIs ==
  ASSUME SessionTypes, NEW h \in Handlers, NEW q \in Handler, Gets(h, q)
  PROVE  /\ handler' \in [Handlers -> Handler]
         /\ handler'[h] = q
         /\ \A k \in Handlers \ {h} : handler'[k] = handler[k]
BY DEF SessionTypes, Gets

\* A request goes on, or begins with the cookie of its browser, and no token
\* is written; if an answer to a rotation is dropped, its family is no longer
\* sound.
LEMMA MoveStep ==
  ASSUME SInv, NEW h \in Handlers, NEW q \in Handler, Gets(h, q),
         UNCHANGED <<token, cookie>>,
         fate' \in [Tokens -> {"sound", "broken", "ended"}],
         \A f \in Tokens : \/ fate'[f] = fate[f]
                           \/ fate'[f] = "broken" /\ fate[f] = "sound" /\ token[f] # None,
         q.new = None,
         q.pc \in ForBrowser => q.browser \in Browsers,
         q.pc \in Rotations \cup {"revoke_family"} => q.token # None,
         q.pc \in Rotations => fate[Family(q.token)] # "ended",
         q.pc # "retire",
         \/ q.token = None
         \/ q.token = handler[h].token /\ q.browser = handler[h].browser
         \/ q.browser \in Browsers /\ q.token = cookie[q.browser],
         handler[h].pc = "answer" /\ handler[h].token # None =>
           fate'[Family(handler[h].token)] # "sound"
  PROVE  SInv'
<1>1. /\ handler' \in [Handlers -> Handler]
      /\ handler'[h] = q
      /\ \A k \in Handlers \ {h} : handler'[k] = handler[k]
  BY GetsIs DEF SInv
<1>2. SessionTypes'
  BY <1>1 DEF SInv, SessionTypes
<1>3. FamiliesOK' /\ CookiesOK'
  BY DEF SInv, FamiliesOK, CookiesOK, Rows, Family
<1>4. FateFresh'
  BY DEF SInv, FateFresh
<1>5. \A t \in Tokens : token[t] # None => Family(t) \in Tokens /\ Family(t)' = Family(t)
  BY DEF SInv, SessionTypes, Family, Token
<1>6. q.token # None => q.token \in Tokens /\ token[q.token] # None
  BY DEF SInv, SessionTypes, HandlersOK, SessionOK, CookiesOK, Handler
<1>7. HandlersOK'
  <2>1. SessionOK(q)'
    <3>1. q.pc \in Rotations => fate'[Family(q.token)] # "ended"
      BY <1>5, <1>6 DEF Rotations
    <3> QED BY <1>5, <1>6, <3>1 DEF SessionOK
  <2>2. ASSUME NEW k \in Handlers \ {h} PROVE SessionOK(handler[k])'
    <3>1. SessionOK(handler[k]) /\ handler'[k] = handler[k] /\ handler[k] \in Handler
      BY <1>1 DEF SInv, SessionTypes, HandlersOK
    <3>2. handler[k].token # None => Family(handler[k].token) \in Tokens
                                       /\ Family(handler[k].token)' = Family(handler[k].token)
      BY <1>5, <3>1 DEF SessionOK, Handler
    <3>3. handler[k].new # None => Family(handler[k].new) \in Tokens
                                     /\ Family(handler[k].new)' = Family(handler[k].new)
      BY <1>5, <3>1 DEF SessionOK, Handler
    <3> QED BY <3>1, <3>2, <3>3 DEF SessionOK, Family
  <2> QED BY <1>1, <2>1, <2>2 DEF HandlersOK
<1>8. \A b \in Browsers, t \in Tokens : Knows(b, t)' => Knows(b, t)
  BY <1>1, NoRow DEF Knows
<1>9. OneBrowser'
  BY <1>8 DEF SInv, OneBrowser, Family
<1>10. UnknownNew'
  BY <1>1 DEF SInv, UnknownNew
<1>11. CookieLive'
  <2>1. SUFFICES ASSUME NEW b \in Browsers, cookie[b] # None,
                        fate'[Family(cookie[b])] = "sound", ~token[cookie[b]].live
                 PROVE  \E k \in Handlers : Successor(k, b, cookie[b])'
    BY DEF CookieLive, Family
  <2>2. cookie[b] \in Tokens /\ token[cookie[b]] # None
    BY <2>1 DEF SInv, SessionTypes, CookiesOK
  <2>3. fate[Family(cookie[b])] = "sound"
    BY <1>5, <2>1, <2>2
  <2>4. PICK k \in Handlers : Successor(k, b, cookie[b])
    BY <2>1, <2>3 DEF SInv, CookieLive
  <2>5. k # h
    BY <2>1, <2>4 DEF Successor
  <2> QED BY <1>1, <2>4, <2>5 DEF Successor
<1>12. EndedStaysEnded'
  <2>1. SUFFICES ASSUME NEW t \in Tokens, token[t] # None, fate'[Family(t)] = "ended"
                 PROVE  ~token[t].live
    BY DEF EndedStaysEnded, Rows, Family, SInv, SessionTypes
  <2> QED BY <1>5, <2>1 DEF SInv, EndedStaysEnded, Rows, SessionTypes
<1> QED BY <1>2, <1>3, <1>4, <1>7, <1>9, <1>10, <1>11, <1>12 DEF SInv

LEMMA UnusedIs ==
  ASSUME Room(token)
  PROVE  Unused(token) \in DOMAIN token /\ token[Unused(token)] = None
<1>1. \E t \in DOMAIN token : token[t] = None
  BY DEF Room, Rows
<1> QED BY <1>1 DEF Unused

\* A live token n is inserted, the first of a new family or the successor of
\* the token of a rotation, and the request of h goes on with it.
LEMMA InsertStep ==
  ASSUME SInv, NEW h \in Handlers, NEW q \in Handler, Gets(h, q),
         UNCHANGED <<cookie, fate>>,
         NEW n \in Tokens, token[n] = None, NEW row \in Token, row.live,
         token' = [token EXCEPT ![n] = row],
         q.new = n, q.pc \in {"retire", "answer"},
         q.token = handler[h].token, q.browser = handler[h].browser,
         q.browser \in Browsers,
         handler[h].pc # "answer",
         q.pc = "retire" => q.token # None,
         \/ row.family = n /\ q.pc # "retire"
         \/ /\ handler[h].pc = "rotate"
            /\ row.family = Family(handler[h].token)
            /\ row.user = token[handler[h].token].user
  PROVE  SInv'
<1>1. /\ handler' \in [Handlers -> Handler]
      /\ handler'[h] = q
      /\ \A k \in Handlers \ {h} : handler'[k] = handler[k]
  BY GetsIs DEF SInv
<1>2. SessionTypes'
  BY <1>1 DEF SInv, SessionTypes
<1>3. token'[n] = row /\ row # None /\ \A t \in Tokens \ {n} : token'[t] = token[t]
  BY NoRow DEF SInv, SessionTypes
<1>4. \A t \in Tokens : token[t] # None =>
        /\ t # n /\ token[t] \in Token /\ token'[t] = token[t]
        /\ Family(t) \in Tokens /\ Family(t)' = Family(t)
        /\ token[Family(t)] # None
  BY <1>3 DEF SInv, SessionTypes, FamiliesOK, Rows, Family, Token
<1>5. handler[h].pc = "rotate" =>
        /\ handler[h].token \in Tokens /\ token[handler[h].token] # None
        /\ fate[Family(handler[h].token)] # "ended"
  BY DEF SInv, SessionTypes, HandlersOK, SessionOK, Rotations, Handler
<1>6. Family(n)' = row.family
  BY <1>3 DEF Family
<1>7. FamiliesOK'
  <2>1. SUFFICES ASSUME NEW t \in Tokens, token'[t] # None
                 PROVE  /\ Family(t)' \in Tokens /\ token'[Family(t)'] # None
                        /\ \A s \in Tokens : token'[s] # None /\ Family(s)' = Family(t)' =>
                             token'[s].user = token'[t].user
    BY <1>2 DEF SessionTypes, FamiliesOK, Rows
  <2>2. \A s \in Tokens \ {n} : token'[s] # None => token[s] # None
    BY <1>3
  <2>3. \A s, u \in Tokens : token[s] # None /\ token[u] # None /\ Family(s) = Family(u) =>
          token[s].user = token[u].user
    BY DEF SInv, SessionTypes, FamiliesOK, Rows
  <2>4. \A s \in Tokens \ {n} : token'[s] # None /\ Family(s)' = row.family =>
          token'[s].user = row.user
    BY <1>4, <1>5, <2>2, <2>3
  <2>5. Family(t)' \in Tokens /\ token'[Family(t)'] # None
    BY <1>3, <1>4, <1>5, <1>6, <2>1, <2>2
  <2>6. ASSUME NEW s \in Tokens, token'[s] # None, Family(s)' = Family(t)'
        PROVE  token'[s].user = token'[t].user
    BY <1>3, <1>4, <1>6, <2>1, <2>2, <2>3, <2>4, <2>6
  <2> QED BY <2>5, <2>6
<1>8. FateFresh'
  BY <1>3 DEF SInv, FateFresh
<1>9. CookiesOK'
  BY <1>4 DEF SInv, SessionTypes, CookiesOK
<1>10. HandlersOK'
  <2>1. SessionOK(q)'
    BY <1>1, <1>3, <1>4, <1>5, NoRow
       DEF SInv, SessionTypes, HandlersOK, SessionOK, Handler, Rotations
  <2>2. ASSUME NEW k \in Handlers \ {h} PROVE SessionOK(handler[k])'
    <3>1. SessionOK(handler[k]) /\ handler'[k] = handler[k] /\ handler[k] \in Handler
      BY <1>1 DEF SInv, SessionTypes, HandlersOK
    <3>2. handler[k].token # None =>
            /\ token'[handler[k].token] = token[handler[k].token]
            /\ Family(handler[k].token)' = Family(handler[k].token)
      BY <1>4, <3>1 DEF SessionOK, Handler
    <3>3. handler[k].new # None =>
            /\ token'[handler[k].new] = token[handler[k].new]
            /\ Family(handler[k].new)' = Family(handler[k].new)
      BY <1>4, <3>1 DEF SessionOK, Handler
    <3> QED BY <3>1, <3>2, <3>3 DEF SessionOK
  <2> QED BY <1>1, <2>1, <2>2 DEF HandlersOK
\* Nobody knew n.
<1>11. /\ \A b \in Browsers : cookie[b] # n
       /\ \A k \in Handlers : handler[k].token # n /\ handler[k].new # n
  BY NoRow DEF SInv, CookiesOK, HandlersOK, SessionOK
<1>12. \A b \in Browsers, t \in Tokens : Knows(b, t)' =>
         Knows(b, t) \/ (b = q.browser /\ t = n)
  BY <1>1, NoRow DEF Knows
<1>13. \A b \in Browsers, t \in Tokens : Knows(b, t) => token[t] # None
  BY NoRow DEF SInv, Knows, CookiesOK, HandlersOK, SessionOK
<1>14. OneBrowser'
  <2>1. SUFFICES ASSUME NEW b \in Browsers, NEW c \in Browsers,
                        NEW t \in Tokens, NEW s \in Tokens,
                        Knows(b, t)', Knows(c, s)', Family(t)' = Family(s)'
                 PROVE  b = c
    BY DEF OneBrowser
  <2>2. \A d \in Browsers, u \in Tokens : Knows(d, u) /\ Family(u) = row.family =>
          d = q.browser
    <3>1. SUFFICES ASSUME NEW d \in Browsers, NEW u \in Tokens,
                          Knows(d, u), Family(u) = row.family
                   PROVE  d = q.browser
      OBVIOUS
    <3>2. CASE row.family = n
      BY <1>4, <1>13, <3>1, <3>2
    <3>3. CASE handler[h].pc = "rotate" /\ row.family = Family(handler[h].token)
      <4>1. Knows(q.browser, handler[h].token)
        BY DEF Knows
      <4> QED BY <1>5, <3>1, <3>3, <4>1 DEF SInv, OneBrowser
    <3> QED BY <3>2, <3>3
  <2>3. \A d \in Browsers, u \in Tokens : Knows(d, u) => Family(u)' = Family(u)
    BY <1>4, <1>13
  <2> QED BY <1>6, <1>12, <2>1, <2>2, <2>3 DEF SInv, OneBrowser
<1>15. UnknownNew'
  BY <1>1, <1>11 DEF SInv, UnknownNew
<1>16. CookieLive'
  <2>1. SUFFICES ASSUME NEW b \in Browsers, cookie[b] # None,
                        fate[Family(cookie[b])'] = "sound", ~token'[cookie[b]].live
                 PROVE  \E k \in Handlers : Successor(k, b, cookie[b])'
    BY DEF CookieLive
  <2>2. cookie[b] \in Tokens /\ token[cookie[b]] # None
    BY <2>1 DEF SInv, SessionTypes, CookiesOK
  <2>3. fate[Family(cookie[b])] = "sound" /\ ~token[cookie[b]].live
    BY <1>4, <2>1, <2>2
  <2>4. PICK k \in Handlers : Successor(k, b, cookie[b])
    BY <2>1, <2>3 DEF SInv, CookieLive
  <2> QED BY <1>1, <2>4 DEF Successor
<1>17. EndedStaysEnded'
  <2>1. SUFFICES ASSUME NEW t \in Tokens, token'[t] # None, fate[Family(t)'] = "ended"
                 PROVE  ~token'[t].live
    BY <1>2 DEF EndedStaysEnded, Rows, SessionTypes
  <2>2. CASE t = n
    BY <1>5, <1>6, <2>1, <2>2 DEF SInv, FateFresh
  <2>3. CASE t # n
    BY <1>3, <1>4, <2>1, <2>3 DEF SInv, EndedStaysEnded, Rows, SessionTypes
  <2> QED BY <2>2, <2>3
<1> QED BY <1>2, <1>7, <1>8, <1>9, <1>10, <1>14, <1>15, <1>16, <1>17 DEF SInv

\* What a revocation leaves of each token
LEMMA RevokedIs ==
  ASSUME SessionTypes, NEW ts, ts \subseteq Rows(token), token' = Revoked(ts)
  PROVE  /\ token' \in [Tokens -> Token \cup {None}]
         /\ \A t \in Tokens : /\ token'[t] # None <=> token[t] # None
                              /\ t \notin ts => token'[t] = token[t]
                              /\ t \in ts => ~token'[t].live
                              /\ token[t] # None =>
                                   /\ token[t] \in Token /\ Family(t) \in Tokens
                                   /\ Family(t)' = Family(t)
                                   /\ token'[t].user = token[t].user
<1> DEFINE off(t) == [token[t] EXCEPT !.live = FALSE]
<1>1. \A t \in Tokens : token[t] # None => token[t] \in Token
  BY DEF SessionTypes
<1>2. \A t \in Tokens : token[t] # None =>
        /\ off(t) \in Token /\ ~off(t).live
        /\ off(t).family = token[t].family /\ off(t).user = token[t].user
        /\ token[t].family \in Tokens
  BY <1>1 DEF Token
<1>3. \A t \in Tokens : token'[t] = IF t \in ts THEN off(t) ELSE token[t]
  BY DEF Revoked
<1>4. \A t \in ts : t \in Tokens /\ token[t] # None
  BY DEF SessionTypes, Rows
<1> HIDE DEF off
<1>5. DOMAIN token' = Tokens /\ token' = [t \in Tokens |-> token'[t]]
  BY DEF Revoked
<1>6. token' \in [Tokens -> Token \cup {None}]
  BY <1>1, <1>2, <1>3, <1>4, <1>5
<1>7. \A t \in Tokens : off(t) \in Token => off(t) # None
  BY NoRow
<1> QED BY <1>1, <1>2, <1>3, <1>4, <1>6, <1>7 DEF Family

LEMMA RetirePreserves ==
  ASSUME SInv, NEW h \in Handlers, Retire(h)
  PROVE  SInv'
<1> DEFINE q == [handler[h] EXCEPT !.pc = "answer"]
           old == handler[h].token
<1>1. handler[h] \in Handler /\ SessionOK(handler[h]) /\ handler[h].pc = "retire"
  BY DEF SInv, SessionTypes, HandlersOK, Retire
<1>2. /\ q \in Handler /\ q.pc = "answer" /\ q.browser = handler[h].browser
      /\ q.token = old /\ q.new = handler[h].new
  BY <1>1 DEF Handler
<1>3. Gets(h, q)
  BY DEF Retire, To, Gets
<1>4. /\ old \in Tokens /\ token[old] # None /\ q.new \in Tokens /\ token[q.new] # None
      /\ q.browser \in Browsers /\ q.new # None /\ old # None
  BY <1>1, <1>2 DEF SessionOK, Rotations, ForBrowser, Handler
<1>5. token' = Revoked({old}) /\ {old} \subseteq Rows(token)
        /\ UNCHANGED <<cookie, fate>>
  BY <1>4 DEF Retire, Rows, SInv, SessionTypes
<1> HIDE DEF q, old
<1>6. /\ handler' \in [Handlers -> Handler]
      /\ handler'[h] = q
      /\ \A k \in Handlers \ {h} : handler'[k] = handler[k]
  BY <1>2, <1>3, GetsIs DEF SInv
<1>7. /\ token' \in [Tokens -> Token \cup {None}]
      /\ \A t \in Tokens : /\ token'[t] # None <=> token[t] # None
                           /\ t # old => token'[t] = token[t]
                           /\ token[t] # None => /\ Family(t) \in Tokens
                                                 /\ Family(t)' = Family(t)
                                                 /\ token'[t].user = token[t].user
      /\ ~token'[old].live
  <2>1. SessionTypes
    BY DEF SInv
  <2>2. /\ token' \in [Tokens -> Token \cup {None}]
        /\ \A t \in Tokens : /\ token'[t] # None <=> token[t] # None
                             /\ t \notin {old} => token'[t] = token[t]
                             /\ t \in {old} => ~token'[t].live
                             /\ token[t] # None =>
                                  /\ token[t] \in Token /\ Family(t) \in Tokens
                                  /\ Family(t)' = Family(t)
                                  /\ token'[t].user = token[t].user
    BY <1>5, <2>1, RevokedIs
  <2> QED BY <1>4, <2>2
<1>8. SessionTypes'
  BY <1>5, <1>6, <1>7 DEF SInv, SessionTypes
<1>9. FamiliesOK'
  BY <1>7, <1>8 DEF SInv, FamiliesOK, SessionTypes, Rows
<1>10. FateFresh' /\ CookiesOK'
  BY <1>5, <1>7 DEF SInv, SessionTypes, FateFresh, CookiesOK
\* Nobody waits for the token that is retired.
<1>11. \A k \in Handlers : handler[k].new # old
  BY <1>4 DEF SInv, UnknownNew, old
<1>12. HandlersOK'
  <2>1. ASSUME NEW k \in Handlers PROVE SessionOK(handler[k])'
    <3>1. SessionOK(handler[k]) /\ handler[k] \in Handler /\ handler'[k] \in Handler
      BY <1>6 DEF SInv, SessionTypes, HandlersOK
    <3>2. handler'[k].token = handler[k].token /\ handler'[k].new = handler[k].new
            /\ handler'[k].browser = handler[k].browser
            /\ (k # h => handler'[k] = handler[k]) /\ (k = h => handler'[k].pc = "answer")
      BY <1>2, <1>6 DEF old
    <3>3. handler[k].token # None => Family(handler[k].token)' = Family(handler[k].token)
                                       /\ token'[handler[k].token] # None
      BY <1>7, <3>1, <3>2 DEF SessionOK, Handler
    <3>4. handler[k].new # None => Family(handler[k].new)' = Family(handler[k].new)
                                     /\ token'[handler[k].new] = token[handler[k].new]
      BY <1>7, <1>11, <3>1, <3>2 DEF SessionOK, Handler
    <3>5. k = h => q.browser \in Browsers
      BY <1>4
    <3> QED BY <1>2, <1>4, <1>5, <1>6, <3>1, <3>2, <3>3, <3>4, <3>5 DEF SessionOK, Rotations
  <2> QED BY <2>1 DEF HandlersOK
<1>13. \A b \in Browsers, t \in Tokens : Knows(b, t)' <=> Knows(b, t)
  BY <1>2, <1>5, <1>6 DEF Knows, old
<1>14. \A b \in Browsers, t \in Tokens : Knows(b, t) => token[t] # None
  BY NoRow DEF SInv, Knows, CookiesOK, HandlersOK, SessionOK
<1>15. OneBrowser'
  BY <1>7, <1>13, <1>14 DEF SInv, OneBrowser
<1>16. UnknownNew'
  BY <1>2, <1>5, <1>6 DEF SInv, UnknownNew, old
<1>17. CookieLive'
  <2>1. SUFFICES ASSUME NEW b \in Browsers, cookie[b] # None,
                        fate[Family(cookie[b])'] = "sound", ~token'[cookie[b]].live
                 PROVE  \E k \in Handlers : Successor(k, b, cookie[b])'
    BY <1>5 DEF CookieLive
  <2>2. cookie[b] \in Tokens /\ token[cookie[b]] # None
    BY <2>1 DEF SInv, SessionTypes, CookiesOK
  <2>3. CASE cookie[b] = old
    <3>1. Knows(b, old) /\ Knows(q.browser, old)
      BY <1>2, <2>3 DEF Knows, old
    <3>2. b = q.browser
      BY <1>4, <3>1 DEF SInv, OneBrowser
    <3>3. q.pc = "answer" /\ q.token = old /\ q.new # None
      BY <1>2, <1>4
    <3> QED BY <1>5, <1>6, <2>3, <3>2, <3>3 DEF Successor
  <2>4. CASE cookie[b] # old
    <3>1. fate[Family(cookie[b])] = "sound" /\ ~token[cookie[b]].live
      BY <1>5, <1>7, <2>1, <2>2, <2>4
    <3>2. PICK k \in Handlers : Successor(k, b, cookie[b])
      BY <2>1, <3>1 DEF SInv, CookieLive
    <3>3. k # h
      BY <1>1, <3>2 DEF Successor
    <3> QED BY <1>5, <1>6, <3>2, <3>3 DEF Successor
  <2> QED BY <2>3, <2>4
<1>18. EndedStaysEnded'
  <2>1. SUFFICES ASSUME NEW t \in Tokens, token'[t] # None, fate[Family(t)'] = "ended"
                 PROVE  ~token'[t].live
    BY <1>5, <1>8 DEF EndedStaysEnded, Rows, SessionTypes
  <2> QED BY <1>7, <2>1 DEF SInv, EndedStaysEnded, Rows, SessionTypes
<1> QED BY <1>8, <1>9, <1>10, <1>12, <1>15, <1>16, <1>17, <1>18 DEF SInv

\* Whole families are revoked.
LEMMA RevokeStep ==
  ASSUME SInv, NEW h \in Handlers, NEW q \in Handler, Gets(h, q),
         handler[h].pc \in {"revoke_family", "revoke_all"},
         q.pc \in {"idle", "answer"}, q.new = None,
         q.pc = "answer" => q.browser \in Browsers,
         q.token = None \/ (q.token = handler[h].token /\ q.browser = handler[h].browser),
         NEW fs, fs \subseteq Rows(token),
         NEW ts, ts = {t \in Rows(token) : Family(t) \in fs},
         token' = Revoked(ts), fate' = Ended(fs), UNCHANGED cookie
  PROVE  SInv'
<1>1. /\ handler' \in [Handlers -> Handler]
      /\ handler'[h] = q
      /\ \A k \in Handlers \ {h} : handler'[k] = handler[k]
  BY GetsIs DEF SInv
<1>2. /\ token' \in [Tokens -> Token \cup {None}]
      /\ \A t \in Tokens : /\ token'[t] # None <=> token[t] # None
                           /\ t \notin ts => token'[t] = token[t]
                           /\ t \in ts => ~token'[t].live
                           /\ token[t] # None =>
                                /\ token[t] \in Token /\ Family(t) \in Tokens
                                /\ Family(t)' = Family(t)
                                /\ token'[t].user = token[t].user
  <2>1. SessionTypes /\ ts \subseteq Rows(token)
    BY DEF SInv
  <2> QED BY <2>1, RevokedIs
<1>3. /\ fate' \in [Tokens -> {"sound", "broken", "ended"}]
      /\ \A f \in Tokens : /\ f \notin fs => fate'[f] = fate[f]
                           /\ fate'[f] = "sound" => f \notin fs /\ fate[f] = "sound"
                           /\ fate'[f] = "ended" /\ fate[f] # "ended" =>
                                f \in fs /\ Rotating(f) = {}
  <2>1. fate' = [f \in Tokens |-> IF f \notin fs \/ fate[f] = "ended" THEN fate[f]
                                  ELSE IF Rotating(f) = {} THEN "ended" ELSE "broken"]
    BY DEF Ended
  <2>2. \A f \in Tokens : fate[f] \in {"sound", "broken", "ended"}
    BY DEF SInv, SessionTypes
  <2>3. fate' \in [Tokens -> {"sound", "broken", "ended"}]
    BY <2>1, <2>2
  <2>4. \A f \in Tokens : fate'[f] = IF f \notin fs \/ fate[f] = "ended" THEN fate[f]
                                     ELSE IF Rotating(f) = {} THEN "ended" ELSE "broken"
    BY <2>1
  <2> QED BY <2>2, <2>3, <2>4
<1>4. \A t \in Tokens : token[t] # None => (t \in ts <=> Family(t) \in fs)
  BY DEF SInv, SessionTypes, Rows
<1>5. SessionTypes'
  BY <1>1, <1>2, <1>3 DEF SInv, SessionTypes
<1>6. FamiliesOK'
  <2>1. \A t : t \in Rows(token)' <=> t \in Rows(token)
    BY <1>2 DEF SInv, SessionTypes, Rows
  <2>2. \A t \in Rows(token) : Family(t)' = Family(t) /\ token'[t].user = token[t].user
    BY <1>2 DEF SInv, SessionTypes, Rows
  <2>3. ASSUME NEW t \in Rows(token)'
        PROVE  Family(t)' \in Rows(token)'
    <3>1. t \in Rows(token)
      BY <2>1, <2>3
    <3>2. Family(t) \in Rows(token)
      BY <3>1 DEF SInv, FamiliesOK
    <3> QED BY <2>1, <2>2, <3>1, <3>2
  <2>4. ASSUME NEW t \in Rows(token)', NEW s \in Rows(token)', Family(s)' = Family(t)'
        PROVE  token'[s].user = token'[t].user
    <3>1. t \in Rows(token) /\ s \in Rows(token)
      BY <2>1, <2>4
    <3>2. Family(s) = Family(t)
      BY <2>2, <2>4, <3>1
    <3>3. token[s].user = token[t].user
      BY <3>1, <3>2 DEF SInv, FamiliesOK
    <3> QED BY <2>2, <3>1, <3>3
  <2> QED BY <2>3, <2>4 DEF FamiliesOK
<1>7. FateFresh' /\ CookiesOK'
  BY <1>2, <1>3 DEF SInv, SessionTypes, FateFresh, CookiesOK, Rows
<1>8. \A t \in Tokens : fate'[Family(t)] = "sound" /\ token[t] # None =>
        /\ fate[Family(t)] = "sound" /\ token'[t] = token[t]
  BY <1>2, <1>3, <1>4
<1>9. HandlersOK'
  <2>1. SessionOK(q)'
    <3>1. q.token # None => q.token \in Tokens /\ token[q.token] # None
      BY DEF SInv, SessionTypes, HandlersOK, SessionOK, Handler
    <3> QED BY <1>2, <3>1 DEF SessionOK, ForBrowser, Rotations
  <2>2. ASSUME NEW k \in Handlers \ {h} PROVE SessionOK(handler[k])'
    <3>1. SessionOK(handler[k]) /\ handler'[k] = handler[k] /\ handler[k] \in Handler
      BY <1>1 DEF SInv, SessionTypes, HandlersOK
    <3>2. handler[k].token # None =>
            /\ handler[k].token \in Tokens /\ token[handler[k].token] # None
            /\ Family(handler[k].token)' = Family(handler[k].token)
            /\ Family(handler[k].token) \in Tokens
            /\ token'[handler[k].token] # None
      BY <1>2, <3>1 DEF SessionOK, Handler
    <3>3. handler[k].new # None =>
            /\ handler[k].new \in Tokens /\ token[handler[k].new] # None
            /\ Family(handler[k].new)' = Family(handler[k].new)
            /\ token'[handler[k].new] # None
      BY <1>2, <3>1 DEF SessionOK, Handler
    <3>4. handler[k].pc \in Rotations => fate'[Family(handler[k].token)] # "ended"
      <4>1. SUFFICES ASSUME handler[k].pc \in Rotations
                     PROVE  fate'[Family(handler[k].token)] # "ended"
        OBVIOUS
      <4>2. /\ handler[k].token # None /\ fate[Family(handler[k].token)] # "ended"
        BY <3>1, <4>1 DEF SessionOK
      <4>3. k \in Rotating(Family(handler[k].token))
        BY <4>1, <4>2 DEF Rotating, Rotations
      <4> QED BY <1>3, <3>2, <4>2, <4>3
    <3>5. handler[k].new # None /\ fate'[Family(handler[k].new)] = "sound" =>
            token'[handler[k].new].live
      BY <1>8, <3>1, <3>3 DEF SessionOK
    <3> QED BY <3>1, <3>2, <3>3, <3>4, <3>5 DEF SessionOK
  <2> QED BY <1>1, <2>1, <2>2 DEF HandlersOK
<1>10. \A b \in Browsers, t \in Tokens : Knows(b, t)' => Knows(b, t)
  BY <1>1, NoRow DEF Knows
<1>11. \A b \in Browsers, t \in Tokens : Knows(b, t) => token[t] # None
  BY NoRow DEF SInv, Knows, CookiesOK, HandlersOK, SessionOK
<1>12. OneBrowser'
  BY <1>2, <1>10, <1>11 DEF SInv, OneBrowser
<1>13. UnknownNew'
  BY <1>1 DEF SInv, UnknownNew
<1>14. CookieLive'
  <2>1. SUFFICES ASSUME NEW b \in Browsers, cookie[b] # None,
                        fate'[Family(cookie[b])'] = "sound", ~token'[cookie[b]].live
                 PROVE  \E k \in Handlers : Successor(k, b, cookie[b])'
    BY DEF CookieLive
  <2>2. cookie[b] \in Tokens /\ token[cookie[b]] # None
    BY <2>1 DEF SInv, SessionTypes, CookiesOK
  <2>3. Family(cookie[b])' = Family(cookie[b])
    BY <1>2, <2>2
  <2>4. fate[Family(cookie[b])] = "sound" /\ ~token[cookie[b]].live
    BY <1>8, <2>1, <2>2, <2>3
  <2>5. PICK k \in Handlers : Successor(k, b, cookie[b])
    BY <2>1, <2>4 DEF SInv, CookieLive
  <2> QED BY <1>1, <2>5 DEF Successor
<1>15. EndedStaysEnded'
  <2>1. SUFFICES ASSUME NEW t \in Tokens, token'[t] # None, fate'[Family(t)'] = "ended"
                 PROVE  ~token'[t].live
    BY <1>5 DEF EndedStaysEnded, Rows, SessionTypes
  <2>2. token[t] # None /\ Family(t)' = Family(t) /\ Family(t) \in Tokens
    BY <1>2, <2>1
  <2>3. CASE t \in ts
    BY <1>2, <2>3
  <2>4. CASE t \notin ts
    BY <1>2, <1>3, <1>4, <2>1, <2>2, <2>4 DEF SInv, EndedStaysEnded, Rows, SessionTypes
  <2> QED BY <2>3, <2>4
<1> QED BY <1>5, <1>6, <1>7, <1>9, <1>12, <1>13, <1>14, <1>15 DEF SInv

LEMMA IdleIs ==
  /\ Idle \in Handler
  /\ Idle.pc = "idle" /\ Idle.token = None /\ Idle.new = None /\ Idle.browser = None
BY DEF Idle, Handler

LEMMA AnswerSessions ==
  ASSUME SInv, NEW h \in Handlers, Answer(h)
  PROVE  SInv'
<1> DEFINE b == handler[h].browser
           n == handler[h].new
<1>1. handler[h] \in Handler /\ SessionOK(handler[h]) /\ handler[h].pc = "answer"
  BY DEF SInv, SessionTypes, HandlersOK, Answer
<1>2. b \in Browsers /\ n \in Tokens \cup {None} /\ (n # None => token[n] # None)
  BY <1>1 DEF SessionOK, ForBrowser, Handler
<1>3. Gets(h, Idle) /\ cookie' = [cookie EXCEPT ![b] = n] /\ UNCHANGED <<token, fate>>
  BY DEF Answer, End, Gets
<1> HIDE DEF b, n
<1>4. /\ handler' \in [Handlers -> Handler]
      /\ handler'[h] = Idle
      /\ \A k \in Handlers \ {h} : handler'[k] = handler[k]
  BY <1>3, GetsIs, IdleIs DEF SInv
<1>5. cookie' \in [Browsers -> Tokens \cup {None}]
        /\ cookie'[b] = n /\ \A c \in Browsers \ {b} : cookie'[c] = cookie[c]
  BY <1>2, <1>3 DEF SInv, SessionTypes
<1>6. SessionTypes'
  BY <1>3, <1>4, <1>5 DEF SInv, SessionTypes
<1>7. FamiliesOK' /\ FateFresh'
  BY <1>3 DEF SInv, FamiliesOK, FateFresh, Rows, Family
<1>8. CookiesOK'
  BY <1>2, <1>3, <1>5 DEF SInv, CookiesOK
<1>9. HandlersOK'
  <2>1. SessionOK(Idle)'
    BY IdleIs DEF SessionOK, ForBrowser, Rotations
  <2>2. ASSUME NEW k \in Handlers \ {h} PROVE SessionOK(handler[k])'
    BY <1>3, <1>4 DEF SInv, HandlersOK, SessionOK, Family
  <2>3. SessionOK(handler[h])'
    BY <1>4, <2>1, IdleIs DEF SessionOK, ForBrowser, Rotations
  <2> QED BY <2>2, <2>3 DEF HandlersOK
<1>10. \A c \in Browsers, t \in Tokens : Knows(c, t)' => Knows(c, t)
  BY <1>4, <1>5, IdleIs, NoRow DEF Knows, b, n
<1>11. OneBrowser'
  BY <1>3, <1>10 DEF SInv, OneBrowser, Family
<1>12. UnknownNew'
  BY <1>4, <1>5, IdleIs DEF SInv, UnknownNew, n
<1>13. CookieLive'
  <2>1. SUFFICES ASSUME NEW c \in Browsers, cookie'[c] # None,
                        fate[Family(cookie[c])'] = "sound", ~token[cookie'[c]].live
                 PROVE  \E k \in Handlers : Successor(k, c, cookie[c])'
    BY <1>3 DEF CookieLive
  <2>2. Family(cookie[c])' = Family(cookie'[c])
    BY <1>3 DEF Family
  <2>3. c # b
    BY <1>1, <1>5, <2>1, <2>2 DEF SessionOK, n
  <2>4. PICK k \in Handlers : Successor(k, c, cookie[c])
    BY <1>5, <2>1, <2>2, <2>3 DEF SInv, CookieLive
  <2>5. k # h
    BY <2>3, <2>4 DEF Successor, b
  <2> QED BY <1>4, <1>5, <2>3, <2>4, <2>5 DEF Successor
<1>14. EndedStaysEnded'
  BY <1>3 DEF SInv, EndedStaysEnded, Rows, Family
<1> QED BY <1>6, <1>7, <1>8, <1>9, <1>11, <1>12, <1>13, <1>14 DEF SInv

-----------------------------------------------------------------------------
(***************************************************************************)
(* What each kind of step does to the accounts and the links.              *)
(***************************************************************************)
\* Accounts and links stay once they are there, and so does what a link has set.
LEMMA AccountStep ==
  ASSUME SessionTypes, AInv, NEW h \in Handlers, NEW q \in Handler, Gets(h, q),
         AccountTypes', LinkNotBurned',
         \A u \in Users : user[u] # None => user'[u] # None,
         \A r \in Resets : reset[r] # None =>
           reset'[r] # None /\ (reset[r].set => reset'[r].set),
         AccountOK(q)'
  PROVE  AInv'
<1>1. /\ handler'[h] = q
      /\ \A k \in Handlers \ {h} : handler'[k] = handler[k]
  BY GetsIs
<1>2. ASSUME NEW k \in Handlers \ {h} PROVE AccountOK(handler[k])'
  <2>1. AccountOK(handler[k]) /\ handler'[k] = handler[k] /\ handler[k] \in Handler
    BY <1>1 DEF AInv, SessionTypes
  <2>2. handler[k].user \in Users \cup {None} /\ handler[k].reset \in Resets \cup {None}
    BY <2>1 DEF Handler
  <2> QED BY <2>1, <2>2 DEF AccountOK
<1> QED BY <1>1, <1>2 DEF AInv, AccountOK

LEMMA AccountsStay ==
  ASSUME SessionTypes, AInv, NEW h \in Handlers, NEW q \in Handler, Gets(h, q),
         UNCHANGED <<user, identity, reset>>, AccountOK(q)
  PROVE  AInv'
<1>1. AccountTypes' /\ LinkNotBurned' /\ AccountOK(q)'
  BY DEF AInv, AccountTypes, LinkNotBurned, Rows, AccountOK
<1> QED BY <1>1, AccountStep

\* A request arrives.
LEMMA BeginStep ==
  ASSUME IInv, NEW h \in Handlers, NEW q \in Handler, Begin(h, q),
         fate' \in [Tokens -> {"sound", "broken", "ended"}],
         \A f \in Tokens : \/ fate'[f] = fate[f]
                           \/ fate'[f] = "broken" /\ fate[f] = "sound" /\ token[f] # None,
         q.new = None,
         q.pc \in ForBrowser => q.browser \in Browsers,
         q.pc \in Rotations \cup {"revoke_family"} => q.token # None,
         q.pc \in Rotations => fate[Family(q.token)] # "ended",
         q.pc # "retire",
         q.token = None \/ (q.browser \in Browsers /\ q.token = cookie[q.browser]),
         AccountOK(q)
  PROVE  IInv'
<1>1. Gets(h, q) /\ UNCHANGED <<token, cookie, user, identity, reset>>
        /\ handler[h].pc = "idle"
  BY DEF Begin, Gets
<1>2. SInv'
  BY <1>1, MoveStep DEF IInv
<1>3. AInv'
  BY <1>1, AccountsStay DEF IInv, SInv
<1> QED BY <1>2, <1>3 DEF IInv

\* A request goes on to its next statement, or ends.
Onward(h, q) ==
  /\ Gets(h, q) /\ UNCHANGED <<token, cookie, fate>>
  /\ q.pc \notin {"retire", "answer"} /\ handler[h].pc \notin {"retire", "answer"}
  /\ q.token = handler[h].token /\ q.browser = handler[h].browser
  /\ q.new = handler[h].new
  /\ q.pc \in ForBrowser => handler[h].pc \in ForBrowser
  /\ q.pc \in Rotations => handler[h].pc \in Rotations
  /\ q.pc # "revoke_family"

LEMMA OnwardStep ==
  ASSUME SInv, NEW h \in Handlers, NEW q \in Handler, Onward(h, q)
  PROVE  SInv'
<1>1. SessionOK(handler[h])
  BY DEF SInv, HandlersOK
<1>2. /\ Gets(h, q) /\ UNCHANGED <<token, cookie>> /\ UNCHANGED fate
      /\ q.new = None /\ handler[h].pc # "answer" /\ q.pc # "retire"
      /\ q.pc \in ForBrowser => q.browser \in Browsers
      /\ q.pc \in Rotations \cup {"revoke_family"} => q.token # None
      /\ q.pc \in Rotations => fate[Family(q.token)] # "ended"
  BY <1>1 DEF Onward, SessionOK
<1>3. fate' \in [Tokens -> {"sound", "broken", "ended"}]
  BY <1>2 DEF SInv, SessionTypes
<1> QED BY <1>2, <1>3, MoveStep DEF Onward

LEMMA EndStep ==
  ASSUME SInv, NEW h \in Handlers, End(h), handler[h].pc # "answer",
         UNCHANGED <<token, cookie, fate>>
  PROVE  SInv'
<1>1. Gets(h, Idle)
  BY DEF End, Gets
<1>2. fate' \in [Tokens -> {"sound", "broken", "ended"}]
  BY DEF SInv, SessionTypes
<1> QED BY <1>1, <1>2, IdleIs, MoveStep DEF ForBrowser, Rotations

-----------------------------------------------------------------------------
(***************************************************************************)
(* Requests arrive.                                                        *)
(***************************************************************************)
LEMMA HandlerTyped ==
  ASSUME SessionTypes, NEW h \in Handlers
  PROVE  /\ handler[h] \in Handler
         /\ handler[h].browser \in Browsers \cup {None}
         /\ handler[h].user \in Users \cup {None}
         /\ handler[h].token \in Tokens \cup {None}
         /\ handler[h].reset \in Resets \cup {None}
         /\ handler[h].new \in Tokens \cup {None}
BY DEF SessionTypes, Handler

LEMMA SignInPreserves ==
  ASSUME IInv, NEW h \in Handlers, NEW b \in Browsers,
         Register(h, b) \/ Login(h, b) \/ OAuthCallback(h, b)
  PROVE  IInv'
<1> DEFINE SignsIn(q) == /\ q \in Handler
                         /\ q.pc \in {"insert_user", "find_user", "issue"}
                         /\ q.browser = b /\ q.token = None /\ q.new = None
                         /\ q.pc = "issue" => q.user \in Users
<1>1. ASSUME NEW q, Begin(h, q), SignsIn(q), UNCHANGED fate
      PROVE  IInv'
  <2>1. fate' \in [Tokens -> {"sound", "broken", "ended"}]
    BY <1>1 DEF IInv, SInv, SessionTypes
  <2>2. AccountOK(q)
    BY <1>1 DEF AccountOK
  <2> QED BY <1>1, <2>1, <2>2, BeginStep DEF ForBrowser, Rotations
<1>2. CASE Register(h, b)
  <2> DEFINE q == [Idle EXCEPT !.pc = "insert_user", !.browser = b]
  <2>1. SignsIn(q)
    BY DEF Idle, Handler
  <2> QED BY <1>1, <1>2, <2>1 DEF Register
<1>3. CASE Login(h, b)
  <2>1. PICK u \in UserByEmail :
          Begin(h, [Idle EXCEPT !.pc = "issue", !.browser = b, !.user = u])
    BY <1>3 DEF Login
  <2> DEFINE q == [Idle EXCEPT !.pc = "issue", !.browser = b, !.user = u]
  <2>2. u \in Users
    BY DEF UserByEmail, Rows, IInv, AInv, AccountTypes
  <2>3. SignsIn(q)
    BY <2>2 DEF Idle, Handler
  <2> QED BY <1>1, <1>3, <2>1, <2>3 DEF Login
<1>4. CASE OAuthCallback(h, b)
  <2> DEFINE request == [Idle EXCEPT !.browser = b, !.oauth = TRUE]
             first == [request EXCEPT !.pc = "find_user"]
             again == [request EXCEPT !.pc = "issue", !.user = identity]
  <2>1. identity \in Users \cup {None}
    BY DEF IInv, AInv, AccountTypes
  <2>2. /\ request \in Handler /\ request.browser = b
        /\ request.token = None /\ request.new = None
    BY DEF Idle, Handler
  <2> HIDE DEF request
  <2>3. SignsIn(first)
    BY <2>2 DEF Handler
  <2>4. identity # None => SignsIn(again)
    BY <2>1, <2>2 DEF Handler
  <2>5. UNCHANGED fate /\ IF identity = None THEN Begin(h, first) ELSE Begin(h, again)
    BY <1>4 DEF OAuthCallback, request
  <2> QED BY <1>1, <2>3, <2>4, <2>5
<1> QED BY <1>2, <1>3, <1>4

LEMMA RefreshPreserves ==
  ASSUME IInv, NEW h \in Handlers, NEW b \in Browsers, Refresh(h, b)
  PROVE  IInv'
<1> DEFINE t == cookie[b]
           q == [Idle EXCEPT !.pc = Presented(t), !.browser = b, !.token = t,
                             !.user = token[t].user]
<1>1. t \in Tokens /\ token[t] # None /\ t # None
  BY NoRow DEF Refresh, IInv, SInv, SessionTypes, CookiesOK
<1>2. token[t] \in Token /\ token[t].user \in Users /\ Family(t) \in Tokens
  BY <1>1 DEF IInv, SInv, SessionTypes, Token, Family
<1>3. Presented(t) \in {"check_user", "revoke_family"}
        /\ (Presented(t) = "check_user" => Live(t))
  BY DEF Presented
<1>4. /\ q \in Handler /\ q.pc = Presented(t) /\ q.browser = b
      /\ q.token = t /\ q.new = None
  BY <1>1, <1>2, <1>3 DEF Idle, Handler
<1>5. Begin(h, q)
  BY DEF Refresh
<1>6. fate' = IF Live(t) /\ Rotating(Family(t)) # {} /\ fate[Family(t)] = "sound"
              THEN [fate EXCEPT ![Family(t)] = "broken"] ELSE fate
  BY DEF Refresh
<1> HIDE DEF q, t
<1>7. token[Family(t)] # None
  BY <1>1 DEF IInv, SInv, SessionTypes, FamiliesOK, Rows
<1>8. fate' \in [Tokens -> {"sound", "broken", "ended"}]
  BY <1>6 DEF IInv, SInv, SessionTypes
<1>9. \A f \in Tokens : \/ fate'[f] = fate[f]
                        \/ fate'[f] = "broken" /\ fate[f] = "sound" /\ token[f] # None
  BY <1>2, <1>6, <1>7 DEF IInv, SInv, SessionTypes
<1>10. Live(t) => fate[Family(t)] # "ended"
  BY <1>1 DEF IInv, SInv, SessionTypes, EndedStaysEnded, Rows, Live
<1>11. AccountOK(q)
  BY <1>3, <1>4 DEF AccountOK
<1>12. /\ q.pc \in ForBrowser => q.browser \in Browsers
       /\ q.pc \in Rotations \cup {"revoke_family"} => q.token # None
       /\ q.pc \in Rotations => fate[Family(q.token)] # "ended"
       /\ q.pc # "retire"
       /\ q.browser \in Browsers /\ q.token = cookie[q.browser]
  BY <1>1, <1>3, <1>4, <1>10 DEF Rotations, t
<1> QED BY <1>4, <1>5, <1>8, <1>9, <1>11, <1>12, BeginStep

LEMMA LogoutPreserves ==
  ASSUME IInv, NEW h \in Handlers, NEW b \in Browsers, Logout(h, b)
  PROVE  IInv'
<1> DEFINE q == [Idle EXCEPT !.pc = "revoke_family", !.browser = b,
                             !.token = cookie[b], !.new = None]
<1>1. cookie[b] \in Tokens /\ cookie[b] # None
  BY DEF Logout, IInv, SInv, SessionTypes
<1>2. /\ q \in Handler /\ q.pc = "revoke_family" /\ q.browser = b
      /\ q.token = cookie[b] /\ q.new = None
  BY <1>1 DEF Idle, Handler
<1>3. Begin(h, q) /\ UNCHANGED fate
  BY DEF Logout
<1>4. fate' \in [Tokens -> {"sound", "broken", "ended"}]
  BY <1>3 DEF IInv, SInv, SessionTypes
<1> HIDE DEF q
<1>5. AccountOK(q)
  BY <1>2 DEF AccountOK
<1> QED BY <1>1, <1>2, <1>3, <1>4, <1>5, BeginStep DEF ForBrowser, Rotations

LEMMA ResetPreserves ==
  ASSUME IInv, NEW h \in Handlers, NEW r \in Resets, ResetPassword(h, r)
  PROVE  IInv'
<1> DEFINE q == [Idle EXCEPT !.pc = ResetOrder[1], !.reset = r, !.user = reset[r].user]
<1>1. reset[r] # None /\ reset[r] \in Reset /\ reset[r].user \in Users /\ r # None
  BY NoRow DEF ResetPassword, IInv, AInv, AccountTypes, Reset
<1>2. ResetOrder[1] = "set_password"
  BY DEF ResetOrder
<1>3. /\ q \in Handler /\ q.pc = "set_password" /\ q.reset = r
      /\ q.token = None /\ q.new = None
  BY <1>1, <1>2 DEF Idle, Handler
<1>4. Begin(h, q) /\ UNCHANGED fate
  BY DEF ResetPassword
<1>5. fate' \in [Tokens -> {"sound", "broken", "ended"}]
  BY <1>4 DEF IInv, SInv, SessionTypes
<1> HIDE DEF q
<1>6. AccountOK(q)
  BY <1>1, <1>3 DEF AccountOK
<1> QED BY <1>3, <1>4, <1>5, <1>6, BeginStep DEF ForBrowser, Rotations

LEMMA DeletePreserves ==
  ASSUME IInv, NEW h \in Handlers, NEW u \in Users, DeleteAccount(h, u)
  PROVE  IInv'
<1> DEFINE q == [Idle EXCEPT !.pc = "delete_user", !.user = u]
<1>1. /\ q \in Handler /\ q.pc = "delete_user" /\ q.user = u
      /\ q.token = None /\ q.new = None
  BY DEF Idle, Handler
<1>2. Begin(h, q) /\ UNCHANGED fate /\ user[u] # None
  BY DEF DeleteAccount, UserByID
<1>3. fate' \in [Tokens -> {"sound", "broken", "ended"}]
  BY <1>2 DEF IInv, SInv, SessionTypes
<1> HIDE DEF q
<1>4. AccountOK(q)
  BY <1>1, <1>2 DEF AccountOK
<1> QED BY <1>1, <1>2, <1>3, <1>4, BeginStep DEF ForBrowser, Rotations

-----------------------------------------------------------------------------
(***************************************************************************)
(* Statements, in the order of the module.                                 *)
(***************************************************************************)
LEMMA FailPreserves ==
  ASSUME IInv, NEW h \in Handlers, End(h), handler[h].pc # "answer",
         UNCHANGED <<user, identity, token, reset, cookie, fate>>
  PROVE  IInv'
<1>1. SInv'
  BY EndStep DEF IInv
<1>2. Gets(h, Idle) /\ AccountOK(Idle)
  BY IdleIs DEF End, Gets, AccountOK
<1> QED BY <1>1, <1>2, IdleIs, AccountsStay DEF IInv, SInv

LEMMA FindUserPreserves ==
  ASSUME IInv, NEW h \in Handlers, FindUser(h)
  PROVE  IInv'
<1> DEFINE same == [handler[h] EXCEPT !.pc = "insert_user"]
           found(u) == [handler[h] EXCEPT !.pc = "link", !.user = u]
<1>1. handler[h] \in Handler /\ handler[h].pc = "find_user"
  BY HandlerTyped DEF IInv, SInv, FindUser
<1>2. PICK q \in Handler : /\ Gets(h, q)
                           /\ q.pc \in {"insert_user", "link"}
                           /\ q.pc = "link" => q.user \in Users
                           /\ q.token = handler[h].token
                           /\ q.browser = handler[h].browser
                           /\ q.new = handler[h].new
  <2>1. CASE To(h, "insert_user")
    <3>1. /\ same \in Handler /\ same.pc = "insert_user" /\ same.token = handler[h].token
          /\ same.browser = handler[h].browser /\ same.new = handler[h].new
      BY <1>1 DEF Handler
    <3>2. Gets(h, same)
      BY <2>1 DEF To, Gets
    <3> HIDE DEF same
    <3> QED BY <3>1, <3>2
  <2>2. CASE \E u \in UserByEmail :
               handler' = [handler EXCEPT ![h].pc = "link", ![h].user = u]
    <3>1. PICK u \in UserByEmail :
               handler' = [handler EXCEPT ![h].pc = "link", ![h].user = u]
      BY <2>2
    <3>2. u \in Users
      BY DEF UserByEmail, Rows, IInv, AInv, AccountTypes
    <3>3. /\ found(u) \in Handler /\ found(u).pc = "link" /\ found(u).user = u
          /\ found(u).token = handler[h].token
          /\ found(u).browser = handler[h].browser /\ found(u).new = handler[h].new
      BY <1>1, <3>2 DEF Handler
    <3>4. Gets(h, found(u))
      BY <3>1 DEF Gets
    <3> HIDE DEF found
    <3> QED BY <3>2, <3>3, <3>4
  <2> QED BY <2>1, <2>2 DEF FindUser
<1>3. SInv'
  <2>1. Onward(h, q)
    BY <1>1, <1>2 DEF FindUser, Onward, ForBrowser, Rotations
  <2> QED BY <2>1, OnwardStep DEF IInv
<1>4. AInv'
  <2>1. AccountOK(q)
    BY <1>2 DEF AccountOK
  <2> QED BY <1>2, <2>1, AccountsStay DEF IInv, SInv, FindUser
<1> QED BY <1>3, <1>4 DEF IInv

LEMMA InsertUserPreserves ==
  ASSUME IInv, NEW h \in Handlers, InsertUser(h)
  PROVE  IInv'
<1>1. CASE End(h) /\ UNCHANGED user
  BY <1>1, FailPreserves DEF InsertUser
<1>2. CASE Room(user)
           /\ user' = [user EXCEPT ![Unused(user)] =
                [live |-> TRUE, password |-> ~handler[h].oauth]]
           /\ handler' = [handler EXCEPT
                ![h].pc = IF handler[h].oauth THEN "link" ELSE "issue",
                ![h].user = Unused(user)]
  <2>1. handler[h] \in Handler /\ handler[h].pc = "insert_user"
    BY HandlerTyped DEF IInv, SInv, InsertUser
  <2>2. PICK u \in Users : u = Unused(user) /\ user[u] = None
    <3>1. \E v \in DOMAIN user : user[v] = None
      BY <1>2 DEF Room, Rows
    <3> QED BY <3>1 DEF Unused, IInv, AInv, AccountTypes
  <2>3. PICK row \in User : user' = [user EXCEPT ![u] = row]
    BY <1>2, <2>1, <2>2 DEF User, Handler
  <2>4. PICK q \in Handler : /\ Gets(h, q) /\ q.pc \in {"link", "issue"} /\ q.user = u
                             /\ q.token = handler[h].token
                             /\ q.browser = handler[h].browser
                             /\ q.new = handler[h].new
    <3> DEFINE r == [handler[h] EXCEPT
                       !.pc = IF handler[h].oauth THEN "link" ELSE "issue", !.user = u]
    <3>1. /\ r \in Handler /\ r.pc \in {"link", "issue"} /\ r.user = u
          /\ r.token = handler[h].token /\ r.browser = handler[h].browser
          /\ r.new = handler[h].new
      BY <2>1 DEF Handler
    <3>2. Gets(h, r)
      BY <1>2, <2>2 DEF Gets
    <3> HIDE DEF r
    <3> QED BY <3>1, <3>2
  <2>5. SInv'
    <3>1. Onward(h, q)
      BY <2>1, <2>4 DEF InsertUser, Onward, ForBrowser, Rotations
    <3> QED BY <3>1, OnwardStep DEF IInv
  <2>6. AInv'
    <3>1. UNCHANGED <<identity, reset>>
      BY DEF InsertUser
    <3>2. AccountTypes' /\ LinkNotBurned'
      BY <2>3, <3>1 DEF IInv, AInv, AccountTypes, LinkNotBurned, Rows
    <3>3. AccountOK(q)'
      BY <2>4 DEF AccountOK
    <3>4. \A v \in Users : user[v] # None => user'[v] # None
      BY <2>3, NoRow DEF IInv, AInv, AccountTypes
    <3> QED BY <2>4, <3>1, <3>2, <3>3, <3>4, AccountStep DEF IInv, SInv
  <2> QED BY <2>5, <2>6 DEF IInv
<1> QED BY <1>1, <1>2 DEF InsertUser

\* The request of h has only its next statement changed.
LEMMA ToIs ==
  ASSUME SessionTypes, NEW h \in Handlers,
         NEW pc \in {"issue", "rotate", "mark_used", "revoke_all"}, To(h, pc)
  PROVE  \E q \in Handler : /\ Gets(h, q) /\ q.pc = pc
                            /\ q.user = handler[h].user /\ q.reset = handler[h].reset
                            /\ q.token = handler[h].token
                            /\ q.browser = handler[h].browser
                            /\ q.new = handler[h].new
<1> DEFINE q == [handler[h] EXCEPT !.pc = pc]
<1>1. /\ q \in Handler /\ q.pc = pc
      /\ q.user = handler[h].user /\ q.reset = handler[h].reset
      /\ q.token = handler[h].token /\ q.browser = handler[h].browser
      /\ q.new = handler[h].new
  BY HandlerTyped DEF Handler
<1>2. Gets(h, q)
  BY DEF To, Gets
<1> HIDE DEF q
<1> QED BY <1>1, <1>2

LEMMA LinkPreserves ==
  ASSUME IInv, NEW h \in Handlers, Link(h)
  PROVE  IInv'
<1>1. /\ handler[h].pc = "link" /\ To(h, "issue")
      /\ UNCHANGED <<user, token, reset, cookie, fate>>
      /\ identity' = IF identity = None THEN handler[h].user ELSE identity
  BY DEF Link
<1>2. handler[h].user \in Users
  BY <1>1 DEF IInv, AInv, AccountOK
<1>3. PICK q \in Handler : /\ Gets(h, q) /\ q.pc = "issue"
                           /\ q.user = handler[h].user /\ q.reset = handler[h].reset
                           /\ q.token = handler[h].token
                           /\ q.browser = handler[h].browser
                           /\ q.new = handler[h].new
  BY <1>1, ToIs DEF IInv, SInv
<1>4. SInv'
  <2>1. Onward(h, q)
    BY <1>1, <1>3 DEF Onward, ForBrowser, Rotations
  <2> QED BY <2>1, OnwardStep DEF IInv
<1>5. AInv'
  <2>1. AccountTypes' /\ LinkNotBurned'
    BY <1>1, <1>2 DEF IInv, AInv, AccountTypes, LinkNotBurned, Rows
  <2>2. AccountOK(q)'
    BY <1>2, <1>3 DEF AccountOK
  <2> QED BY <1>1, <1>3, <2>1, <2>2, AccountStep DEF IInv, SInv
<1> QED BY <1>4, <1>5 DEF IInv

LEMMA CheckUserPreserves ==
  ASSUME IInv, NEW h \in Handlers, CheckUser(h)
  PROVE  IInv'
<1>1. CASE End(h)
  BY <1>1, FailPreserves DEF CheckUser
<1>2. CASE To(h, "rotate")
  <2>1. PICK q \in Handler : /\ Gets(h, q) /\ q.pc = "rotate"
                             /\ q.user = handler[h].user /\ q.reset = handler[h].reset
                             /\ q.token = handler[h].token
                             /\ q.browser = handler[h].browser
                             /\ q.new = handler[h].new
    BY <1>2, ToIs DEF IInv, SInv
  <2>2. Onward(h, q)
    BY <2>1 DEF CheckUser, Onward, ForBrowser, Rotations
  <2>3. AccountOK(q)
    BY <2>1 DEF AccountOK
  <2> QED BY <2>1, <2>2, <2>3, OnwardStep, AccountsStay DEF IInv, SInv, CheckUser
<1> QED BY <1>1, <1>2 DEF CheckUser

LEMMA FollowingIs ==
  /\ Following("set_password") = "mark_used"
  /\ Following("mark_used") = "revoke_all"
<1>1. (CHOOSE i \in 1..2 : ResetOrder[i] = "set_password") = 1
  BY DEF ResetOrder
<1>2. (CHOOSE i \in 1..2 : ResetOrder[i] = "mark_used") = 2
  BY DEF ResetOrder
<1> QED BY <1>1, <1>2 DEF Following, ResetOrder

LEMMA SetPasswordPreserves ==
  ASSUME IInv, NEW h \in Handlers, SetPassword(h)
  PROVE  IInv'
<1>1. /\ handler[h].pc = "set_password" /\ To(h, "mark_used")
      /\ UNCHANGED <<identity, token, cookie, fate>>
  BY FollowingIs DEF SetPassword
<1>2. PICK q \in Handler : /\ Gets(h, q) /\ q.pc = "mark_used"
                           /\ q.user = handler[h].user /\ q.reset = handler[h].reset
                           /\ q.token = handler[h].token
                           /\ q.browser = handler[h].browser
                           /\ q.new = handler[h].new
  BY <1>1, ToIs DEF IInv, SInv
<1>3. PICK r \in Resets : r = handler[h].reset /\ reset[r] # None /\ reset[r] \in Reset
  BY <1>1, HandlerTyped DEF IInv, SInv, AInv, AccountOK, AccountTypes
<1>4. PICK row \in Reset : /\ row.set /\ row.used = reset[r].used /\ row # None
                           /\ reset' = [reset EXCEPT ![r] = row]
  <2> DEFINE row == [reset[r] EXCEPT !.set = TRUE]
  <2>1. row \in Reset /\ row.set /\ row.used = reset[r].used /\ row # None
    BY <1>3, NoRow DEF Reset
  <2>2. reset' = [reset EXCEPT ![r] = row]
    BY <1>3 DEF SetPassword
  <2> HIDE DEF row
  <2> QED BY <2>1, <2>2
<1>5. user' \in [Users -> User \cup {None}]
        /\ \A u \in Users : user[u] # None => user'[u] # None
  <2>1. CASE UserByID(handler[h].user)
    <3> DEFINE u == handler[h].user
               account == [user[u] EXCEPT !.password = TRUE]
    <3>1. CASE u \in Users
      <4>1. account \in User /\ account # None
        BY <2>1, <3>1, NoRow DEF UserByID, IInv, AInv, AccountTypes, User
      <4>2. user' = [user EXCEPT ![u] = account]
        BY <2>1 DEF SetPassword
      <4> HIDE DEF u, account
      <4> QED BY <4>1, <4>2 DEF IInv, AInv, AccountTypes
    <3>2. CASE u \notin Users
      <4>1. user' = user
        BY <2>1, <3>2 DEF SetPassword, IInv, AInv, AccountTypes
      <4> QED BY <4>1 DEF IInv, AInv, AccountTypes
    <3> QED BY <3>1, <3>2
  <2>2. CASE ~UserByID(handler[h].user)
    BY <2>2 DEF SetPassword, IInv, AInv, AccountTypes
  <2> QED BY <2>1, <2>2
<1>6. SInv'
  <2>1. Onward(h, q)
    BY <1>1, <1>2 DEF Onward, ForBrowser, Rotations
  <2> QED BY <2>1, OnwardStep DEF IInv
<1>7. \A k \in Resets : reset'[k] = IF k = r THEN row ELSE reset[k]
  BY <1>4 DEF IInv, AInv, AccountTypes
<1>8. AInv'
  <2>1. AccountTypes'
    BY <1>1, <1>4, <1>5 DEF IInv, AInv, AccountTypes
  <2>2. LinkNotBurned'
    BY <1>3, <1>4, <1>7, <2>1 DEF IInv, AInv, AccountTypes, LinkNotBurned, Rows
  <2>3. AccountOK(q)'
    <3>1. q.pc = "mark_used" /\ q.reset = r /\ r # None
      BY <1>2, <1>3, NoRow
    <3>2. reset'[r] # None /\ reset'[r].set
      BY <1>4, <1>7
    <3> QED BY <3>1, <3>2 DEF AccountOK
  <2> QED BY <1>2, <1>4, <1>5, <1>7, <2>1, <2>2, <2>3, AccountStep DEF IInv, SInv
<1> QED BY <1>6, <1>8 DEF IInv

LEMMA MarkUsedPreserves ==
  ASSUME IInv, NEW h \in Handlers, MarkUsed(h)
  PROVE  IInv'
<1>1. /\ handler[h].pc = "mark_used" /\ To(h, "revoke_all")
      /\ UNCHANGED <<user, identity, token, cookie, fate>>
  BY FollowingIs DEF MarkUsed
<1>2. PICK q \in Handler : /\ Gets(h, q) /\ q.pc = "revoke_all"
                           /\ q.user = handler[h].user /\ q.reset = handler[h].reset
                           /\ q.token = handler[h].token
                           /\ q.browser = handler[h].browser
                           /\ q.new = handler[h].new
  BY <1>1, ToIs DEF IInv, SInv
<1>3. PICK r \in Resets : r = handler[h].reset /\ reset[r] # None /\ reset[r] \in Reset
                          /\ reset[r].set
  BY <1>1, HandlerTyped DEF IInv, SInv, AInv, AccountOK, AccountTypes
<1>4. PICK row \in Reset : row.set /\ row # None /\ reset' = [reset EXCEPT ![r] = row]
  <2> DEFINE row == [reset[r] EXCEPT !.used = TRUE]
  <2>1. row \in Reset /\ row.set /\ row # None
    BY <1>3, NoRow DEF Reset
  <2>2. reset' = [reset EXCEPT ![r] = row]
    BY <1>3 DEF MarkUsed
  <2> HIDE DEF row
  <2> QED BY <2>1, <2>2
<1>5. SInv'
  <2>1. Onward(h, q)
    BY <1>1, <1>2 DEF Onward, ForBrowser, Rotations
  <2> QED BY <2>1, OnwardStep DEF IInv
<1>6. \A k \in Resets : reset'[k] = IF k = r THEN row ELSE reset[k]
  BY <1>4 DEF IInv, AInv, AccountTypes
<1>7. AInv'
  <2>1. AccountTypes'
    BY <1>1, <1>4 DEF IInv, AInv, AccountTypes
  <2>2. LinkNotBurned'
    BY <1>4, <1>6, <2>1 DEF IInv, AInv, AccountTypes, LinkNotBurned, Rows
  <2>3. AccountOK(q)'
    BY <1>2 DEF AccountOK
  <2> QED BY <1>1, <1>2, <1>4, <1>6, <2>1, <2>2, <2>3, AccountStep DEF IInv, SInv
<1> QED BY <1>5, <1>7 DEF IInv

LEMMA DeleteUserPreserves ==
  ASSUME IInv, NEW h \in Handlers, DeleteUser(h)
  PROVE  IInv'
<1>1. /\ handler[h].pc = "delete_user" /\ To(h, "revoke_all")
      /\ UNCHANGED <<identity, token, reset, cookie, fate>>
  BY DEF DeleteUser
<1>2. PICK q \in Handler : /\ Gets(h, q) /\ q.pc = "revoke_all"
                           /\ q.user = handler[h].user /\ q.reset = handler[h].reset
                           /\ q.token = handler[h].token
                           /\ q.browser = handler[h].browser
                           /\ q.new = handler[h].new
  BY <1>1, ToIs DEF IInv, SInv
<1>3. PICK u \in Users : u = handler[h].user /\ user[u] # None /\ user[u] \in User
  BY <1>1 DEF IInv, AInv, AccountOK, AccountTypes
<1>4. PICK row \in User : row # None /\ user' = [user EXCEPT ![u] = row]
  <2> DEFINE row == [user[u] EXCEPT !.live = FALSE]
  <2>1. row \in User /\ row # None
    BY <1>3, NoRow DEF User
  <2>2. user' = [user EXCEPT ![u] = row]
    BY <1>3 DEF DeleteUser
  <2> HIDE DEF row
  <2> QED BY <2>1, <2>2
<1>5. SInv'
  <2>1. Onward(h, q)
    BY <1>1, <1>2 DEF Onward, ForBrowser, Rotations
  <2> QED BY <2>1, OnwardStep DEF IInv
<1>6. AInv'
  <2>1. AccountTypes' /\ LinkNotBurned'
    BY <1>1, <1>4 DEF IInv, AInv, AccountTypes, LinkNotBurned, Rows
  <2>2. AccountOK(q)'
    BY <1>2 DEF AccountOK
  <2>3. \A v \in Users : user[v] # None => user'[v] # None
    BY <1>4 DEF IInv, AInv, AccountTypes
  <2> QED BY <1>1, <1>2, <2>1, <2>2, <2>3, AccountStep DEF IInv, SInv
<1> QED BY <1>5, <1>6 DEF IInv

LEMMA IssuePreserves ==
  ASSUME IInv, NEW h \in Handlers, Issue(h)
  PROVE  IInv'
<1>1. /\ handler[h] \in Handler /\ SessionOK(handler[h]) /\ AccountOK(handler[h])
      /\ handler[h].pc = "issue"
  BY HandlerTyped DEF IInv, SInv, AInv, HandlersOK, Issue
<1>2. PICK n \in Tokens : n = Unused(token) /\ token[n] = None
  BY UnusedIs DEF Issue, IInv, SInv, SessionTypes
<1>3. PICK row \in Token : row.live /\ row.family = n /\ token' = [token EXCEPT ![n] = row]
  <2> DEFINE row == [user |-> handler[h].user, family |-> n, live |-> TRUE]
  <2>1. row \in Token /\ row.live /\ row.family = n
    BY <1>1 DEF Token, AccountOK
  <2>2. token' = [token EXCEPT ![n] = row]
    BY <1>2 DEF Issue, Issued
  <2> HIDE DEF row
  <2> QED BY <2>1, <2>2
<1>4. PICK q \in Handler : /\ Gets(h, q) /\ q.pc = "answer" /\ q.new = n
                           /\ q.token = handler[h].token
                           /\ q.browser = handler[h].browser
  <2> DEFINE q == [handler[h] EXCEPT !.pc = "answer", !.new = n]
  <2>1. /\ q \in Handler /\ q.pc = "answer" /\ q.new = n
        /\ q.token = handler[h].token /\ q.browser = handler[h].browser
    BY <1>1 DEF Handler
  <2>2. Gets(h, q)
    BY <1>2 DEF Issue, Gets
  <2> HIDE DEF q
  <2> QED BY <2>1, <2>2
<1>5. SInv'
  <2>1. handler[h].browser \in Browsers
    BY <1>1 DEF SessionOK, ForBrowser
  <2> QED BY <1>1, <1>2, <1>3, <1>4, <2>1, InsertStep DEF IInv, Issue
<1>6. AInv'
  <2>1. AccountOK(q)
    BY <1>4 DEF AccountOK
  <2> QED BY <1>4, <2>1, AccountsStay DEF IInv, SInv, Issue
<1> QED BY <1>5, <1>6 DEF IInv

LEMMA RotatePreserves ==
  ASSUME IInv, NEW h \in Handlers, Rotate(h)
  PROVE  IInv'
<1>1. /\ handler[h] \in Handler /\ SessionOK(handler[h]) /\ handler[h].pc = "rotate"
  BY HandlerTyped DEF IInv, SInv, HandlersOK, Rotate
<1>2. PICK n \in Tokens : n = Unused(token) /\ token[n] = None
  BY UnusedIs DEF Rotate, IInv, SInv, SessionTypes
<1>3. PICK t \in Tokens : t = handler[h].token /\ token[t] \in Token /\ t # None
  BY <1>1 DEF SessionOK, Rotations, Handler, IInv, SInv, SessionTypes
<1>4. PICK row \in Token : /\ row.live /\ row.family = Family(t) /\ row.user = token[t].user
                           /\ token' = [token EXCEPT ![n] = row]
  <2> DEFINE row == [user |-> token[t].user, family |-> Family(t), live |-> TRUE]
  <2>1. row \in Token /\ row.live /\ row.family = Family(t) /\ row.user = token[t].user
    BY <1>3 DEF Token, Family
  <2>2. Family(t) # 0
    BY <1>3, AuthAssumption DEF Token, Family, Tokens
  <2>3. token' = [token EXCEPT ![n] = row]
    BY <1>2, <1>3, <2>2 DEF Rotate, Rotated, Issued
  <2> HIDE DEF row
  <2> QED BY <2>1, <2>3
<1>5. PICK q \in Handler : /\ Gets(h, q) /\ q.pc = "retire" /\ q.new = n
                           /\ q.token = handler[h].token
                           /\ q.browser = handler[h].browser
  <2> DEFINE q == [handler[h] EXCEPT !.pc = "retire", !.new = n]
  <2>1. /\ q \in Handler /\ q.pc = "retire" /\ q.new = n
        /\ q.token = handler[h].token /\ q.browser = handler[h].browser
    BY <1>1 DEF Handler
  <2>2. Gets(h, q)
    BY <1>2 DEF Rotate, Gets
  <2> HIDE DEF q
  <2> QED BY <2>1, <2>2
<1>6. SInv'
  <2>1. handler[h].browser \in Browsers
    BY <1>1 DEF SessionOK, ForBrowser
  <2>2. UNCHANGED <<cookie, fate>>
    BY DEF Rotate
  <2>3. q.token # None /\ handler[h].pc # "answer"
    BY <1>1, <1>3, <1>5
  <2> QED BY <1>1, <1>2, <1>3, <1>4, <1>5, <2>1, <2>2, <2>3, InsertStep DEF IInv
<1>7. AInv'
  <2>1. AccountOK(q)
    BY <1>5 DEF AccountOK
  <2> QED BY <1>5, <2>1, AccountsStay DEF IInv, SInv, Rotate
<1> QED BY <1>6, <1>7 DEF IInv

LEMMA RevokeFamilyPreserves ==
  ASSUME IInv, NEW h \in Handlers, RevokeFamily(h)
  PROVE  IInv'
<1>1. /\ handler[h] \in Handler /\ SessionOK(handler[h])
      /\ handler[h].pc = "revoke_family"
  BY HandlerTyped DEF IInv, SInv, HandlersOK, RevokeFamily
<1>2. PICK t \in Tokens : t = handler[h].token /\ token[t] # None /\ t # None
  BY <1>1 DEF SessionOK, Handler
<1>3. /\ token' = Revoked(OfFamily(Family(t))) /\ fate' = Ended({Family(t)})
      /\ UNCHANGED <<user, identity, reset, cookie>>
      /\ \/ End(h)
         \/ To(h, "answer")
  BY <1>2 DEF RevokeFamily
<1>4. PICK q \in Handler :
        /\ Gets(h, q) /\ q.pc \in {"idle", "answer"} /\ q.new = None
        /\ q.pc = "answer" => q.browser \in Browsers
        /\ q.token = None \/ (q.token = handler[h].token /\ q.browser = handler[h].browser)
  <2>1. CASE End(h)
    BY <2>1, IdleIs DEF End, Gets
  <2>2. CASE To(h, "answer")
    <3> DEFINE q == [handler[h] EXCEPT !.pc = "answer"]
    <3>1. /\ q \in Handler /\ q.pc = "answer" /\ q.token = handler[h].token
          /\ q.browser = handler[h].browser /\ q.new = handler[h].new
      BY <1>1 DEF Handler
    <3>2. handler[h].new = None /\ handler[h].browser \in Browsers
      BY <1>1 DEF SessionOK, ForBrowser
    <3>3. Gets(h, q)
      BY <2>2 DEF To, Gets
    <3> HIDE DEF q
    <3> QED BY <3>1, <3>2, <3>3
  <2> QED BY <1>3, <2>1, <2>2
<1>5. SInv'
  <2>1. {Family(t)} \subseteq Rows(token)
    BY <1>2 DEF IInv, SInv, SessionTypes, FamiliesOK, Rows
  <2>2. OfFamily(Family(t)) = {s \in Rows(token) : Family(s) \in {Family(t)}}
    BY DEF OfFamily, Family
  <2>3. handler[h].pc \in {"revoke_family", "revoke_all"} /\ UNCHANGED cookie
    BY <1>1, <1>3
  <2> QED BY <1>3, <1>4, <2>1, <2>2, <2>3, RevokeStep DEF IInv
<1>6. AInv'
  <2>1. AccountOK(q)
    BY <1>4 DEF AccountOK
  <2> QED BY <1>3, <1>4, <2>1, AccountsStay DEF IInv, SInv
<1> QED BY <1>5, <1>6 DEF IInv

LEMMA RevokeAllPreserves ==
  ASSUME IInv, NEW h \in Handlers, RevokeAll(h)
  PROVE  IInv'
<1> DEFINE u == handler[h].user
           fs == {Family(t) : t \in OfUser(u)}
<1>1. /\ handler[h].pc = "revoke_all" /\ Gets(h, Idle)
      /\ token' = Revoked(OfUser(u)) /\ fate' = Ended(fs)
      /\ UNCHANGED <<user, identity, reset, cookie>>
  BY DEF RevokeAll, End, Gets
<1>2. \A t \in OfUser(u) : t \in Rows(token)
  BY DEF OfUser
<1>3. fs \subseteq Rows(token)
  BY <1>2 DEF IInv, SInv, FamiliesOK
\* All tokens of a family are of one user.
<1>4. OfUser(u) = {s \in Rows(token) : Family(s) \in fs}
  <2>1. ASSUME NEW s \in Rows(token), Family(s) \in fs
        PROVE  s \in OfUser(u)
    <3>1. PICK t \in OfUser(u) : Family(s) = Family(t)
      BY <2>1
    <3>2. t \in Rows(token) /\ token[t].user = u
      BY DEF OfUser
    <3>3. token[s].user = token[t].user
      BY <3>1, <3>2 DEF IInv, SInv, FamiliesOK
    <3> QED BY <3>2, <3>3 DEF OfUser
  <2> QED BY <1>2, <2>1
<1> HIDE DEF u, fs
<1>5. SInv'
  <2>1. handler[h].pc \in {"revoke_family", "revoke_all"} /\ UNCHANGED cookie
          /\ Idle.pc \in {"idle", "answer"} /\ Idle.pc # "answer"
    BY <1>1, IdleIs
  <2> QED BY <1>1, <1>3, <1>4, <2>1, IdleIs, RevokeStep DEF IInv
<1>6. AInv'
  <2>1. AccountOK(Idle)
    BY IdleIs DEF AccountOK
  <2> QED BY <1>1, <2>1, IdleIs, AccountsStay DEF IInv, SInv
<1> QED BY <1>5, <1>6 DEF IInv

LEMMA RetireKeeps ==
  ASSUME IInv, NEW h \in Handlers, Retire(h)
  PROVE  IInv'
<1>1. SInv'
  BY RetirePreserves DEF IInv
<1>2. PICK q \in Handler : Gets(h, q) /\ q.pc = "answer"
  <2> DEFINE q == [handler[h] EXCEPT !.pc = "answer"]
  <2>1. q \in Handler /\ q.pc = "answer"
    BY HandlerTyped DEF IInv, SInv, Handler
  <2>2. Gets(h, q)
    BY DEF Retire, To, Gets
  <2> HIDE DEF q
  <2> QED BY <2>1, <2>2
<1>3. AccountOK(q)
  BY <1>2 DEF AccountOK
<1> QED BY <1>1, <1>2, <1>3, AccountsStay DEF IInv, SInv, Retire

LEMMA AnswerPreserves ==
  ASSUME IInv, NEW h \in Handlers, Answer(h)
  PROVE  IInv'
<1>1. SInv'
  BY AnswerSessions DEF IInv
<1>2. Gets(h, Idle) /\ AccountOK(Idle)
  BY IdleIs DEF Answer, End, Gets, AccountOK
<1> QED BY <1>1, <1>2, IdleIs, AccountsStay DEF IInv, SInv, Answer

LEMMA LoseAnswerPreserves ==
  ASSUME IInv, NEW h \in Handlers, LoseAnswer(h)
  PROVE  IInv'
<1> DEFINE t == handler[h].token
<1>1. SessionOK(handler[h]) /\ t \in Tokens \cup {None}
  BY HandlerTyped DEF IInv, SInv, HandlersOK
<1>2. t # None => /\ token[t] # None /\ Family(t) \in Tokens
                  /\ token[Family(t)] # None
  BY <1>1 DEF SessionOK, IInv, SInv, SessionTypes, FamiliesOK, Rows
<1>3. /\ Gets(h, Idle) /\ UNCHANGED <<user, identity, token, reset, cookie>>
      /\ fate' = IF t # None /\ fate[Family(t)] = "sound"
                 THEN [fate EXCEPT ![Family(t)] = "broken"] ELSE fate
  BY DEF LoseAnswer, End, Gets
<1>4. /\ fate' \in [Tokens -> {"sound", "broken", "ended"}]
      /\ \A f \in Tokens : \/ fate'[f] = fate[f]
                           \/ fate'[f] = "broken" /\ fate[f] = "sound" /\ token[f] # None
      /\ t # None => fate'[Family(t)] # "sound"
  <2>1. fate \in [Tokens -> {"sound", "broken", "ended"}]
    BY DEF IInv, SInv, SessionTypes
  <2> HIDE DEF t
  <2>2. CASE t # None /\ fate[Family(t)] = "sound"
    BY <1>2, <1>3, <2>1, <2>2
  <2>3. CASE ~(t # None /\ fate[Family(t)] = "sound")
    BY <1>3, <2>1, <2>3
  <2> QED BY <2>2, <2>3
<1>5. SInv'
  <2>1. handler[h].pc = "answer" /\ handler[h].token # None =>
          fate'[Family(handler[h].token)] # "sound"
    BY <1>4
  <2>2. UNCHANGED <<token, cookie>>
    BY <1>3
  <2> HIDE DEF t
  <2> QED BY <1>3, <1>4, <2>1, <2>2, IdleIs, MoveStep DEF IInv, ForBrowser, Rotations
<1>6. AInv'
  <2>1. AccountOK(Idle)
    BY IdleIs DEF AccountOK
  <2> QED BY <1>3, <2>1, IdleIs, AccountsStay DEF IInv, SInv
<1> QED BY <1>5, <1>6 DEF IInv

\* No request is needed, and the row is new.
LEMMA ForgotPasswordPreserves ==
  ASSUME IInv, ForgotPassword
  PROVE  IInv'
<1>1. UNCHANGED <<user, identity, token, cookie, handler, fate>>
  BY DEF ForgotPassword
<1>2. SInv'
  BY <1>1 DEF IInv, SInv, SessionTypes, FamiliesOK, FateFresh, HandlersOK, SessionOK,
     CookiesOK, OneBrowser, Knows, UnknownNew, CookieLive, Successor, EndedStaysEnded,
     Rows, Family
<1>3. PICK r \in Resets, row \in Reset :
        reset[r] = None /\ ~row.used /\ reset' = [reset EXCEPT ![r] = row]
  <2>1. PICK u \in UserByEmail :
          reset' = [reset EXCEPT ![Unused(reset)] =
                      [user |-> u, used |-> FALSE, set |-> FALSE]]
    BY DEF ForgotPassword
  <2>2. u \in Users
    BY DEF UserByEmail, Rows, IInv, AInv, AccountTypes
  <2>3. PICK r \in Resets : r = Unused(reset) /\ reset[r] = None
    BY DEF ForgotPassword, Room, Rows, Unused, IInv, AInv, AccountTypes
  <2> DEFINE row == [user |-> u, used |-> FALSE, set |-> FALSE]
  <2>4. row \in Reset /\ ~row.used
    BY <2>2 DEF Reset
  <2> QED BY <2>1, <2>3, <2>4
<1>4. /\ reset' \in [Resets -> Reset \cup {None}] /\ reset'[r] = row
      /\ \A s \in Resets \ {r} : reset'[s] = reset[s]
  BY <1>3 DEF IInv, AInv, AccountTypes
<1>5. AccountTypes'
  BY <1>1, <1>4 DEF IInv, AInv, AccountTypes
<1>6. LinkNotBurned'
  BY <1>3, <1>4 DEF IInv, AInv, AccountTypes, LinkNotBurned, Rows
<1>7. ASSUME NEW h \in Handlers PROVE AccountOK(handler[h])'
  <2>1. AccountOK(handler[h]) /\ handler[h].reset \in Resets \cup {None}
    BY HandlerTyped DEF IInv, SInv, AInv
  <2> QED BY <1>1, <1>3, <1>4, <2>1, NoRow DEF AccountOK
<1> QED BY <1>2, <1>5, <1>6, <1>7 DEF IInv, AInv

-----------------------------------------------------------------------------
(***************************************************************************)
(* The theorems.                                                           *)
(***************************************************************************)
LEMMA InitInvariant ==
  ASSUME Init
  PROVE  IInv
<1>1. SessionTypes /\ AccountTypes
  BY IdleIs DEF Init, SessionTypes, AccountTypes
<1>2. /\ \A t \in Tokens : token[t] = None
      /\ \A h \in Handlers : handler[h] = Idle
      /\ \A b \in Browsers : cookie[b] = None
      /\ \A r \in Resets : reset[r] = None
      /\ \A f \in Tokens : fate[f] = "sound"
  BY DEF Init
<1>3. Rows(token) = {} /\ Rows(reset) = {}
  BY <1>1, <1>2 DEF Rows, SessionTypes, AccountTypes
<1>4. FamiliesOK /\ FateFresh /\ CookiesOK /\ CookieLive
        /\ EndedStaysEnded /\ LinkNotBurned
  BY <1>2, <1>3 DEF FamiliesOK, FateFresh, CookiesOK, CookieLive, EndedStaysEnded,
     LinkNotBurned
<1>5. HandlersOK /\ UnknownNew
  BY <1>2, IdleIs DEF HandlersOK, SessionOK, UnknownNew, ForBrowser, Rotations
<1>6. \A b \in Browsers, t \in Tokens : ~Knows(b, t)
  BY <1>2, IdleIs, NoRow DEF Knows
<1>7. OneBrowser
  BY <1>6 DEF OneBrowser
<1>8. \A h \in Handlers : AccountOK(handler[h])
  BY <1>2, IdleIs DEF AccountOK
<1> QED BY <1>1, <1>4, <1>5, <1>7, <1>8 DEF IInv, SInv, AInv

LEMMA RequestPreserves ==
  ASSUME IInv, NEW h \in Handlers,
         \/ \E b \in Browsers : \/ Register(h, b) \/ Login(h, b) \/ OAuthCallback(h, b)
                                \/ Refresh(h, b) \/ Logout(h, b)
         \/ \E r \in Resets : ResetPassword(h, r)
         \/ \E u \in Users : DeleteAccount(h, u)
  PROVE  IInv'
BY SignInPreserves, RefreshPreserves, LogoutPreserves, ResetPreserves, DeletePreserves

LEMMA StatementPreserves ==
  ASSUME IInv, NEW h \in Handlers,
         \/ FindUser(h) \/ InsertUser(h) \/ Link(h) \/ Issue(h)
         \/ CheckUser(h) \/ Rotate(h) \/ Retire(h) \/ RevokeFamily(h)
         \/ SetPassword(h) \/ MarkUsed(h) \/ DeleteUser(h) \/ RevokeAll(h)
         \/ Answer(h) \/ LoseAnswer(h) \/ Fail(h)
  PROVE  IInv'
<1>1. ASSUME Fail(h) PROVE IInv'
  BY <1>1, FailPreserves DEF Fail
<1> QED BY <1>1, FindUserPreserves, InsertUserPreserves, LinkPreserves, IssuePreserves,
       CheckUserPreserves, RotatePreserves, RetireKeeps, RevokeFamilyPreserves,
       SetPasswordPreserves, MarkUsedPreserves, DeleteUserPreserves, RevokeAllPreserves,
       AnswerPreserves, LoseAnswerPreserves

LEMMA NextPreserves ==
  ASSUME IInv, [Next]_vars
  PROVE  IInv'
<1>1. CASE Next
  BY <1>1, RequestPreserves, StatementPreserves, ForgotPasswordPreserves DEF Next
<1>2. CASE UNCHANGED vars
  <2>1. UNCHANGED <<user, identity, token, reset, cookie, handler, fate>>
    BY <1>2 DEF vars
  <2>2. SInv'
    BY <2>1 DEF IInv, SInv, SessionTypes, FamiliesOK, FateFresh, HandlersOK, SessionOK,
       CookiesOK, OneBrowser, Knows, UnknownNew, CookieLive, Successor, EndedStaysEnded,
       Rows, Family
  <2>3. AInv'
    BY <2>1 DEF IInv, AInv, AccountTypes, LinkNotBurned, AccountOK, Rows
  <2> QED BY <2>2, <2>3 DEF IInv
<1> QED BY <1>1, <1>2

LEMMA Invariant == Spec => []IInv
<1>1. Init => IInv
  BY InitInvariant
<1>2. IInv /\ [Next]_vars => IInv'
  BY NextPreserves
<1> QED BY <1>1, <1>2, PTL DEF Spec

\* The tables, the cookies and the requests in hand are always of their types.
THEOREM AuthTyped == Spec => []TypeOK
<1>1. IInv => TypeOK
  BY DEF IInv, SInv, AInv, SessionTypes, AccountTypes, TypeOK
<1> QED BY <1>1, Invariant, PTL

\* However many requests run at once and whichever of their statements fail, a
\* session that was revoked while no refresh had it in hand has no live token
\* again.
THEOREM RevocationIsFinal == Spec => []EndedStaysEnded
<1>1. IInv => EndedStaysEnded
  BY DEF IInv, SInv
<1> QED BY <1>1, Invariant, PTL

\* A browser none of whose answers was lost and none of whose refreshes
\* overlapped is signed in until its session is ended, whichever statements fail.
THEOREM NobodySignedOutByAnError == Spec => []SignedInStaysIn
<1>1. ASSUME IInv PROVE SignedInStaysIn
  <2>1. SUFFICES ASSUME NEW b \in Browsers, cookie[b] # None,
                        fate[Family(cookie[b])] = "sound",
                        Rotating(Family(cookie[b])) = {}
                 PROVE  token[cookie[b]].live
    BY DEF SignedInStaysIn
  <2>2. ASSUME NEW h \in Handlers, Successor(h, b, cookie[b]) PROVE FALSE
    BY <2>1, <2>2 DEF Successor, Rotating
  <2> QED BY <1>1, <2>1, <2>2 DEF IInv, SInv, CookieLive
<1> QED BY <1>1, Invariant, PTL

\* A reset link is spent only after it has set a password, so a reset that
\* stopped half-way can be repeated with it.
THEOREM ResetCanBeRepeated == Spec => []LinkNotBurned
<1>1. IInv => LinkNotBurned
  BY DEF IInv, AInv
<1> QED BY <1>1, Invariant, PTL
=============================================================================
