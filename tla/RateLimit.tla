----------------------------- MODULE RateLimit -----------------------------
(***************************************************************************)
(* The fixed-window rate limiter of the API (backend/internal/platform/    *)
(* server/ratelimit.go), in its two forms: counters in the memory of the   *)
(* process, under a mutex, or in Redis, one key per client and window.     *)
(*                                                                         *)
(* Both read the clock before they get to the counter, so a request is two *)
(* steps, at most MaxDelay ticks apart, and others come between.           *)
(***************************************************************************)
EXTENDS Integers, Functions

CONSTANTS
  Requests,        \* handlers at work at once
  Clients,         \* what keyFn or the client's address tells apart
  Limit, Window,   \* requests a window may have, and its length in ticks
  MaxDelay,        \* ticks between a clock reading and its use
  LastTick,        \* bound on the clock
  None

VARIABLES
  rdb,        \* whether there is a Redis: redisLimiter, else memoryLimiter
  now,
  reading,    \* Requests -> [client, at], the clock reading, or None
  bucket,     \* <<client, window>> -> [count, end], or None; the memory has one window
  lastGC,
  admitted    \* Clients -> clock reading -> how many requests with that reading
              \* were let through (history, of the readings that share an interval
              \* of a window's length with one that is still to come)

limitVars == <<rdb, now, reading, bucket, lastGC, admitted>>

Ticks == 0..LastTick
Windows == 0..(LastTick \div Window)
LimitInit ==
  /\ rdb \in BOOLEAN
  /\ now = 0
  /\ reading = [r \in Requests |-> None]
  /\ bucket = [k \in Clients \X Windows |-> None]
  /\ lastGC = 0
  /\ admitted = [c \in Clients |-> [at \in Ticks |-> 0]]

Tick ==
  /\ now < LastTick /\ now' = now + 1
  /\ \A r \in Requests : reading[r] # None => now' <= reading[r].at + MaxDelay
  /\ bucket' = [k \in DOMAIN bucket |->                     \* EXPIRE
       IF rdb /\ bucket[k] # None /\ now' >= bucket[k].end THEN None ELSE bucket[k]]
  /\ admitted' = [c \in Clients |-> [at \in Ticks |->
       IF at > now' - MaxDelay - Window THEN admitted[c][at] ELSE 0]]
  /\ UNCHANGED <<rdb, reading, lastGC>>

\* time.Now() in Allow
ReadClock(r, c) ==
  /\ reading[r] = None
  /\ reading' = [reading EXCEPT ![r] = [client |-> c, at |-> now]]
  /\ UNCHANGED <<rdb, now, bucket, lastGC, admitted>>

Answer(r, allowed) ==
  LET c == reading[r].client IN
  /\ reading' = [reading EXCEPT ![r] = None]
  /\ admitted' = IF allowed THEN [admitted EXCEPT ![c][reading[r].at] = @ + 1] ELSE admitted
  /\ UNCHANGED <<rdb, now>>

-----------------------------------------------------------------------------
\* gcLocked: at most once per window, the windows that are over by the reading
\* of this request are dropped.
Over(b, at) == b = None \/ at > b.end
Collected(at) ==
  IF at - lastGC < Window THEN bucket
  ELSE [k \in DOMAIN bucket |-> IF Over(bucket[k], at) THEN None ELSE bucket[k]]

\* A count includes the request itself, and is not told apart from others over
\* the limit.  (Bug_Refused is a plausible slip in Refused.)
Counted(n) == IF n > Limit THEN n ELSE n + 1
Bug_Refused(count) == count - 1 > Limit
Refused(count) == count > Limit

\* memoryLimiter.Allow, from the lock on
MemoryAllow(r) ==
  /\ ~rdb /\ reading[r] # None
  /\ LET at == reading[r].at
         kept == Collected(at)
         k == <<reading[r].client, 0>>
     IN /\ lastGC' = IF at - lastGC < Window THEN lastGC ELSE at
        /\ IF Over(kept[k], at)
           THEN /\ bucket' = [kept EXCEPT ![k] = [count |-> 1, end |-> at + Window]]
                /\ Answer(r, TRUE)
           ELSE /\ bucket' = [kept EXCEPT ![k].count = Counted(@)]
                /\ Answer(r, ~Refused(Counted(kept[k].count)))

\* redisLimiter.Allow, from the pipeline on: the window is that of the reading,
\* and its key lives for a window from now.
RedisAllow(r) ==
  /\ rdb /\ reading[r] # None
  /\ LET k == <<reading[r].client, reading[r].at \div Window>>
         count == IF bucket[k] = None THEN 1 ELSE Counted(bucket[k].count)
     IN /\ bucket' = [bucket EXCEPT ![k] = [count |-> count, end |-> now + Window]]
        /\ Answer(r, ~Refused(count))
  /\ UNCHANGED lastGC

\* It fails open: the request is let through uncounted.
RedisFails(r) ==
  /\ rdb /\ reading[r] # None
  /\ reading' = [reading EXCEPT ![r] = None]
  /\ UNCHANGED <<rdb, now, bucket, lastGC, admitted>>

LimitNext ==
  \/ Tick
  \/ \E r \in Requests : \/ \E c \in Clients : ReadClock(r, c)
                         \/ MemoryAllow(r) \/ RedisAllow(r) \/ RedisFails(r)

-----------------------------------------------------------------------------
\* The requests that one client gets through within the length of a window are
\* those of three windows at most, wherever the interval begins: of the two that
\* meet in it, and of one more that requests open which get to their counter when
\* it is gone.  Those that Redis failed to count do not count.
Within(t) == {at \in Ticks : t <= at /\ at < t + Window}
AtMostThrice ==
  \A c \in Clients, t \in Ticks : SumFunctionOnSet(admitted[c], Within(t)) <= 3 * Limit
=============================================================================
