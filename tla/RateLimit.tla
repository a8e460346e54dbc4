------------------------------ MODULE RateLimit ------------------------------
(***************************************************************************)
(* The rolling-window limiter that all evaluation runs of a process share  *)
(* (evaluation/rate_limit.py).  Time is kept as ages: a granted request    *)
(* gets older with every tick, and an age of Window or more is all one.    *)
(***************************************************************************)
EXTENDS Integers, Sequences, SequencesExt, Lists

CONSTANTS
  Callers,   \* attempts that call acquire
  Window,    \* 60 seconds, in ticks
  Requests,  \* evaluation_requests_per_minute
  Tokens,    \* evaluation_tokens_per_minute
  Estimates, \* values of estimate_tokens
  Nobody     \* the lock is free

ASSUME LimiterAssumption ==
  /\ Window \in Nat \ {0} /\ Requests \in Nat \ {0} /\ Tokens \in Nat
  /\ Estimates \subseteq Nat \ {0}
  /\ Nobody \notin Callers

VARIABLES
  window,    \* _window: the deque of [age, tokens], the oldest first
  sinceLast, \* age of _last_request; Window when there is none
  queue,     \* callers waiting for the lock, in their order
  holder,    \* the caller that has the lock
  sleep,     \* ticks the holder still sleeps
  estimate,  \* estimate[c]: estimated_tokens of caller c
  granted    \* history: the requests granted in the last Window ticks

limiterVars == <<window, sinceLast, queue, holder, sleep, estimate, granted>>

MinimumInterval == Window \div Requests

Older(s) ==
  [i \in DOMAIN s |-> [age |-> IF s[i].age < Window THEN s[i].age + 1 ELSE s[i].age,
                       tokens |-> s[i].tokens]]

Used(s) == SumOver([i \in DOMAIN s |-> s[i].tokens], DOMAIN s)

\* now - self._window[0][0] >= 60
Expired(g) == g.age >= Window

\* popleft as long as the first one has expired.
Unexpired(s) ==
  LET live == {i \in DOMAIN s : ~Expired(s[i])}
  IN  IF live = {} THEN <<>> ELSE SubSeq(s, Min(live), Len(s))

LimiterTypeOK ==
  /\ window \in Seq([age: 0 .. Window, tokens: Estimates])
  /\ sinceLast \in 0 .. Window
  /\ queue \in Seq(Callers)
  /\ holder \in Callers \union {Nobody}
  /\ sleep \in 0 .. Window
  /\ estimate \in [Callers -> Estimates \union {0}]
  /\ granted \in Seq([age: 0 .. Window, tokens: Estimates])

LimiterInit ==
  /\ window = <<>>
  /\ sinceLast = Window
  /\ queue = <<>>
  /\ holder = Nobody
  /\ sleep = 0
  /\ estimate = [c \in Callers |-> 0]
  /\ granted = <<>>

\* acquire(n) reaches the lock; a request over the whole budget is refused first.
Enter(c, n) ==
  /\ c # holder /\ c \notin ToSet(queue)
  /\ n <= Tokens
  /\ estimate' = [estimate EXCEPT ![c] = n]
  /\ queue' = Append(queue, c)
  /\ UNCHANGED <<window, sinceLast, holder, sleep, granted>>

\* Mutant of Lock: last come, first served.
LockLast ==
  /\ holder = Nobody /\ queue # <<>>
  /\ holder' = Last(queue)
  /\ queue' = Front(queue)
  /\ UNCHANGED <<window, sinceLast, sleep, estimate, granted>>

\* async with self._lock: first come, first served.
Lock ==
  /\ holder = Nobody /\ queue # <<>>
  /\ holder' = Head(queue)
  /\ queue' = Tail(queue)
  /\ UNCHANGED <<window, sinceLast, sleep, estimate, granted>>

\* Mutant of Full: the request's own tokens are not counted.
FullWithout(s, n) == Len(s) >= Requests \/ Used(s) >= Tokens

Full(s, n) == Len(s) >= Requests \/ Used(s) + n > Tokens

\* The seconds that one turn of the loop sleeps before the next; 0: none.
Wait(s, n) ==
  LET interval == IF sinceLast < MinimumInterval THEN MinimumInterval - sinceLast ELSE 0
      room     == IF Full(s, n) THEN Window - Head(s).age ELSE 0
  IN  IF interval > room THEN interval ELSE room

\* One turn of the loop: sleep with the lock held, or take the request's place in
\* the window at a second reading of the clock, which may have moved on by a tick.
Turn ==
  LET s == Unexpired(window)
      n == estimate[holder]
  IN
  /\ holder # Nobody /\ sleep = 0
  /\ \/ /\ Wait(s, n) > 0
        /\ window' = s
        /\ sleep' = Wait(s, n)
        /\ UNCHANGED <<sinceLast, queue, holder, estimate, granted>>
     \/ /\ Wait(s, n) = 0
        /\ \E late \in BOOLEAN :
             LET now == [age |-> 0, tokens |-> n] IN
             /\ window' = Append(IF late THEN Older(s) ELSE s, now)
             /\ granted' = Append(Unexpired(IF late THEN Older(granted) ELSE granted), now)
        /\ sinceLast' = 0
        /\ holder' = Nobody
        /\ estimate' = [estimate EXCEPT ![holder] = 0]
        /\ UNCHANGED <<queue, sleep>>

\* The attempt is cancelled while it waits or sleeps; the lock is released.
Abandon(c) ==
  /\ \/ /\ c = holder
        /\ holder' = Nobody /\ sleep' = 0
        /\ UNCHANGED queue
     \/ /\ c \in ToSet(queue)
        /\ queue' = Pick(queue, {i \in DOMAIN queue : queue[i] # c})
        /\ UNCHANGED <<holder, sleep>>
  /\ estimate' = [estimate EXCEPT ![c] = 0]
  /\ UNCHANGED <<window, sinceLast, granted>>

Tick ==
  /\ window' = Older(window)
  /\ granted' = Unexpired(Older(granted))
  /\ sinceLast' = IF sinceLast < Window THEN sinceLast + 1 ELSE sinceLast
  /\ sleep' = IF sleep > 0 THEN sleep - 1 ELSE 0
  /\ UNCHANGED <<queue, holder, estimate>>

LimiterNext ==
  \/ \E c \in Callers : Abandon(c) \/ \E n \in Estimates : Enter(c, n)
  \/ Lock \/ Turn \/ Tick

LimiterFairness == WF_limiterVars(Lock) /\ WF_limiterVars(Turn) /\ WF_limiterVars(Tick)

LimiterSpec == LimiterInit /\ [][LimiterNext]_limiterVars /\ LimiterFairness

-----------------------------------------------------------------------------
\* "rolling-window limiter": whatever 60 seconds one looks at, at most Requests
\* requests with at most Tokens estimated tokens were granted in them, also after
\* callers gave up while they held the lock.
LimitRespected == Len(granted) <= Requests /\ Used(granted) <= Tokens

\* Whoever waits for the limiter is served, or gives up: no sleep is repeated for
\* ever, and the window always gets room for a request within the budget.
EveryoneServed == \A c \in Callers : estimate[c] > 0 ~> estimate[c] = 0
=============================================================================
