----------------------------- MODULE GitHubClient -----------------------------
(***************************************************************************)
(* The client of one connection: calls to GitHub run concurrently, share a *)
(* cached installation token, the end of the current rate limit and the    *)
(* backoff for secondary limits, and interleave wherever they wait: for    *)
(* the token lock, for a new token, for an answer.  Times are counted down *)
(* in units of the first backoff (60 s).                                   *)
(***************************************************************************)
EXTENDS Integers, FiniteSets

CONSTANTS Call,        \* what calls the client: polls, the reconcile loop, the API
          Attempts,    \* attempts of one call (3)
          Cap,         \* longest backoff (900 s)
          RetryAfter,  \* the retry-after header of an answer that has one
          Reset,       \* time until a primary limit is reset
          MaxFaults    \* outages, limits, revocations and reinstallations

Base == 1
Nobody == [nobody |-> TRUE]

ASSUME ClientAssumption ==
  /\ Nobody \notin Call
  /\ Attempts \in Nat \ {0} /\ Cap \in Nat \ {0} /\ RetryAfter \in Nat \ {0} /\ Reset \in Nat \ {0}
  /\ MaxFaults \in Nat

VARIABLES
  call,      \* per caller: where its call is
  last,      \* per caller: how its last call ended
  cache,     \* _installation_token
  lock,      \* the call that holds the token lock
  window,    \* _rate_limited_until
  backoff,   \* _secondary_backoff_seconds
  stored,    \* the installation id in the connection store
  github,    \* GitHub: its installation, the tokens it accepts, its primary limit
  pause,     \* history: the last pause for a secondary limit since the last success
  faults

vars == <<call, last, cache, lock, window, backoff, stored, github, pause, faults>>

NoToken == [epoch |-> -1, by |-> Nobody]
Idle == [pc |-> "idle", attempt |-> 0, retried |-> FALSE, cred |-> 0,
         token |-> NoToken, answer |-> "none"]

Least(a, b) == IF a <= b THEN a ELSE b
Most(a, b) == IF a >= b THEN a ELSE b
Down(n) == Most(0, n - 1)

Fault == faults < MaxFaults /\ faults' = faults + 1

---------------------------------------------------------------------------

\* The caches are empty, the installation is the stored one.
Init ==
  /\ call = [c \in Call |-> Idle]
  /\ last = [c \in Call |-> "none"]
  /\ cache = NoToken /\ lock = Nobody
  /\ window = 0 /\ backoff = Base /\ pause = 0
  /\ stored = 0
  /\ github = [installation |-> 0, epoch |-> 0, limited |-> 0]
  /\ faults = 0

At(c, pc) == call[c].pc = pc
EndCall(c, how) == call' = [call EXCEPT ![c] = Idle] /\ last' = [last EXCEPT ![c] = how]

\* request: refused at once while a limit is known, otherwise a token is asked for,
\* with the credentials of this moment.
Begin(c) ==
  /\ At(c, "idle")
  /\ IF window > 0 THEN EndCall(c, "limited")
     ELSE /\ call' = [call EXCEPT ![c].pc = "token", ![c].cred = stored]
          /\ UNCHANGED last
  /\ UNCHANGED <<cache, lock, window, backoff, stored, github, pause, faults>>

---------------------------------------------------------------------------
(* GitHubAuth.token *)

\* After a 401 the cached token will not do, whoever put it there.
CacheServesAll(c) == cache # NoToken
CacheServes(c) == cache # NoToken /\ ~call[c].retried

TakeToken(c) ==
  /\ At(c, "token") /\ lock = Nobody
  /\ IF CacheServes(c)
     THEN call' = [call EXCEPT ![c].pc = "send", ![c].token = cache] /\ UNCHANGED lock
     ELSE call' = [call EXCEPT ![c].pc = "mint", ![c].token = NoToken] /\ lock' = c
  /\ UNCHANGED <<last, cache, window, backoff, stored, github, pause, faults>>

\* GitHub makes a token for the installation that was asked for.
Mint(c) ==
  /\ At(c, "mint") /\ call[c].cred = github.installation
  /\ call' = [call EXCEPT ![c].pc = "minted", ![c].token = [epoch |-> github.epoch, by |-> c]]
  /\ UNCHANGED <<last, cache, lock, window, backoff, stored, github, pause, faults>>

\* A call whose last attempt was refused has none left for its new token.
Minted(c) ==
  /\ At(c, "minted")
  /\ cache' = call[c].token
  /\ IF call[c].attempt = Attempts THEN EndCall(c, "failed")
     ELSE call' = [call EXCEPT ![c].pc = "send"] /\ UNCHANGED last
  /\ lock' = Nobody
  /\ UNCHANGED <<window, backoff, stored, github, pause, faults>>

\* The lock is released whatever the answer.
ReleasedOnSuccess == lock
Released == Nobody
MintFails(c) ==
  /\ At(c, "mint")
  /\ IF call[c].cred = github.installation THEN Fault ELSE UNCHANGED faults
  /\ EndCall(c, "failed")
  /\ lock' = Released
  /\ UNCHANGED <<cache, window, backoff, stored, github, pause>>

---------------------------------------------------------------------------
(* GitHubClient.request *)

\* GitHub receives the request and answers.
Serve(c) ==
  /\ At(c, "send")
  /\ \E a \in {"ok", "unauthorized", "primary", "secondary", "retry_after", "error", "unavailable", "lost"} :
       /\ CASE call[c].token.epoch # github.epoch -> a = "unauthorized" /\ UNCHANGED faults
            [] call[c].token.epoch = github.epoch /\ github.limited > 0 -> a = "primary" /\ UNCHANGED faults
            [] OTHER -> \/ a = "ok" /\ UNCHANGED faults
                        \/ a \notin {"ok", "unauthorized", "primary"} /\ Fault
       /\ call' = [call EXCEPT ![c].pc = "answer", ![c].answer = a]
  /\ UNCHANGED <<last, cache, lock, window, backoff, stored, github, pause>>

Answered(c, a) == At(c, "answer") /\ call[c].answer = a

\* Succeeding says nothing about a limit another call met.
WindowCleared == 0
WindowLeft == window
Success(c) ==
  /\ Answered(c, "ok")
  /\ EndCall(c, "ok")
  /\ window' = WindowLeft /\ backoff' = Base /\ pause' = 0
  /\ UNCHANGED <<cache, lock, stored, github, faults>>

\* The first 401 of a call drops the cached token and asks for a new one.
NeverRetries(c) == FALSE
MayRetry(c) == ~call[c].retried
Unauthorized(c) ==
  /\ Answered(c, "unauthorized")
  /\ IF MayRetry(c)
     THEN /\ cache' = NoToken
          /\ call' = [call EXCEPT ![c] = [Idle EXCEPT !.pc = "token", !.attempt = call[c].attempt + 1,
                                                      !.retried = TRUE, !.cred = stored]]
          /\ UNCHANGED last
     ELSE EndCall(c, "failed") /\ UNCHANGED cache
  /\ UNCHANGED <<lock, window, backoff, stored, github, pause, faults>>

\* _rate_limit_delay: what limits, for how long, and what comes next.
NextDoubled(delay) == Least(Cap, backoff * 2)
NextUncapped(delay) == Most(backoff * 2, delay * 2)
NextBackoff(delay) == Least(Cap, Most(backoff * 2, delay * 2))
Limited(c) ==
  /\ EndCall(c, "limited")
  /\ \/ /\ Answered(c, "primary")
        /\ window' = Most(1, github.limited)
        /\ UNCHANGED <<backoff, pause>>
     \/ \E delay \in {IF call[c].answer = "secondary" THEN backoff ELSE RetryAfter} :
          /\ Answered(c, "secondary") \/ Answered(c, "retry_after")
          /\ window' = delay /\ pause' = delay
          /\ backoff' = NextBackoff(delay)
  /\ UNCHANGED <<cache, lock, stored, github, faults>>

\* Outages and 5xx are tried again until the attempts are used up; any other error
\* fails the call.
TryAgain(c) ==
  /\ Answered(c, "unavailable") \/ Answered(c, "lost")
  /\ IF call[c].attempt < Attempts - 1
     THEN /\ call' = [call EXCEPT ![c].pc = "send", ![c].attempt = @ + 1, ![c].answer = "none"]
          /\ UNCHANGED last
     ELSE EndCall(c, "failed")
  /\ UNCHANGED <<cache, lock, window, backoff, stored, github, pause, faults>>
Fail(c) ==
  /\ Answered(c, "error")
  /\ EndCall(c, "failed")
  /\ UNCHANGED <<cache, lock, window, backoff, stored, github, pause, faults>>

---------------------------------------------------------------------------
(* Time, GitHub and the administrator *)

Tick ==
  /\ window' = Down(window)
  /\ github' = [github EXCEPT !.limited = Down(@)]
  /\ UNCHANGED <<call, last, cache, lock, backoff, stored, pause, faults>>

\* The cached token is within five minutes of its end.
Expire ==
  /\ cache' = NoToken
  /\ UNCHANGED <<call, last, lock, window, backoff, stored, github, pause, faults>>

\* The primary limit is used up; tokens are revoked; the App is installed anew.
Disturb ==
  /\ Fault
  /\ \/ github.limited = 0 /\ github' = [github EXCEPT !.limited = Reset]
     \/ github' = [github EXCEPT !.epoch = @ + 1]
     \/ github' = [github EXCEPT !.epoch = @ + 1, !.installation = @ + 1]
  /\ UNCHANGED <<call, last, cache, lock, window, backoff, stored, pause>>

\* validate_installation: the new installation is stored and the token dropped,
\* without the lock.
Reconnect ==
  /\ stored # github.installation
  /\ stored' = github.installation /\ cache' = NoToken
  /\ UNCHANGED <<call, last, lock, window, backoff, github, pause, faults>>

---------------------------------------------------------------------------

Step(c) == Mint(c) \/ Minted(c) \/ MintFails(c) \/ Serve(c) \/ Success(c)
             \/ Unauthorized(c) \/ Limited(c) \/ TryAgain(c) \/ Fail(c)

Next == Tick \/ Expire \/ Disturb \/ Reconnect \/ \E c \in Call : Begin(c) \/ TakeToken(c) \/ Step(c)

\* Callers come back; every request ends within httpx's timeout of 30 s; asyncio.Lock
\* serves its waiters in turn; the administrator follows GitHub's redirect.
Fairness ==
  /\ WF_vars(Tick) /\ WF_vars(Reconnect)
  /\ \A c \in Call : WF_vars(Begin(c)) /\ SF_vars(TakeToken(c)) /\ WF_vars(Step(c))

Spec == Init /\ [][Next]_vars
FairSpec == Spec /\ Fairness
==============================================================================
