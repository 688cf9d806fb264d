------------------------ MODULE GitHubClientProperties ------------------------
(***************************************************************************)
(* What the GitHub client promises its callers.                            *)
(***************************************************************************)
EXTENDS GitHubClient

\* Every variable has its type: a call makes at most three attempts, the backoff
\* stays within its bounds, and a call that asks for a token holds the lock.
TypeOK ==
  /\ \A c \in Call :
       /\ call[c].pc \in {"idle", "token", "mint", "minted", "send", "answer"}
       /\ call[c].attempt \in 0..Attempts
       /\ call[c].pc = "send" => call[c].attempt < Attempts
       /\ call[c].pc \in {"mint", "minted"} => lock = c
  /\ last \in [Call -> {"none", "ok", "limited", "failed"}]
  /\ cache.epoch \in -1..MaxFaults
  /\ window \in Nat /\ backoff \in Base..Cap /\ pause \in Nat
  /\ stored \in 0..MaxFaults /\ faults \in 0..MaxFaults

---------------------------------------------------------------------------

\* A call that GitHub refused tries again with a token it asked for itself after the
\* refusal: not with the one another call was waiting for at that moment, which may
\* be just as stale (github.py 450-479, 711-715).
RetryAsksAnew ==
  \A c \in Call : call[c].retried /\ call[c].pc \in {"send", "answer"} => call[c].token.by = c

\* Until a call succeeds, each pause for a secondary limit will be at least twice
\* the one before it, up to the longest (github.py 664-684).
BackoffGrows == backoff >= Least(Cap, 2 * pause)

\* Calls that were sent before a limit was met and succeed after it do not end the
\* pause: only time does, or the answer to another limited call (github.py 716-722).
PauseKept ==
  [][window' < window =>
       window' = window - 1 \/ \E c \in Call : last'[c] = "limited" /\ call[c].pc = "answer"]_vars

\* Every call comes to an end (github.py 450-475, 690-756).
CallsEnd == \A c \in Call : call[c].pc # "idle" ~> call[c].pc = "idle"

\* Once GitHub is well again, the administrator has followed the redirect and no
\* limit is in force, every call succeeds: no stale token, credential or pause stays
\* behind (github.py 441-479, 690-756, 870).
ServiceRestored == <>[](\A c \in Call : last[c] = "ok")

---------------------------------------------------------------------------

\* README.md:515: "EasyRunners honors primary reset headers": a pause that lasts until
\* the reset is not cut short.
PrimaryHonored ==
  [][window >= github.limited => window' >= github'.limited \/ github.limited = 0]_vars
==============================================================================
