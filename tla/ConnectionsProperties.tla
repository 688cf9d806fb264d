------------------------ MODULE ConnectionsProperties ------------------------
(***************************************************************************)
(* What onboarding and the connection store promise.                       *)
(***************************************************************************)
EXTENDS Connections

\* Every variable has its type; a connection of the environment never has secret
\* files, and a handler never waits while the manager is down.
TypeOK ==
  /\ rows \in [Id -> Row]
  /\ files \in [Id -> SUBSET Secrets] /\ \A i \in Env : files[i] = {}
  /\ root \in SUBSET Secrets
  /\ setting \in BOOLEAN
  /\ states \in [Id -> {"none", "open", "expired"}]
  /\ env \in BOOLEAN /\ up \in BOOLEAN
  /\ github \in [Id -> {"none", "app", "empty", "repos"}]
  /\ task \in [Handler -> Task] /\ (~up => \A h \in Handler : task[h] = NoTask)
  /\ gone \in SUBSET Id /\ torn \in SUBSET Id

---------------------------------------------------------------------------
(* Rows and files *)

\* Whenever requests are served, an onboarded connection has both its secrets,
\* wherever a crash interrupted onboarding, disconnection or migration: a row
\* without its key could neither be used nor leave room for its owner
\* (github.py 280-301, 379-387, 397-415).
RowHasSecrets ==
  up => \A i \in Stored \ Env : files[i] = Secrets

\* Secrets lie on the disk only for a stored connection, or for one whose
\* onboarding or disconnection a crash interrupted; the loser of two setups for
\* one owner leaves none behind (github.py 277-284).
SecretsHaveRow ==
  \A i \in Id : files[i] # {} => i \in Stored \cup torn

\* A connection that was disconnected does not come back, whatever handlers and
\* polls were waiting for GitHub when it went (github.py 326-346, 357-368).
NoResurrection == gone \cap Stored = {}

\* docs/ARCHITECTURE.md:19: one connection per owner, also when the environment
\* names an owner that is onboarded, before or after a restart (github.py 175-180).
OneConnectionPerOwner ==
  up => \A i, j \in Listed : OwnerOf[i] = OwnerOf[j] => i = j

\* The connection of an older release is never lost: until its migration is
\* complete the setting and each secret are still somewhere to start again from
\* (github.py 388-416).
Existed == github[Legacy] # "none"
LegacyKept ==
  Existed /\ Legacy \notin gone =>
    \/ setting /\ Secrets \subseteq root \cup files[Legacy]
    \/ rows[Legacy] # "none" /\ files[Legacy] = Secrets

---------------------------------------------------------------------------
(* Handlers *)

\* A one-time setup state is exchanged once, however often the redirect is
\* followed (database.py 297-307, api.py 924).
SetupUsedOnce ==
  \A h, g \in Handler :
    (task[h].op = "convert" /\ task[g].op = "convert" /\ task[h].id = task[g].id) =>
      h = g /\ rows[task[h].id] = "none"

\* Only a validation makes a registered connection an installed one: a poll that
\* began before the installation was taken back does not bring it back
\* (github.py 357-368, 1045-1049).
InstalledByValidation ==
  [][\A i \in Onboarded : (rows[i] = "registered" /\ rows'[i] = "installed") =>
       \E h \in Handler : task[h].op = "check" /\ task[h].id = i]_vars

---------------------------------------------------------------------------
(* The abstract registry *)

\* A connection counts from its last secret or its row, whichever is written later,
\* until its row goes.
Whole(i) == rows[i] # "none" /\ (i \in Env \/ files[i] = Secrets)
StageOf == [i \in Id |-> IF Whole(i) THEN rows[i] ELSE "none"]
UnderWay == {i \in Id : states[i] = "open" \/ \E h \in Handler : task[h].op = "convert" /\ task[h].id = i}

Registry == INSTANCE ConnectionRegistry WITH
  stage <- StageOf, offered <- UnderWay, retired <- gone

\* Onboarding, validation, polls, disconnection and migration, with their waits, their
\* several writes and crashes between any two of them, implement module
\* ConnectionRegistry: every step moves one connection by one stage, at once, and
\* only when its setup, its owner and its end allow it (github.py 277-416, 880-941).
ImplementsRegistry == Registry!Spec

---------------------------------------------------------------------------
(* What an error message says *)

\* api.py:993, the refusal to disconnect: "this GitHub connection is managed
\* through environment configuration".
RefusedOnlyIfConfigured ==
  up => \A i \in Stored : i \notin Env \/ env
==============================================================================
