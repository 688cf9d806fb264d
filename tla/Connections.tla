----------------------------- MODULE Connections -----------------------------
(***************************************************************************)
(* The GitHub connections of the manager: onboarding through an App        *)
(* manifest, validation of the installation, polling, disconnection and    *)
(* the migration of the single connection of older releases.  A connection *)
(* is a row of SQLite and two secret files; the two are written one after  *)
(* the other, so the process may go down between any two writes.  Handlers *)
(* interleave at every request to GitHub; between requests they run alone. *)
(***************************************************************************)
EXTENDS Integers, FiniteSets, Sequences

CONSTANTS Id,           \* connection ids
          Onboarded,    \* those of setup requests (uuid4: used once)
          Legacy,       \* the id of the connection an older release left
          Env,          \* ids derived from the environment's owner, of Apps
          Owner, OwnerOf,
          RepoScoped,   \* connections whose runners belong to repositories
          Handler,      \* concurrent HTTP handlers and polls
          Events        \* which of the optional faults happen

ASSUME ConnectionsAssumption ==
  /\ Onboarded \subseteq Id /\ Env \subseteq Id /\ Legacy \in Id
  /\ Onboarded \cap Env = {} /\ Legacy \notin Onboarded \cup Env
  /\ OwnerOf \in [Id -> Owner]
  /\ \A d, e \in Env : OwnerOf[d] = OwnerOf[e] => d = e
  /\ RepoScoped \subseteq Id

VARIABLES
  rows,      \* github_connections: registered (no installation id) or installed
  files,     \* data/github/<id>: the secrets that are there
  root,      \* data/github: the secrets of the older release
  setting,   \* the setting github_connection of the older release
  states,    \* setup_states: one-time tokens of the manifest flow
  env,       \* the environment configures the connections of Env
  github,    \* what GitHub has: no App, the App, its installation without or with repositories
  up,        \* the manager runs
  task,      \* what a handler waits for
  gone,      \* history: connections that were disconnected
  torn       \* history: connections a crash caught between two writes

disk == <<rows, files, root, setting, states>>
vars == <<disk, env, github, up, task, gone, torn>>

Secrets == {"pem", "hook"}
Row == {"none", "registered", "installed"}
NoTask == [op |-> "none"]
Task == {NoTask} \cup [op : {"convert", "check", "list", "scan"}, id : Id, row : Row]

---------------------------------------------------------------------------
(* The store *)

Stored == {i \in Id : rows[i] # "none"}

\* connections(): the rows, and in automatic mode the environment's connection
\* of an owner that has no row.
ListedAll == Stored \cup {e \in Env : env}
Listed == Stored \cup {e \in Env : env /\ \A i \in Stored : OwnerOf[i] # OwnerOf[e]}
find_by_owner(o) == {i \in Listed : OwnerOf[i] = o}

\* credentials(connection_id, require_installation=False): an onboarded row needs
\* its key, an environment connection the environment.
environment(i) == i \in Env /\ env
onboarded(i) == i \notin Env /\ rows[i] # "none" /\ "pem" \in files[i]
Usable(i) == i \in Listed /\ (environment(i) \/ onboarded(i))
Installed(i) == Usable(i) /\ (i \in Env \/ rows[i] = "installed")

\* save_installation, update_repository_metadata: what is written is the stored
\* connection as read again after the wait; nothing when it is gone.
StoreRowBlind(i, row) == rows' = [rows EXCEPT ![i] = row]
StoreRow(i, row) ==
  IF Usable(i) THEN rows' = [rows EXCEPT ![i] = row] ELSE UNCHANGED rows

\* For a connection of the environment credentials() answers with the environment's
\* own, whose installation id is always set, whatever its row says.
CurrentRowCaptured(t) == t.row
CurrentRow(t) == IF t.id \in Env THEN "installed" ELSE rows[t.id]

save_installation(i, row) == StoreRow(i, row)
update_repository_metadata(t) == StoreRow(t.id, CurrentRow(t))

\* Each list of writes, and the disk after the first k of them.
SavedFirst(i, k) ==
  /\ files' = [files EXCEPT ![i] = @ \cup (IF k >= 1 THEN {"pem"} ELSE {})
                                     \cup (IF k >= 2 THEN {"hook"} ELSE {})]
  /\ rows' = IF k >= 3 THEN [rows EXCEPT ![i] = "registered"] ELSE rows
RowFirst(i, k) ==
  /\ rows' = IF k >= 1 THEN [rows EXCEPT ![i] = "registered"] ELSE rows
  /\ files' = [files EXCEPT ![i] = @ \cup (IF k >= 2 THEN {"pem"} ELSE {})
                                     \cup (IF k >= 3 THEN {"hook"} ELSE {})]
Saved(i, k) == SavedFirst(i, k)

Erased(i, k) ==
  /\ rows' = IF k >= 1 THEN [rows EXCEPT ![i] = "none"] ELSE rows
  /\ files' = [files EXCEPT ![i] = @ \ ((IF k >= 2 THEN {"pem"} ELSE {})
                                        \cup (IF k >= 3 THEN {"hook"} ELSE {}))]

\* _migrate_legacy_onboarding: the row, unless the owner has one, then each file
\* that is not there yet, then the setting.
MigrationTarget ==
  LET same == {i \in Stored : OwnerOf[i] = OwnerOf[Legacy]}
  IN  IF same = {} THEN Legacy ELSE CHOOSE i \in same : TRUE
Moved(i, k) == ((IF k >= 2 THEN {"pem"} ELSE {}) \cup (IF k >= 3 THEN {"hook"} ELSE {}))
                 \cap (root \ files[i])
SettingFirst(k) == setting /\ k < 1
SettingLast(k) == setting /\ k < 4
SettingKept(k) == SettingLast(k)
Migrated(k) ==
  IF ~setting THEN UNCHANGED <<rows, files, root, setting>>
  ELSE LET i == MigrationTarget IN
       /\ rows' = IF k >= 1 /\ rows[i] = "none" THEN [rows EXCEPT ![i] = "installed"] ELSE rows
       /\ files' = [files EXCEPT ![i] = @ \cup Moved(i, k)]
       /\ root' = root \ Moved(i, k)
       /\ setting' = SettingKept(k)

---------------------------------------------------------------------------

Init ==
  /\ rows = [i \in Id |-> "none"]
  /\ files = [i \in Id |-> {}]
  /\ \/ setting = TRUE /\ root = Secrets /\ github = [i \in Id |-> IF i \in Onboarded THEN "none" ELSE "repos"]
     \/ setting = FALSE /\ root = {} /\ github = [i \in Id |-> IF i \in Env THEN "repos" ELSE "none"]
  /\ states = [i \in Id |-> "none"]
  /\ env \in IF Env = {} THEN {FALSE} ELSE BOOLEAN
  /\ up = FALSE
  /\ task = [h \in Handler |-> NoTask]
  /\ gone = {} /\ torn = {}

\* The process is down: what handlers were waiting for is lost.
DownKeepsTasks == up' = FALSE /\ UNCHANGED task
Down == up' = FALSE /\ task' = [h \in Handler |-> NoTask]

Done(h) == task' = [task EXCEPT ![h] = NoTask]
Wait(h, op, i) == task' = [task EXCEPT ![h] = [op |-> op, id |-> i, row |-> rows[i]]]
Idle(h) == up /\ task[h] = NoTask
Waits(h, op) == up /\ task[h].op = op

Unused(i) == /\ i \in Onboarded /\ rows[i] = "none" /\ files[i] = {} /\ states[i] = "none"
             /\ github[i] = "none" /\ i \notin gone

---------------------------------------------------------------------------
(* Onboarding *)

\* The owner is looked up on GitHub, and refused when it is connected.
resolve_setup(i) == find_by_owner(OwnerOf[i]) = {}

\* github_manifest; a request that names its target in full is not resolved.
OfferSetup(i) ==
  /\ up /\ Unused(i)
  /\ "direct" \in Events \/ resolve_setup(i)
  /\ states' = [states EXCEPT ![i] = "open"]
  /\ UNCHANGED <<rows, files, root, setting, env, github, up, task, gone, torn>>

Expire(i) ==
  /\ states[i] = "open"
  /\ states' = [states EXCEPT ![i] = "expired"]
  /\ UNCHANGED <<rows, files, root, setting, env, github, up, task, gone, torn>>

\* github_callback: GitHub created the App; the one-time state is consumed before
\* the code is exchanged.
ConsumedLater(i) == states
Consumed(i) == [states EXCEPT ![i] = "none"]
Callback(h, i) ==
  /\ Idle(h) /\ states[i] # "none"
  /\ states' = Consumed(i)
  /\ github' = [github EXCEPT ![i] = "app"]
  /\ IF states[i] = "open" THEN Wait(h, "convert", i) ELSE UNCHANGED task
  /\ UNCHANGED <<rows, files, root, setting, env, up, gone, torn>>

\* convert_manifest and save_manifest_result.  The owner is asked for again: it may
\* have been connected while the code was exchanged.
OwnerTakenUnchecked(i) == FALSE
OwnerTaken(i) == \E j \in find_by_owner(OwnerOf[i]) : j # i
\* owner is UNIQUE: the row of a second connection is refused.
RowRefused(i) == \E j \in Stored : j # i /\ OwnerOf[j] = OwnerOf[i]
Convert(h) ==
  /\ Waits(h, "convert")
  /\ LET i == task[h].id IN
     IF OwnerTaken(i) THEN Done(h) /\ UNCHANGED <<rows, files, up, torn>>
     ELSE \/ /\ Saved(i, IF RowRefused(i) THEN 2 ELSE 3)
             /\ Done(h) /\ UNCHANGED <<up, torn>>
          \/ /\ "crash" \in Events
             /\ \E k \in 1..2 : Saved(i, k)
             /\ torn' = torn \cup {i} /\ Down
  /\ UNCHANGED <<root, setting, states, env, github, gone>>

RequestFails(h) ==
  /\ up /\ task[h].op \in {"convert", "check"}
  /\ Done(h)
  /\ UNCHANGED <<disk, env, github, up, gone, torn>>

---------------------------------------------------------------------------
(* Installation *)

\* github_installed, the redirect after the App was installed or its repositories
\* were changed; it names the connection, which may be one of the environment.
Redirect(h, i) ==
  /\ Idle(h) /\ Usable(i)
  /\ Wait(h, "check", i)
  /\ UNCHANGED <<disk, env, github, up, gone, torn>>

\* validate_installation: the installation is stored before its repositories are
\* known, so that the listing can use its token.
CheckSucceeds(h) ==
  /\ Waits(h, "check") /\ github[task[h].id] \in {"empty", "repos"}
  /\ LET i == task[h].id IN
     /\ save_installation(i, "installed")
     /\ IF Usable(i) /\ i \in RepoScoped THEN Wait(h, "list", i) ELSE Done(h)
  /\ UNCHANGED <<files, root, setting, states, env, github, up, gone, torn>>

ListSucceeds(h) ==
  /\ Waits(h, "list") /\ github[task[h].id] = "repos"
  /\ update_repository_metadata(task[h])
  /\ Done(h)
  /\ UNCHANGED <<files, root, setting, states, env, github, up, gone, torn>>

\* No repository, or an error status (also of a server that is only down): the
\* installation is taken back.
ListRejects(h) ==
  /\ Waits(h, "list") /\ (github[task[h].id] # "repos" \/ "server" \in Events)
  /\ save_installation(task[h].id, "registered")
  /\ Done(h)
  /\ UNCHANGED <<files, root, setting, states, env, github, up, gone, torn>>

\* A rate limit or a lost connection leaves the installation stored.
ListInterrupted(h) ==
  /\ Waits(h, "list") /\ "server" \in Events
  /\ Done(h)
  /\ UNCHANGED <<disk, env, github, up, gone, torn>>

---------------------------------------------------------------------------
(* Polls *)

\* list_repositories and refresh_installation_metadata of an installed connection
\* write what they learned into the stored connection.
BeginScan(h, i) ==
  /\ Idle(h) /\ Installed(i)
  /\ Wait(h, "scan", i)
  /\ UNCHANGED <<disk, env, github, up, gone, torn>>

EndScan(h) ==
  /\ Waits(h, "scan")
  /\ update_repository_metadata(task[h]) \/ UNCHANGED rows
  /\ Done(h)
  /\ UNCHANGED <<files, root, setting, states, env, github, up, gone, torn>>

---------------------------------------------------------------------------
(* Disconnection, crash and restart *)

\* github_disconnect once no runner and no job of the connection is active; a
\* connection of the environment is refused.
Disconnect(i) ==
  /\ up /\ i \in Stored \ Env
  /\ \/ Erased(i, 3) /\ UNCHANGED <<up, task, torn>>
     \/ /\ "crash" \in Events
        /\ \E k \in 1..2 : Erased(i, k)
        /\ torn' = torn \cup {i} /\ Down
  /\ gone' = gone \cup {i}
  /\ UNCHANGED <<root, setting, states, env, github>>

Crash ==
  /\ up /\ "crash" \in Events
  /\ Down
  /\ UNCHANGED <<disk, env, github, gone, torn>>

\* The manager starts, perhaps with another environment: the migration runs before
\* anything is served, and may itself be cut short.
Start ==
  /\ ~up
  /\ \/ Migrated(4) /\ up' = TRUE
     \/ "crash" \in Events /\ (\E k \in 1..3 : Migrated(k)) /\ UNCHANGED up
  /\ env' \in IF "environment" \in Events THEN BOOLEAN ELSE {env}
  /\ UNCHANGED <<states, github, task, gone, torn>>

---------------------------------------------------------------------------
(* The administrator on GitHub *)

\* The App is installed, its repositories are changed, it is uninstalled.  For a
\* connection of the environment an error of the listing stands for it.
Reselect(i) ==
  /\ i \notin Env /\ github[i] # "none"
  /\ \E g \in {"app", "empty", "repos"} \ {github[i]} : github' = [github EXCEPT ![i] = g]
  /\ UNCHANGED <<disk, env, up, task, gone, torn>>

---------------------------------------------------------------------------

Next ==
  \/ Start \/ Crash
  \/ \E i \in Id : OfferSetup(i) \/ Expire(i) \/ Disconnect(i) \/ Reselect(i)
  \/ \E h \in Handler :
       \/ Convert(h) \/ RequestFails(h) \/ CheckSucceeds(h) \/ ListSucceeds(h)
       \/ ListRejects(h) \/ ListInterrupted(h) \/ EndScan(h)
       \/ \E i \in Id : Callback(h, i) \/ Redirect(h, i) \/ BeginScan(h, i)

Spec == Init /\ [][Next]_vars
==============================================================================
