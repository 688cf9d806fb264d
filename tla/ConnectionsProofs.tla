--------------------------- MODULE ConnectionsProofs ---------------------------
(***************************************************************************)
(* The connection store, for every set of connections, owners and handlers *)
(* and every place where the process may go down: what a row, its secrets  *)
(* and the one-time states say of each other.                              *)
(***************************************************************************)
EXTENDS ConnectionsProperties, TLAPS

USE ConnectionsAssumption

---------------------------------------------------------------------------
(* The inductive invariant *)

\* Until the migration is complete nothing was served: there is no connection but
\* the older release's, and each of its secrets is in one place or the other.
Unmigrated ==
  setting => /\ ~up /\ gone = {} /\ Stored \subseteq {Legacy}
             /\ \A i \in Id \ {Legacy} : files[i] = {}
             /\ Secrets \subseteq root \cup files[Legacy]
             /\ rows[Legacy] # "registered"

\* A setup that is offered or being converted has no row yet and never had one; only
\* one handler converts it, after its state was consumed.
Converts(h, i) == task[h].op = "convert" /\ task[h].id = i
Setups ==
  /\ \A i \in Id : states[i] # "none" =>
       /\ i \in Onboarded /\ rows[i] = "none" /\ i \notin gone
       /\ \A h \in Handler : ~Converts(h, i)
  /\ \A h \in Handler : task[h].op = "convert" =>
       /\ task[h].id \in Onboarded /\ rows[task[h].id] = "none" /\ task[h].id \notin gone
       /\ github[task[h].id] # "none"
  /\ \A h, g \in Handler, i \in Id : Converts(h, i) /\ Converts(g, i) => h = g

\* A row is written after its secrets and removed before them.
Secured == \A i \in Stored \ Env : files[i] = Secrets \/ (setting /\ i = Legacy)

\* The owner is unique in the table.
SoleRow == \A i, j \in Stored : OwnerOf[i] = OwnerOf[j] => i = j

GoneForGood == gone \cap (Stored \cup Env) = {}

Store == Unmigrated /\ Secured /\ SoleRow /\ GoneForGood /\ SecretsHaveRow /\ LegacyKept
Inv == TypeOK /\ Setups /\ Store

LEMMA InitInv == Init => Inv
<1> SUFFICES ASSUME Init PROVE Inv
  OBVIOUS
<1>1. TypeOK
  BY DEF Init, TypeOK, Secrets, Row, Task, NoTask
<1>2. Setups
  BY DEF Init, Setups, NoTask, Converts
<1>3. Stored = {}
  BY DEF Init, Stored
<1>4. LegacyKept
  BY DEF Init, LegacyKept, Existed, Secrets
<1> QED
  BY <1>1, <1>2, <1>3, <1>4
     DEF Init, Inv, Store, Unmigrated, Secured, SoleRow, GoneForGood, SecretsHaveRow

---------------------------------------------------------------------------
(* Writes *)

\* What a handler may write about a connection: its row is there, or it is the
\* environment's and its owner has none.
LEMMA UsableRows ==
  ASSUME NEW i \in Id, Usable(i)
  PROVE  \/ i \in Stored
         \/ i \in Env /\ \A j \in Stored : OwnerOf[j] # OwnerOf[i]
BY DEF Usable, Listed

\* So an update after a wait brings no row back and makes no second one.
LEMMA RowWriteKeeps ==
  ASSUME Inv, up, NEW i \in Id, NEW row, StoreRow(i, row),
         Usable(i) => row \in {"registered", "installed"},
         up' = up, UNCHANGED <<files, root, setting, gone, torn>>, Existed' => Existed
  PROVE  /\ rows' \in [Id -> Row]
         /\ \A j \in Id \ Env : rows[j] = "none" <=> rows'[j] = "none"
         /\ Store'
<1> USE DEF Inv, Store
<1>1. CASE rows' = rows
  <2>1. Stored' = Stored
    BY <1>1 DEF Stored
  <2> QED
    BY <1>1, <2>1 DEF TypeOK, Unmigrated, Secured, SoleRow, GoneForGood, SecretsHaveRow, LegacyKept
<1>2. CASE Usable(i) /\ rows' = [rows EXCEPT ![i] = row]
  <2>1. rows' \in [Id -> Row] /\ Stored' = Stored \cup {i}
    BY <1>2 DEF TypeOK, Row, Stored
  <2>2. ~setting
    BY DEF Unmigrated
  <2>3. \A j \in Id \ Env : rows[j] = "none" <=> rows'[j] = "none"
    BY <1>2, UsableRows DEF TypeOK, Stored
  <2>4. Secured' /\ SecretsHaveRow'
    BY <1>2, <2>1, <2>2, UsableRows DEF Secured, SecretsHaveRow
  <2>5. SoleRow'
    BY <1>2, <2>1, UsableRows DEF SoleRow, Stored
  <2>6. GoneForGood'
    BY <1>2, <2>1, UsableRows DEF GoneForGood
  <2>7. LegacyKept' /\ Unmigrated'
    BY <1>2, <2>1, <2>2, <2>3 DEF LegacyKept, Unmigrated
  <2> QED
    BY <2>1, <2>3, <2>4, <2>5, <2>6, <2>7
<1> QED
  BY <1>1, <1>2 DEF StoreRow

\* Steps that write nothing about connections.
LEMMA QuietKeeps ==
  ASSUME Store, UNCHANGED <<rows, files, root, setting, gone, torn>>,
         up' => up \/ ~setting, Existed' => Existed
  PROVE  Store'
<1>1. Stored' = Stored
  BY DEF Stored
<1> QED
  BY <1>1 DEF Store, Unmigrated, Secured, SoleRow, GoneForGood, SecretsHaveRow, LegacyKept

\* The migration, whole or cut short.
LEMMA MigrationKeeps ==
  ASSUME Inv, ~up, NEW k \in 1..4, Migrated(k), UNCHANGED <<github, gone, torn>>,
         up' => k = 4
  PROVE  /\ Store'
         /\ rows' \in [Id -> Row] /\ files' \in [Id -> SUBSET Secrets]
         /\ \A i \in Env : files'[i] = {}
         /\ root' \in SUBSET Secrets /\ setting' \in BOOLEAN
         /\ \A i \in Onboarded : rows'[i] = rows[i]
<1> USE DEF Inv, Store
<1>1. CASE ~setting
  BY <1>1, QuietKeeps DEF Migrated, Existed, TypeOK
<1>2. CASE setting
  <2>1. MigrationTarget = Legacy
    BY <1>2 DEF MigrationTarget, Unmigrated
  <2> DEFINE M == Moved(Legacy, k)
  <2>2. /\ rows' = IF rows[Legacy] = "none" THEN [rows EXCEPT ![Legacy] = "installed"] ELSE rows
        /\ files' = [files EXCEPT ![Legacy] = @ \cup M]
        /\ root' = root \ M
        /\ setting' \in BOOLEAN /\ (setting' <=> k < 4)
    <3>1. k >= 1 /\ (k < 4) \in BOOLEAN
      OBVIOUS
    <3>2. /\ rows' = IF rows[Legacy] = "none" THEN [rows EXCEPT ![Legacy] = "installed"] ELSE rows
          /\ files' = [files EXCEPT ![Legacy] = @ \cup M]
          /\ root' = root \ M
          /\ setting' = (setting /\ k < 4)
      BY <1>2, <2>1, <3>1 DEF Migrated, SettingKept, SettingLast
    <3> HIDE DEF M
    <3> QED
      BY <1>2, <3>1, <3>2
  <2>3. M \subseteq root \ files[Legacy] /\ M \subseteq Secrets
    BY DEF Moved, Secrets
  <2>4. k = 4 => M = Secrets \cap (root \ files[Legacy])
    BY DEF Moved, Secrets
  <2> HIDE DEF M
  <2>5. /\ rows' \in [Id -> Row] /\ rows'[Legacy] # "none"
        /\ \A i \in Id \ {Legacy} : rows'[i] = rows[i] /\ files'[i] = files[i]
        /\ files'[Legacy] = files[Legacy] \cup M
        /\ files' \in [Id -> SUBSET Secrets]
    BY <2>2, <2>3 DEF TypeOK, Row
  <2>6. Stored' = {Legacy}
    BY <1>2, <2>5 DEF Stored, Unmigrated
  <2>7. Secrets \subseteq root' \cup files'[Legacy]
    BY <1>2, <2>2, <2>5 DEF Unmigrated
  <2>8. k = 4 => files'[Legacy] = Secrets
    BY <1>2, <2>4, <2>5 DEF Unmigrated, TypeOK
  <2>9. Unmigrated'
    <3>1. setting' => k # 4
      BY <2>2
    <3>2. gone' = {} /\ \A i \in Id \ {Legacy} : files'[i] = {}
      BY <1>2, <2>5 DEF Unmigrated
    <3>3. rows'[Legacy] # "registered"
      BY <1>2, <2>2 DEF Unmigrated, TypeOK
    <3> QED
      BY <2>6, <2>7, <3>1, <3>2, <3>3 DEF Unmigrated
  <2>10. Secured' /\ LegacyKept'
    <3>1. setting' \/ k = 4
      BY <2>2
    <3> QED
      BY <2>5, <2>6, <2>7, <2>8, <3>1 DEF Secured, LegacyKept
  <2>11. SoleRow' /\ GoneForGood' /\ SecretsHaveRow'
    BY <1>2, <2>5, <2>6 DEF SoleRow, GoneForGood, SecretsHaveRow, Unmigrated
  <2> QED
    BY <2>2, <2>5, <2>9, <2>10, <2>11 DEF TypeOK
<1> QED
  BY <1>1, <1>2

\* Onboarding writes the secrets of a connection that has no row, then the row; its
\* owner has no other one.
LEMMA SavingKeeps ==
  ASSUME Inv, up, NEW i \in Onboarded, i \notin gone, rows[i] = "none",
         ~OwnerTaken(i), NEW k \in 1..3, Saved(i, k),
         up' => k = 3, torn' = IF k = 3 THEN torn ELSE torn \cup {i},
         UNCHANGED <<root, setting, github, gone>>
  PROVE  /\ Store'
         /\ rows' \in [Id -> Row] /\ files' \in [Id -> SUBSET Secrets]
         /\ \A j \in Id \ {i} : rows'[j] = rows[j] /\ files'[j] = files[j]
<1> USE DEF Inv, Store
<1>1. i \in Id \ Env /\ i # Legacy /\ ~setting
  BY DEF Unmigrated
<1>2. \A j \in Stored : j # i => OwnerOf[j] # OwnerOf[i]
  BY DEF OwnerTaken, find_by_owner, Listed
<1>3. /\ files' \in [Id -> SUBSET Secrets]
      /\ \A j \in Id \ {i} : files'[j] = files[j]
      /\ k = 3 => files'[i] = Secrets
  BY <1>1 DEF Saved, SavedFirst, Secrets, TypeOK
<1>4. /\ rows' \in [Id -> Row]
      /\ \A j \in Id \ {i} : rows'[j] = rows[j]
      /\ rows'[i] # "none" <=> k = 3
  BY <1>1 DEF Saved, SavedFirst, Row, TypeOK
<1>5. Stored' = IF k = 3 THEN Stored \cup {i} ELSE Stored
  BY <1>1, <1>4 DEF Stored
<1>6. Unmigrated' /\ GoneForGood'
  BY <1>1, <1>5 DEF Unmigrated, GoneForGood
<1>7. Secured'
  BY <1>1, <1>3, <1>5 DEF Secured, Stored
<1>8. SoleRow'
  BY <1>2, <1>5 DEF SoleRow
<1>9. SecretsHaveRow'
  BY <1>3, <1>5 DEF SecretsHaveRow
<1>10. LegacyKept'
  <2>1. /\ Existed' <=> Existed
        /\ rows'[Legacy] = rows[Legacy] /\ files'[Legacy] = files[Legacy]
    BY <1>1, <1>3, <1>4 DEF Existed
  <2> QED
    BY <1>1, <2>1 DEF LegacyKept
<1> QED
  BY <1>3, <1>4, <1>6, <1>7, <1>8, <1>9, <1>10

\* Disconnection removes the row first.
LEMMA ErasingKeeps ==
  ASSUME Inv, up, NEW i \in Stored \ Env, NEW k \in 1..3, Erased(i, k),
         torn' = IF k = 3 THEN torn ELSE torn \cup {i}, gone' = gone \cup {i},
         UNCHANGED <<root, setting, github>>
  PROVE  /\ Store'
         /\ rows' \in [Id -> Row] /\ files' \in [Id -> SUBSET Secrets]
         /\ rows'[i] = "none"
         /\ \A j \in Id \ {i} : rows'[j] = rows[j] /\ files'[j] = files[j]
<1> USE DEF Inv, Store
<1>1. i \in Id \ Env /\ rows[i] # "none" /\ ~setting
  BY DEF Unmigrated, Stored
<1>2. /\ files' \in [Id -> SUBSET Secrets]
      /\ \A j \in Id \ {i} : files'[j] = files[j]
      /\ k = 3 => files'[i] = {}
  BY <1>1 DEF Erased, Secrets, TypeOK
<1>3. /\ rows' \in [Id -> Row] /\ rows'[i] = "none"
      /\ \A j \in Id \ {i} : rows'[j] = rows[j]
  BY <1>1 DEF Erased, Row, TypeOK
<1>4. Stored' = Stored \ {i}
  BY <1>3 DEF Stored
<1>5. Unmigrated' /\ GoneForGood'
  BY <1>1, <1>4 DEF Unmigrated, GoneForGood
<1>6. Secured' /\ SoleRow'
  BY <1>1, <1>2, <1>4 DEF Secured, SoleRow, Stored
<1>7. SecretsHaveRow'
  BY <1>2, <1>4 DEF SecretsHaveRow
<1>8. LegacyKept'
  <2>1. Existed' <=> Existed
    BY DEF Existed
  <2> QED
    BY <1>1, <1>2, <1>3, <2>1 DEF LegacyKept
<1> QED
  BY <1>2, <1>3, <1>5, <1>6, <1>7, <1>8

\* Setups stay apart from rows while none is offered or begun.
LEMMA SetupsKeep ==
  ASSUME Setups,
         \A i \in Id : states'[i] # "none" => states[i] # "none",
         \A h \in Handler : task'[h].op = "convert" => task'[h] = task[h],
         \A i \in Onboarded : rows[i] = "none" /\ rows'[i] # "none" =>
           states[i] = "none" /\ \A h \in Handler : ~Converts(h, i)',
         \A i \in Id : i \in gone' => i \in gone \/ rows[i] # "none",
         \A i \in Id : github[i] # "none" => github'[i] # "none"
  PROVE  Setups'
<1>1. \A h \in Handler, i \in Id : Converts(h, i)' => Converts(h, i)
  BY DEF Converts
<1>2. ASSUME NEW i \in Id, states'[i] # "none"
      PROVE  /\ i \in Onboarded /\ rows'[i] = "none" /\ i \notin gone'
             /\ \A h \in Handler : ~Converts(h, i)'
  BY <1>1, <1>2 DEF Setups
<1>3. ASSUME NEW h \in Handler, task'[h].op = "convert"
      PROVE  /\ task'[h].id \in Onboarded /\ rows'[task'[h].id] = "none" /\ task'[h].id \notin gone'
             /\ github'[task'[h].id] # "none"
  <2>1. /\ task'[h] = task[h] /\ task[h].id \in Onboarded /\ rows[task[h].id] = "none"
        /\ task[h].id \notin gone /\ github[task[h].id] # "none"
    BY <1>3 DEF Setups
  <2>2. Converts(h, task[h].id)'
    BY <1>3, <2>1 DEF Converts
  <2> QED
    BY <2>1, <2>2
<1>4. ASSUME NEW h \in Handler, NEW g \in Handler, NEW i \in Id, Converts(h, i)', Converts(g, i)'
      PROVE  h = g
  BY <1>1, <1>4 DEF Setups
<1> QED
  BY <1>2, <1>3, <1>4 DEF Setups

---------------------------------------------------------------------------
(* Steps *)

\* What a handler does with its task: it ends it or waits for the next answer.
LEMMA Tasks ==
  ASSUME TypeOK, up, NEW h \in Handler
  PROVE  /\ Done(h) => /\ task' \in [Handler -> Task] /\ task'[h] = NoTask
                       /\ \A g \in Handler \ {h} : task'[g] = task[g]
         /\ \A i \in Id, op \in {"convert", "check", "list", "scan"} :
              Wait(h, op, i) => /\ task' \in [Handler -> Task]
                                /\ task'[h].op = op /\ task'[h].id = i
                                /\ \A g \in Handler \ {h} : task'[g] = task[g]
         /\ task[h] # NoTask => task[h].id \in Id
         /\ Down => ~up' /\ task' \in [Handler -> Task] /\ \A g \in Handler : task'[g] = NoTask
<1>1. NoTask \in Task /\ \A i \in Id, op \in {"convert", "check", "list", "scan"} :
        [op |-> op, id |-> i, row |-> rows[i]] \in Task
  BY DEF Task, TypeOK
<1> QED
  BY <1>1 DEF TypeOK, Done, Wait, Down, Task

\* Steps of a handler that writes nothing.
LEMMA WaitingKeeps ==
  ASSUME Inv, up, NEW h \in Handler, UNCHANGED <<disk, env, github, up, gone, torn>>,
         \/ Done(h)
         \/ \E i \in Id, op \in {"check", "list", "scan"} : Wait(h, op, i)
  PROVE  Inv'
<1>1. task' \in [Handler -> Task] /\ \A g \in Handler : task'[g].op = "convert" => task'[g] = task[g]
  BY Tasks DEF Inv, NoTask
<1>2. Setups'
  BY <1>1, SetupsKeep DEF Inv, disk
<1>3. TypeOK'
  BY <1>1 DEF Inv, TypeOK, disk
<1> QED
  BY <1>2, <1>3, QuietKeeps DEF Inv, disk, Existed

\* Steps of a handler that updates a stored connection.
LEMMA UpdatingKeeps ==
  ASSUME Inv, up, NEW h \in Handler, NEW i \in Id, NEW row, StoreRow(i, row),
         Usable(i) => row \in {"registered", "installed"},
         UNCHANGED <<files, root, setting, states, env, github, up, gone, torn>>,
         \/ Done(h)
         \/ \E j \in Id, op \in {"check", "list", "scan"} : Wait(h, op, j)
  PROVE  Inv'
<1>1. task' \in [Handler -> Task] /\ \A g \in Handler : task'[g].op = "convert" => task'[g] = task[g]
  BY Tasks DEF Inv, NoTask
<1>2. /\ rows' \in [Id -> Row] /\ Store'
      /\ \A j \in Id \ Env : rows[j] = "none" <=> rows'[j] = "none"
  BY RowWriteKeeps DEF Existed
<1>3. Setups'
  BY <1>1, <1>2, SetupsKeep DEF Inv
<1>4. TypeOK'
  BY <1>1, <1>2 DEF Inv, TypeOK
<1> QED
  BY <1>2, <1>3, <1>4 DEF Inv

\* What a poll writes back is the row as it is then.
LEMMA CurrentRows ==
  ASSUME Inv, NEW t, t.id \in Id, Usable(t.id)
  PROVE  CurrentRow(t) \in {"registered", "installed"}
BY DEF CurrentRow, Usable, environment, onboarded, Inv, TypeOK, Row

LEMMA HandlerStep ==
  ASSUME Inv, NEW h \in Handler,
         \/ RequestFails(h) \/ CheckSucceeds(h) \/ ListSucceeds(h)
         \/ ListRejects(h) \/ ListInterrupted(h) \/ EndScan(h)
         \/ \E i \in Id : Redirect(h, i) \/ BeginScan(h, i)
  PROVE  Inv'
<1>1. ASSUME up, task[h].op \in {"convert", "check", "list", "scan"}
      PROVE  task[h].id \in Id
  BY <1>1, Tasks DEF Inv, NoTask
<1>2. CASE RequestFails(h) \/ ListInterrupted(h)
  BY <1>2, WaitingKeeps DEF RequestFails, ListInterrupted, Waits
<1>3. ASSUME NEW i \in Id, Redirect(h, i) \/ BeginScan(h, i)
      PROVE  Inv'
  BY <1>3, WaitingKeeps DEF Redirect, BeginScan, Idle
<1>4. CASE CheckSucceeds(h)
  <2>1. up /\ task[h].id \in Id
    BY <1>1, <1>4 DEF CheckSucceeds, Waits
  <2> QED
    BY <1>4, <2>1, UpdatingKeeps DEF CheckSucceeds, save_installation
<1>5. CASE ListSucceeds(h)
  <2>1. up /\ task[h].id \in Id
    BY <1>1, <1>5 DEF ListSucceeds, Waits
  <2> QED
    BY <1>5, <2>1, UpdatingKeeps, CurrentRows DEF ListSucceeds, update_repository_metadata
<1>6. CASE ListRejects(h)
  <2>1. up /\ task[h].id \in Id
    BY <1>1, <1>6 DEF ListRejects, Waits
  <2> QED
    BY <1>6, <2>1, UpdatingKeeps DEF ListRejects, save_installation
<1>7. CASE EndScan(h)
  <2>1. up /\ task[h].id \in Id
    BY <1>1, <1>7 DEF EndScan, Waits
  <2>2. CASE UNCHANGED rows
    BY <1>7, <2>1, <2>2, WaitingKeeps DEF EndScan, disk
  <2>3. CASE update_repository_metadata(task[h])
    BY <1>7, <2>1, <2>3, UpdatingKeeps, CurrentRows DEF EndScan, update_repository_metadata
  <2> QED
    BY <1>7, <2>2, <2>3 DEF EndScan
<1> QED
  BY <1>2, <1>3, <1>4, <1>5, <1>6, <1>7

\* A setup is offered for an id that was never used, and expires.
LEMMA OfferStep ==
  ASSUME Inv, NEW i \in Id, OfferSetup(i) \/ Expire(i)
  PROVE  Inv'
<1>1. TypeOK' /\ Store'
  BY QuietKeeps DEF OfferSetup, Expire, Inv, TypeOK, Existed
<1>2. CASE OfferSetup(i)
  <2>1. i \in Onboarded /\ rows[i] = "none" /\ i \notin gone /\ github[i] = "none"
    BY <1>2 DEF OfferSetup, Unused
  <2>2. \A h \in Handler : ~Converts(h, i)
    BY <2>1 DEF Converts, Inv, Setups
  <2>3. \A j \in Id : states'[j] # "none" => j = i \/ states[j] # "none"
    BY <1>2 DEF OfferSetup, Inv, TypeOK
  <2>4. UNCHANGED <<rows, gone, task, github>>
    BY <1>2 DEF OfferSetup
  <2>5. Setups'
    BY <2>1, <2>2, <2>3, <2>4 DEF Inv, Setups, Converts
  <2> QED
    BY <1>1, <2>5 DEF Inv
<1>3. CASE Expire(i)
  <2>1. \A j \in Id : states'[j] # "none" => states[j] # "none"
    BY <1>3 DEF Expire, Inv, TypeOK
  <2>2. Setups'
    BY <1>3, <2>1, SetupsKeep DEF Expire, Inv
  <2> QED
    BY <1>1, <2>2 DEF Inv
<1> QED
  BY <1>2, <1>3

\* The redirect consumes the state, and one handler exchanges the code.
LEMMA CallbackStep ==
  ASSUME Inv, NEW h \in Handler, NEW i \in Id, Callback(h, i)
  PROVE  Inv'
<1>1. /\ up /\ task[h] = NoTask /\ states[i] # "none"
      /\ states' = [states EXCEPT ![i] = "none"]
      /\ github' = [github EXCEPT ![i] = "app"]
      /\ UNCHANGED <<rows, files, root, setting, env, up, gone, torn>>
  BY DEF Callback, Idle, Consumed
<1>2. /\ i \in Onboarded /\ rows[i] = "none" /\ i \notin gone
      /\ \A g \in Handler : ~Converts(g, i)
  BY <1>1 DEF Inv, Setups
<1>3. Store'
  BY <1>1, <1>2, QuietKeeps DEF Inv, TypeOK, Existed
<1>4. github'[i] # "none" /\ \A j \in Id : github[j] # "none" => github'[j] # "none"
  BY <1>1 DEF Inv, TypeOK
<1>5. /\ \A j \in Id : states'[j] # "none" => states[j] # "none"
      /\ states'[i] = "none"
  BY <1>1 DEF Inv, TypeOK
<1>6. CASE UNCHANGED task
  <2>1. Setups'
    BY <1>1, <1>4, <1>5, <1>6, SetupsKeep DEF Inv
  <2> QED
    BY <1>1, <1>3, <1>6, <2>1 DEF Inv, TypeOK
<1>7. CASE Wait(h, "convert", i)
  <2>1. /\ task' \in [Handler -> Task]
        /\ task'[h].op = "convert" /\ task'[h].id = i
        /\ \A g \in Handler \ {h} : task'[g] = task[g]
    BY <1>1, <1>7, Tasks DEF Inv
  <2>2. \A g \in Handler, j \in Id : Converts(g, j)' <=> (g = h /\ j = i) \/ (g # h /\ Converts(g, j))
    BY <2>1 DEF Converts
  <2>3. ASSUME NEW j \in Id, states'[j] # "none"
        PROVE  /\ j \in Onboarded /\ rows'[j] = "none" /\ j \notin gone'
               /\ \A g \in Handler : ~Converts(g, j)'
    BY <1>1, <1>5, <2>2, <2>3 DEF Inv, Setups
  <2>4. ASSUME NEW g \in Handler, task'[g].op = "convert"
        PROVE  /\ task'[g].id \in Onboarded /\ rows'[task'[g].id] = "none"
               /\ task'[g].id \notin gone' /\ github'[task'[g].id] # "none"
    <3>1. CASE g = h
      BY <1>1, <1>2, <1>4, <2>1, <3>1
    <3>2. CASE g # h
      BY <1>1, <1>4, <2>1, <2>4, <3>2 DEF Inv, Setups
    <3> QED
      BY <3>1, <3>2
  <2>5. ASSUME NEW f \in Handler, NEW g \in Handler, NEW j \in Id, Converts(f, j)', Converts(g, j)'
        PROVE  f = g
    BY <1>2, <2>2, <2>5 DEF Inv, Setups
  <2>6. Setups'
    BY <2>3, <2>4, <2>5 DEF Setups
  <2>7. TypeOK'
    BY <1>1, <2>1 DEF Inv, TypeOK
  <2> QED
    BY <1>3, <2>6, <2>7 DEF Inv
<1> QED
  BY <1>6, <1>7 DEF Callback

\* The code is exchanged: the connection is saved, wholly or in part, unless its
\* owner has been connected meanwhile.
LEMMA ConvertStep ==
  ASSUME Inv, NEW h \in Handler, Convert(h)
  PROVE  Inv'
<1>0. up /\ task[h].op = "convert" /\ task[h].id \in Onboarded
  BY DEF Convert, Waits, Inv, Setups
<1> PICK i \in Onboarded : i = task[h].id
  BY <1>0
<1>1. up /\ task[h].op = "convert" /\ rows[i] = "none" /\ i \notin gone
  BY <1>0 DEF Inv, Setups
<1>2. states[i] = "none" /\ \A g \in Handler : Converts(g, i) => g = h
  BY <1>1 DEF Inv, Setups, Converts
<1>3. UNCHANGED <<root, setting, states, env, github, gone>>
  BY DEF Convert
<1>4. CASE OwnerTaken(i)
  BY <1>1, <1>3, <1>4, WaitingKeeps DEF Convert, disk
<1>5. CASE ~OwnerTaken(i)
  <2>1. ~RowRefused(i)
    BY <1>5 DEF OwnerTaken, RowRefused, find_by_owner, Listed
  <2>2. \/ Saved(i, 3) /\ Done(h) /\ UNCHANGED <<up, torn>>
        \/ (\E k \in 1..2 : Saved(i, k)) /\ torn' = torn \cup {i} /\ Down
    BY <1>5, <2>1 DEF Convert
  <2>3. PICK k \in 1..3 : /\ Saved(i, k) /\ (up' => k = 3)
                          /\ torn' = IF k = 3 THEN torn ELSE torn \cup {i}
    BY <2>2 DEF Down
  <2>4. /\ Store' /\ rows' \in [Id -> Row] /\ files' \in [Id -> SUBSET Secrets]
        /\ \A j \in Id \ {i} : rows'[j] = rows[j] /\ files'[j] = files[j]
    BY <1>1, <1>3, <1>5, <2>3, SavingKeeps
  <2>5. /\ task' \in [Handler -> Task] /\ task'[h] = NoTask
        /\ \A g \in Handler : task'[g] # NoTask => task'[g] = task[g]
        /\ ~up' => \A g \in Handler : task'[g] = NoTask
    BY <1>1, <2>2, Tasks DEF Inv
  <2>6. \A g \in Handler : ~Converts(g, i)'
    BY <1>2, <2>5 DEF Converts, NoTask
  <2>7. /\ \A g \in Handler : task'[g].op = "convert" => task'[g] = task[g]
        /\ \A j \in Onboarded : rows[j] = "none" /\ rows'[j] # "none" =>
             states[j] = "none" /\ \A g \in Handler : ~Converts(g, j)'
    BY <1>2, <2>4, <2>5, <2>6 DEF NoTask
  <2>8. Setups'
    BY <1>3, <2>7, SetupsKeep DEF Inv
  <2>9. TypeOK'
    <3>1. \A e \in Env : files'[e] = {}
      BY <1>1, <2>4 DEF Inv, TypeOK
    <3>2. up' \in BOOLEAN /\ torn' \in SUBSET Id
      BY <1>1, <2>2 DEF Down, Inv, TypeOK
    <3> QED
      BY <1>3, <2>4, <2>5, <3>1, <3>2 DEF Inv, TypeOK
  <2> QED
    BY <2>4, <2>8, <2>9 DEF Inv
<1> QED
  BY <1>4, <1>5

\* Disconnections, crashes and starts.
LEMMA DisconnectStep ==
  ASSUME Inv, NEW i \in Id, Disconnect(i)
  PROVE  Inv'
<1>1. up /\ i \in Stored \ Env /\ gone' = gone \cup {i} /\ UNCHANGED <<root, setting, states, env, github>>
  BY DEF Disconnect
<1>2. \/ Erased(i, 3) /\ UNCHANGED <<up, task, torn>>
      \/ (\E k \in 1..2 : Erased(i, k)) /\ torn' = torn \cup {i} /\ Down
  BY DEF Disconnect
<1>3. PICK k \in 1..3 : Erased(i, k) /\ torn' = IF k = 3 THEN torn ELSE torn \cup {i}
  BY <1>2
<1>4. /\ Store' /\ rows' \in [Id -> Row] /\ files' \in [Id -> SUBSET Secrets]
      /\ rows'[i] = "none"
      /\ \A j \in Id \ {i} : rows'[j] = rows[j] /\ files'[j] = files[j]
  BY <1>1, <1>3, ErasingKeeps
<1>5. /\ task' \in [Handler -> Task]
      /\ \A g \in Handler : task'[g].op = "convert" => task'[g] = task[g]
      /\ ~up' => \A g \in Handler : task'[g] = NoTask
      /\ up' \in BOOLEAN /\ torn' \in SUBSET Id
  <2>1. CASE UNCHANGED <<up, task, torn>>
    BY <1>1, <2>1 DEF Inv, TypeOK
  <2>2. CASE Down /\ torn' = torn \cup {i}
    BY <2>2 DEF Down, Inv, TypeOK, Task, NoTask
  <2> QED
    BY <1>2, <2>1, <2>2
<1>6. Setups'
  BY <1>1, <1>4, <1>5, SetupsKeep DEF Inv, Stored
<1>7. TypeOK'
  BY <1>1, <1>4, <1>5 DEF Inv, TypeOK
<1> QED
  BY <1>4, <1>6, <1>7 DEF Inv

LEMMA RestartStep ==
  ASSUME Inv, Crash \/ Start
  PROVE  Inv'
<1>1. CASE Crash
  <2>1. ~up' /\ task' \in [Handler -> Task] /\ \A g \in Handler : task'[g] = NoTask
    BY <1>1 DEF Crash, Down, Task
  <2>2. Setups'
    BY <1>1, <2>1, SetupsKeep DEF Crash, disk, Inv, NoTask
  <2>3. TypeOK'
    BY <1>1, <2>1 DEF Crash, Down, disk, Inv, TypeOK
  <2> QED
    BY <1>1, <2>1, <2>2, <2>3, QuietKeeps DEF Crash, disk, Inv, Existed
<1>2. CASE Start
  <2>1. PICK k \in 1..4 : Migrated(k) /\ (up' => k = 4)
    BY <1>2 DEF Start
  <2>2. ~up /\ UNCHANGED <<states, github, task, gone, torn>> /\ env' \in BOOLEAN /\ up' \in BOOLEAN
    BY <1>2 DEF Start, Inv, TypeOK
  <2>3. /\ Store' /\ rows' \in [Id -> Row] /\ files' \in [Id -> SUBSET Secrets]
        /\ \A i \in Env : files'[i] = {}
        /\ root' \in SUBSET Secrets /\ setting' \in BOOLEAN
        /\ \A i \in Onboarded : rows'[i] = rows[i]
    BY <2>1, <2>2, MigrationKeeps
  <2>4. Setups'
    BY <2>2, <2>3, SetupsKeep DEF Inv
  <2>5. TypeOK'
    BY <2>2, <2>3 DEF Inv, TypeOK
  <2> QED
    BY <2>3, <2>4, <2>5 DEF Inv
<1> QED
  BY <1>1, <1>2

LEMMA ReselectStep ==
  ASSUME Inv, NEW i \in Id, Reselect(i)
  PROVE  Inv'
<1>1. /\ UNCHANGED <<rows, files, root, setting, states, env, up, task, gone, torn>>
      /\ github' \in [Id -> {"none", "app", "empty", "repos"}]
      /\ \A j \in Id : github[j] # "none" <=> github'[j] # "none"
  BY DEF Reselect, disk, Inv, TypeOK
<1>2. Setups'
  BY <1>1, SetupsKeep DEF Inv
<1> QED
  BY <1>1, <1>2, QuietKeeps DEF Inv, TypeOK, Existed

LEMMA InvStep == Inv /\ [Next]_vars => Inv'
<1> SUFFICES ASSUME Inv, [Next]_vars PROVE Inv'
  OBVIOUS
<1>1. CASE UNCHANGED vars
  <2>1. TypeOK' /\ Setups'
    BY <1>1 DEF vars, disk, Inv, TypeOK, Setups, Converts
  <2> QED
    BY <1>1, <2>1, QuietKeeps DEF vars, disk, Inv, Existed
<1>2. CASE Next
  BY <1>2, HandlerStep, OfferStep, CallbackStep, ConvertStep, DisconnectStep, RestartStep, ReselectStep
     DEF Next
<1> QED
  BY <1>1, <1>2

LEMMA Invariance == Spec => []Inv
BY InitInv, InvStep, PTL DEF Spec

---------------------------------------------------------------------------

\* Every reachable state is type correct.
THEOREM TypesHold == Spec => []TypeOK
BY Invariance, PTL DEF Inv

\* Wherever the process goes down in onboarding, disconnection or migration, what is
\* served is a row with its key.
THEOREM RowsAreSecured == Spec => []RowHasSecrets
<1>1. Inv => RowHasSecrets
  BY DEF Inv, Store, Unmigrated, Secured, RowHasSecrets
<1> QED
  BY <1>1, Invariance, PTL

\* No secret is left without a row but by a crash.
THEOREM NoStraySecrets == Spec => []SecretsHaveRow
BY Invariance, PTL DEF Inv, Store

\* Whatever waits for GitHub, a disconnected connection does not come back.
THEOREM DisconnectedForGood == Spec => []NoResurrection
<1>1. Inv => NoResurrection
  BY DEF Inv, Store, GoneForGood, NoResurrection
<1> QED
  BY <1>1, Invariance, PTL

\* An owner has one connection, onboarded, migrated or of the environment.
THEOREM OwnersAreSole == Spec => []OneConnectionPerOwner
<1>1. Inv => OneConnectionPerOwner
  BY DEF Inv, Store, SoleRow, OneConnectionPerOwner, Listed
<1> QED
  BY <1>1, Invariance, PTL

\* However often a migration is cut short, the connection of the older release is kept.
THEOREM LegacyIsKept == Spec => []LegacyKept
BY Invariance, PTL DEF Inv, Store

\* A setup is converted by one handler, before it has a row.
THEOREM SetupsAreUsedOnce == Spec => []SetupUsedOnce
<1>1. Inv => SetupUsedOnce
  <2> SUFFICES ASSUME Inv, NEW h \in Handler, NEW g \in Handler,
                      task[h].op = "convert", task[g].op = "convert", task[h].id = task[g].id
               PROVE  h = g /\ rows[task[h].id] = "none"
    BY DEF SetupUsedOnce
  <2>1. task[h].id \in Onboarded /\ rows[task[h].id] = "none"
    BY DEF Inv, Setups
  <2> QED
    BY <2>1 DEF Inv, Setups, Converts
<1> QED
  BY <1>1, Invariance, PTL

\* Only a validation makes a registered connection an installed one.
THEOREM ValidationInstalls == Spec => InstalledByValidation
<1>1. ASSUME Inv, [Next]_vars, NEW i \in Onboarded, rows[i] = "registered", rows'[i] = "installed"
      PROVE  \E h \in Handler : task[h].op = "check" /\ task[h].id = i
  <2>1. rows \in [Id -> Row] /\ i \in Id \ Env /\ rows'[i] # rows[i]
    BY <1>1 DEF Inv, TypeOK
  <2>2. ASSUME NEW h \in Handler, Convert(h) PROVE rows'[i] = rows[i]
    <3>1. task[h].id # i
      BY <1>1, <2>2 DEF Convert, Waits, Inv, Setups
    <3> QED
      BY <1>1, <2>1, <2>2, <3>1 DEF Convert, Saved, SavedFirst
  <2>3. ASSUME NEW h \in Handler, ListSucceeds(h) \/ EndScan(h) PROVE rows'[i] = rows[i]
    BY <2>1, <2>3 DEF ListSucceeds, EndScan, update_repository_metadata, StoreRow, CurrentRow
  <2>4. ASSUME NEW h \in Handler, ListRejects(h) PROVE FALSE
    BY <1>1, <2>1, <2>4 DEF ListRejects, save_installation, StoreRow
  <2>5. ASSUME NEW h \in Handler, CheckSucceeds(h) PROVE task[h].op = "check" /\ task[h].id = i
    BY <1>1, <2>1, <2>5 DEF CheckSucceeds, Waits, save_installation, StoreRow
  <2>6. ASSUME NEW j \in Id, Disconnect(j) PROVE FALSE
    BY <1>1, <2>1, <2>6 DEF Disconnect, Erased
  <2>7. CASE Start
    <3>1. PICK k \in 1..4 : Migrated(k) /\ (up' => k = 4)
      BY <2>7 DEF Start
    <3> QED
      BY <1>1, <2>1, <2>7, <3>1, MigrationKeeps DEF Start
  <2>8. CASE rows' = rows
    BY <2>1, <2>8
  <2> QED
    BY <1>1, <2>1, <2>2, <2>3, <2>4, <2>5, <2>6, <2>7, <2>8
       DEF Next, vars, disk, Crash, OfferSetup, Expire, Reselect, RequestFails, ListInterrupted,
           Callback, Redirect, BeginScan
<1>2. Inv /\ [Next]_vars =>
        [\A i \in Onboarded : (rows[i] = "registered" /\ rows'[i] = "installed") =>
           \E h \in Handler : task[h].op = "check" /\ task[h].id = i]_vars
  BY <1>1
<1> QED
  BY <1>2, Invariance, PTL DEF Spec, InstalledByValidation

---------------------------------------------------------------------------
(* The store implements the registry: each step is a step of ConnectionRegistry or *)
(* leaves it as it is *)

\* A connection of the environment whose repositories are listed by a validation has
\* its row by then, and such a row never goes: taking its installation back changes a
\* record of the registry and makes none.
Checked ==
  \A h \in Handler : task[h].op = "list" /\ task[h].id \in Env => rows[task[h].id] # "none"

LEMMA EnvRowsStay ==
  ASSUME Inv, [Next]_vars, NEW e \in Env, rows[e] # "none"
  PROVE  rows'[e] # "none"
<1> USE DEF Inv, TypeOK
<1>1. CASE rows' = rows
  BY <1>1
<1>2. ASSUME NEW i \in Id, NEW row, StoreRow(i, row), i = e => row # "none"
      PROVE  rows'[e] # "none"
  BY <1>2 DEF StoreRow
<1>3. ASSUME NEW h \in Handler, Convert(h) PROVE rows'[e] # "none"
  <2>1. task[h].id \in Onboarded
    BY <1>3 DEF Convert, Waits, Setups
  <2> QED
    BY <1>1, <1>3, <2>1 DEF Convert, Saved, SavedFirst
<1>4. ASSUME NEW h \in Handler, CheckSucceeds(h) \/ ListSucceeds(h) \/ ListRejects(h) \/ EndScan(h)
      PROVE  rows'[e] # "none"
  <2>1. task[h].id \in Id
    BY <1>4, Tasks DEF CheckSucceeds, ListSucceeds, ListRejects, EndScan, Waits, NoTask
  <2>2. CASE CheckSucceeds(h)
    BY <1>2, <2>1, <2>2 DEF CheckSucceeds, save_installation
  <2>3. CASE ListRejects(h)
    BY <1>2, <2>1, <2>3 DEF ListRejects, save_installation
  <2>4. CASE update_repository_metadata(task[h])
    BY <1>2, <2>1, <2>4 DEF update_repository_metadata, CurrentRow
  <2> QED
    BY <1>1, <1>4, <2>2, <2>3, <2>4 DEF ListSucceeds, EndScan
<1>5. ASSUME NEW i \in Id, Disconnect(i) PROVE rows'[e] # "none"
  BY <1>5 DEF Disconnect, Erased
<1>6. CASE Start
  BY <1>6 DEF Start, Migrated
<1> QED
  BY <1>1, <1>3, <1>4, <1>5, <1>6
     DEF Next, vars, disk, Crash, OfferSetup, Expire, Reselect, RequestFails, ListInterrupted,
         Callback, Redirect, BeginScan

LEMMA CheckedStep ==
  ASSUME Inv, Checked, [Next]_vars
  PROVE  Checked'
<1> SUFFICES ASSUME NEW g \in Handler, task'[g].op = "list", task'[g].id \in Env
             PROVE  rows'[task'[g].id] # "none"
  BY DEF Checked
<1>1. CASE task'[g] = task[g]
  BY <1>1, EnvRowsStay DEF Checked
<1>2. ASSUME NEW h \in Handler, Done(h) PROVE task'[g] = task[g]
  BY <1>2 DEF Done, NoTask, Inv, TypeOK
<1>3. ASSUME NEW h \in Handler, NEW i \in Id, NEW op, Wait(h, op, i)
      PROVE  task'[g] = task[g] \/ (op = "list" /\ task'[g].id = i)
  BY <1>3 DEF Wait, Inv, TypeOK
<1>4. ASSUME Down PROVE FALSE
  BY <1>4 DEF Down, NoTask
<1>5. ASSUME NEW h \in Handler, NEW i \in Id, Callback(h, i) \/ Redirect(h, i) \/ BeginScan(h, i)
      PROVE  task'[g] = task[g]
  BY <1>3, <1>5 DEF Callback, Redirect, BeginScan
<1>6. ASSUME NEW h \in Handler, CheckSucceeds(h)
      PROVE  task'[g] = task[g] \/ rows'[task'[g].id] # "none"
  <2>1. task[h].id \in Id
    BY <1>6, Tasks DEF CheckSucceeds, Waits, Inv, NoTask
  <2>2. CASE Done(h)
    BY <1>2, <2>2
  <2>3. CASE Usable(task[h].id) /\ Wait(h, "list", task[h].id)
    <3>1. rows'[task[h].id] = "installed"
      BY <1>6, <2>1, <2>3 DEF CheckSucceeds, save_installation, StoreRow, Inv, TypeOK
    <3> QED
      BY <1>3, <2>1, <2>3, <3>1
  <2> QED
    BY <1>6, <2>2, <2>3 DEF CheckSucceeds
<1>7. ASSUME NEW h \in Handler,
             \/ Convert(h) \/ RequestFails(h) \/ ListSucceeds(h)
             \/ ListRejects(h) \/ ListInterrupted(h) \/ EndScan(h)
      PROVE  task'[g] = task[g]
  BY <1>2, <1>4, <1>7 DEF Convert, RequestFails, ListSucceeds, ListRejects, ListInterrupted, EndScan
<1>8. ASSUME NEW i \in Id, OfferSetup(i) \/ Expire(i) \/ Disconnect(i) \/ Reselect(i)
      PROVE  task'[g] = task[g]
  BY <1>4, <1>8 DEF OfferSetup, Expire, Disconnect, Reselect
<1>9. CASE Start \/ Crash \/ UNCHANGED vars
  BY <1>1, <1>4, <1>9 DEF Start, Crash, vars
<1> QED
  BY <1>1, <1>5, <1>6, <1>7, <1>8, <1>9 DEF Next

LEMMA CheckedHolds == Spec => [](Inv /\ Checked)
<1>1. Init => Checked
  BY DEF Init, Checked, NoTask
<1> QED
  BY <1>1, CheckedStep, Invariance, PTL DEF Spec

\* What the registry sees of a step.
LEMMA SameStages ==
  ASSUME UNCHANGED <<rows, files>>
  PROVE  StageOf' = StageOf
BY DEF StageOf, Whole

LEMMA FewerUnderWay ==
  ASSUME \A i \in Id : states'[i] = "open" => i \in UnderWay,
         \A h \in Handler : task'[h].op = "convert" => task'[h].id \in UnderWay
  PROVE  UnderWay' \in SUBSET UnderWay
BY DEF UnderWay

LEMMA SameUnderWay ==
  ASSUME UNCHANGED states, NEW h \in Handler, task[h].op # "convert", task'[h].op # "convert",
         \A g \in Handler \ {h} : task'[g] = task[g]
  PROVE  UnderWay' = UnderWay
BY DEF UnderWay

\* While the manager runs, every row is whole.
LEMMA RowsWhole ==
  ASSUME Inv, up
  PROVE  \A i \in Id : StageOf[i] = rows[i]
BY DEF Inv, Store, Unmigrated, Secured, StageOf, Whole, Stored

LEMMA OwnersFree ==
  ASSUME NEW i \in Id, \A j \in Stored : OwnerOf[j] # OwnerOf[i]
  PROVE  Registry!OwnerFree(i)
BY DEF Registry!OwnerFree, Registry!Connected, StageOf, Whole, Stored

\* A stored connection is updated while nothing else changes.
LEMMA UpdateRefines ==
  ASSUME Inv, up, Inv', up', NEW i \in Id, NEW row, StoreRow(i, row),
         Usable(i) => row \in {"registered", "installed"},
         rows[i] = "none" => row = "installed",
         UNCHANGED <<files, gone>>, UnderWay' = UnderWay
  PROVE  Registry!Next \/ UNCHANGED Registry!vars
<1>1. CASE rows' = rows
  BY <1>1, SameStages DEF Registry!vars
<1>2. CASE Usable(i) /\ rows' = [rows EXCEPT ![i] = row] /\ rows' # rows
  <2>1. StageOf' = [StageOf EXCEPT ![i] = row]
    <3>1. \A j \in Id : StageOf[j] = rows[j] /\ StageOf'[j] = rows'[j]
      BY RowsWhole DEF Inv, Store, Unmigrated, Secured, StageOf, Whole, Stored
    <3>2. rows \in [Id -> Row] /\ DOMAIN StageOf = Id /\ DOMAIN StageOf' = Id
      BY DEF Inv, TypeOK, StageOf
    <3> QED
      BY <1>2, <3>1, <3>2 DEF StageOf
  <2>2. StageOf[i] = rows[i] /\ rows[i] \in Row /\ rows[i] # row
    BY <1>2, RowsWhole DEF Inv, TypeOK
  <2>3. CASE rows[i] = "none"
    <3>1. i \in Env /\ \A j \in Stored : OwnerOf[j] # OwnerOf[i]
      BY <1>2, <2>3, UsableRows DEF Stored
    <3>2. i \notin gone
      BY <3>1 DEF Inv, Store, GoneForGood
    <3>3. Registry!Adopt(i)
      BY <2>1, <2>3, <3>1, <3>2, OwnersFree DEF Registry!Adopt
    <3> QED
      BY <3>3 DEF Registry!Next
  <2>4. CASE rows[i] = "registered"
    <3>1. Registry!Install(i)
      BY <1>2, <2>1, <2>2, <2>4 DEF Registry!Install
    <3> QED
      BY <3>1 DEF Registry!Next
  <2>5. CASE rows[i] = "installed"
    <3>1. Registry!TakeBack(i)
      BY <1>2, <2>1, <2>2, <2>5 DEF Registry!TakeBack
    <3> QED
      BY <3>1 DEF Registry!Next
  <2> QED
    BY <2>2, <2>3, <2>4, <2>5 DEF Row
<1> QED
  BY <1>1, <1>2 DEF StoreRow

\* Steps that change no row and no file and begin no setup.
LEMMA QuietRefines ==
  ASSUME UNCHANGED <<rows, files, gone>>, UnderWay' \in SUBSET UnderWay
  PROVE  Registry!Next
<1>1. Registry!Withdraw
  BY SameStages DEF Registry!Withdraw
<1> QED
  BY <1>1 DEF Registry!Next

LEMMA HandlerRefines ==
  ASSUME Inv, Checked, Inv', NEW h \in Handler,
         \/ RequestFails(h) \/ CheckSucceeds(h) \/ ListSucceeds(h)
         \/ ListRejects(h) \/ ListInterrupted(h) \/ EndScan(h)
         \/ \E i \in Id : Redirect(h, i) \/ BeginScan(h, i)
  PROVE  Registry!Next \/ UNCHANGED Registry!vars
<1>1. up /\ up' = up /\ UNCHANGED <<files, states, gone>>
  BY DEF RequestFails, CheckSucceeds, ListSucceeds, ListRejects, ListInterrupted, EndScan,
         Redirect, BeginScan, Waits, Idle, disk
<1>2. /\ \A g \in Handler \ {h} : task'[g] = task[g]
      /\ task'[h].op # "convert"
  <2>1. Done(h) \/ \E i \in Id, op \in {"check", "list", "scan"} : Wait(h, op, i)
    <3>1. CASE CheckSucceeds(h)
      <4>1. task[h].id \in Id
        BY <3>1, Tasks DEF CheckSucceeds, Waits, Inv, NoTask
      <4> QED
        BY <3>1, <4>1 DEF CheckSucceeds
    <3>2. CASE ~CheckSucceeds(h)
      BY <3>2 DEF RequestFails, ListSucceeds, ListRejects, ListInterrupted, EndScan,
                  Redirect, BeginScan
    <3> QED
      BY <3>1, <3>2
  <2> QED
    BY <1>1, <2>1, Tasks DEF Inv, NoTask
<1>3. CASE RequestFails(h) \/ ListInterrupted(h) \/ \E i \in Id : Redirect(h, i) \/ BeginScan(h, i)
  <2>1. UNCHANGED rows
    BY <1>3 DEF RequestFails, ListInterrupted, Redirect, BeginScan, disk
  <2>2. UnderWay' \in SUBSET UnderWay
    <3>1. \A i \in Id : states'[i] = "open" => i \in UnderWay
      BY <1>1 DEF UnderWay
    <3>2. ASSUME NEW g \in Handler, task'[g].op = "convert"
          PROVE  task'[g].id \in UnderWay
      BY <1>1, <1>2, <3>2 DEF UnderWay, Inv, Setups
    <3> QED
      BY <3>1, <3>2, FewerUnderWay
  <2> QED
    BY <1>1, <2>1, <2>2, QuietRefines
<1>4. CASE CheckSucceeds(h) \/ ListSucceeds(h) \/ ListRejects(h) \/ EndScan(h)
  <2>1. task[h].op \in {"check", "list", "scan"} /\ task[h].id \in Id
    BY <1>4, Tasks DEF CheckSucceeds, ListSucceeds, ListRejects, EndScan, Waits, Inv, NoTask
  <2>2. UnderWay' = UnderWay
    BY <1>1, <1>2, <2>1, SameUnderWay
  <2> DEFINE i == task[h].id
  <2>3. CASE CheckSucceeds(h)
    <3>1. StoreRow(i, "installed")
      BY <2>3 DEF CheckSucceeds, save_installation
    <3> QED
      BY <1>1, <2>1, <2>2, <3>1, UpdateRefines
  <2>4. CASE ListRejects(h)
    <3>1. StoreRow(i, "registered") /\ task[h].op = "list"
      BY <2>4 DEF ListRejects, save_installation, Waits
    <3>2. CASE rows[i] = "none" /\ i \notin Env
      <4>1. UNCHANGED rows
        BY <2>1, <3>1, <3>2, UsableRows DEF StoreRow, Stored
      <4> QED
        BY <1>1, <2>2, <4>1, QuietRefines
    <3>3. CASE rows[i] # "none"
      BY <1>1, <2>1, <2>2, <3>1, <3>3, UpdateRefines
    <3> QED
      BY <3>1, <3>2, <3>3 DEF Checked
  <2>5. CASE ListSucceeds(h) \/ EndScan(h)
    <3>1. CASE UNCHANGED rows
      BY <1>1, <2>2, <3>1, QuietRefines
    <3>2. CASE StoreRow(i, CurrentRow(task[h]))
      <4>1. Usable(i) => CurrentRow(task[h]) \in {"registered", "installed"}
        BY <2>1, CurrentRows
      <4>2. CASE rows[i] = "none" /\ i \notin Env
        <5>1. UNCHANGED rows
          BY <2>1, <3>2, <4>2, UsableRows DEF StoreRow, Stored
        <5> QED
          BY <1>1, <2>2, <5>1, QuietRefines
      <4>3. CASE rows[i] # "none" \/ i \in Env
        <5>1. rows[i] = "none" => CurrentRow(task[h]) = "installed"
          BY <4>3 DEF CurrentRow
        <5> QED
          BY <1>1, <2>1, <2>2, <3>2, <4>1, <5>1, UpdateRefines
      <4> QED
        BY <4>2, <4>3
    <3> QED
      BY <2>5, <3>1, <3>2 DEF ListSucceeds, EndScan, update_repository_metadata
  <2> QED
    BY <1>4, <2>3, <2>4, <2>5
<1> QED
  BY <1>3, <1>4

\* A setup is offered, expires, or is taken up by a handler.
LEMMA SetupRefines ==
  ASSUME Inv, NEW i \in Id,
         OfferSetup(i) \/ Expire(i) \/ \E h \in Handler : Callback(h, i)
  PROVE  Registry!Next
<1>1. UNCHANGED <<rows, files, gone>>
  BY DEF OfferSetup, Expire, Callback
<1>2. CASE OfferSetup(i)
  <2>1. /\ i \in Onboarded /\ rows[i] = "none" /\ states[i] = "none" /\ github[i] = "none" /\ i \notin gone
        /\ states' = [states EXCEPT ![i] = "open"] /\ UNCHANGED task
    BY <1>2 DEF OfferSetup, Unused
  <2>2. i \notin UnderWay
    BY <2>1 DEF UnderWay, Inv, Setups
  <2>3. UnderWay' = UnderWay \cup {i}
    BY <2>1 DEF UnderWay, Inv, TypeOK
  <2>4. i \notin Registry!Connected
    BY <2>1 DEF Registry!Connected, StageOf, Whole
  <2>5. Registry!Offer(i)
    BY <1>1, <2>1, <2>2, <2>3, <2>4, SameStages DEF Registry!Offer
  <2> QED
    BY <2>5 DEF Registry!Next
<1>3. CASE Expire(i)
  <2>1. \A j \in Id : states'[j] = "open" => states[j] = "open"
    BY <1>3 DEF Expire, Inv, TypeOK
  <2>2. \A h \in Handler : task'[h].op = "convert" => task'[h].id \in UnderWay
    BY <1>3 DEF Expire, UnderWay, Inv, Setups
  <2>3. UnderWay' \in SUBSET UnderWay
    BY <2>1, <2>2, FewerUnderWay DEF UnderWay
  <2> QED
    BY <1>1, <2>3, QuietRefines
<1>4. ASSUME NEW h \in Handler, Callback(h, i) PROVE Registry!Next
  <2>1. \A j \in Id : states'[j] = "open" => states[j] = "open"
    BY <1>4 DEF Callback, Consumed, Inv, TypeOK
  <2>2. ASSUME NEW g \in Handler, task'[g].op = "convert" PROVE task'[g].id \in UnderWay
    <3>1. CASE task'[g] = task[g]
      BY <2>2, <3>1 DEF UnderWay, Inv, Setups
    <3>2. CASE states[i] = "open" /\ task'[g].id = i
      BY <3>2 DEF UnderWay
    <3> QED
      BY <1>4, <3>1, <3>2 DEF Callback, Wait, Inv, TypeOK
  <2>3. UnderWay' \in SUBSET UnderWay
    BY <2>1, <2>2, FewerUnderWay DEF UnderWay
  <2> QED
    BY <1>1, <2>3, QuietRefines
<1> QED
  BY <1>2, <1>3, <1>4

\* The code is exchanged.  Until the row is written the registry sees nothing of the
\* connection, so a crash before it only withdraws the setup.
LEMMA ConvertRefines ==
  ASSUME Inv, Inv', NEW h \in Handler, Convert(h)
  PROVE  Registry!Next
<1>0. up /\ task[h].op = "convert" /\ task[h].id \in Onboarded
  BY DEF Convert, Waits, Inv, Setups
<1> PICK i \in Onboarded : i = task[h].id
  BY <1>0
<1>1. /\ rows[i] = "none" /\ i \notin gone /\ i \in Id \ Env /\ i \in UnderWay
      /\ states[i] = "none" /\ \A g \in Handler : Converts(g, i) => g = h
  BY <1>0 DEF Inv, Setups, Converts, UnderWay
<1>2. UNCHANGED <<states, gone>>
  BY DEF Convert
<1>3. \A j \in Id : states'[j] = "open" => j \in UnderWay
  BY <1>2 DEF UnderWay
<1>4. \A g \in Handler : task'[g].op = "convert" => task'[g] = task[g] /\ task'[g].id \in UnderWay
  <2>1. Done(h) \/ Down
    BY DEF Convert
  <2>2. \A g \in Handler : task'[g] = NoTask \/ task'[g] = task[g]
    BY <1>0, <2>1, Tasks DEF Inv
  <2> QED
    BY <2>2 DEF NoTask, UnderWay, Inv, Setups
<1>5. UnderWay' \in SUBSET UnderWay
  BY <1>3, <1>4, FewerUnderWay
<1>6. CASE UNCHANGED <<rows, files>>
  BY <1>2, <1>5, <1>6, QuietRefines
<1>7. CASE ~OwnerTaken(i) /\ Saved(i, 3) /\ Done(h) /\ UNCHANGED up
  <2>1. /\ rows' = [rows EXCEPT ![i] = "registered"]
        /\ files' = [files EXCEPT ![i] = @ \cup {"pem"} \cup {"hook"}]
    BY <1>7 DEF Saved, SavedFirst
  <2>2. StageOf' = [StageOf EXCEPT ![i] = "registered"]
    <3>1. /\ files'[i] = Secrets /\ rows'[i] = "registered"
          /\ \A j \in Id \ {i} : rows'[j] = rows[j] /\ files'[j] = files[j]
      BY <1>1, <2>1 DEF Inv, TypeOK, Secrets
    <3> QED
      BY <1>1, <3>1 DEF StageOf, Whole
  <2>3. UnderWay' = UnderWay \ {i}
    <3>1. task'[h] = NoTask /\ \A g \in Handler \ {h} : task'[g] = task[g]
      BY <1>0, <1>7, Tasks DEF Inv
    <3> QED
      BY <1>1, <1>2, <3>1 DEF UnderWay, Converts, NoTask
  <2>4. Registry!OwnerFree(i)
    BY <1>1, <1>7, OwnersFree DEF OwnerTaken, find_by_owner, Listed, Stored
  <2>5. Registry!Connect(i)
    BY <1>1, <1>2, <2>2, <2>3, <2>4 DEF Registry!Connect
  <2> QED
    BY <1>1, <2>5 DEF Registry!Next
<1>8. ASSUME NEW k \in 1..2, Saved(i, k) PROVE Registry!Next
  <2>1. rows' = rows /\ \A j \in Id \ {i} : files'[j] = files[j]
    BY <1>1, <1>8 DEF Saved, SavedFirst, Inv, TypeOK
  <2>2. StageOf' = StageOf
    BY <1>1, <2>1 DEF StageOf, Whole
  <2>3. Registry!Withdraw
    BY <1>2, <1>5, <2>2 DEF Registry!Withdraw
  <2> QED
    BY <2>3 DEF Registry!Next
<1>9. RowRefused(i) => OwnerTaken(i)
  BY DEF OwnerTaken, RowRefused, find_by_owner, Listed
<1> QED
  BY <1>6, <1>7, <1>8, <1>9 DEF Convert

\* The row goes first and the connection with it, whatever is left of its secrets.
LEMMA DisconnectRefines ==
  ASSUME Inv, NEW i \in Id, Disconnect(i)
  PROVE  Registry!Next
<1>1. up /\ i \in Stored \ Env /\ gone' = gone \cup {i} /\ UNCHANGED states
  BY DEF Disconnect
<1>2. PICK k \in 1..3 : Erased(i, k)
  <2>1. Erased(i, 3) \/ \E k \in 1..2 : Erased(i, k)
    BY DEF Disconnect
  <2> QED
    BY <2>1
<1>3. /\ rows'[i] = "none"
      /\ \A j \in Id \ {i} : rows'[j] = rows[j] /\ files'[j] = files[j]
  BY <1>2 DEF Erased, Inv, TypeOK
<1>4. StageOf' = [StageOf EXCEPT ![i] = "none"]
  <2>1. StageOf'[i] = "none" /\ \A j \in Id \ {i} : StageOf'[j] = StageOf[j]
    BY <1>3 DEF StageOf, Whole
  <2>2. StageOf' = [j \in Id |-> StageOf'[j]] /\ StageOf = [j \in Id |-> StageOf[j]]
    BY DEF StageOf
  <2> QED
    BY <2>1, <2>2
<1>5. i \in Registry!Connected
  BY <1>1, RowsWhole DEF Registry!Connected, Stored
<1>6. UnderWay' \in SUBSET UnderWay
  <2>1. \A g \in Handler : task'[g] = NoTask \/ task'[g] = task[g]
    BY <1>1, Tasks DEF Disconnect, Inv
  <2> QED
    BY <1>1, <2>1 DEF UnderWay, NoTask
<1>7. Registry!Disconnect(i)
  BY <1>1, <1>4, <1>5, <1>6 DEF Registry!Disconnect
<1> QED
  BY <1>7 DEF Registry!Next

\* The older release's connection counts from the move of its last secret on, which may
\* take several starts.
LEMMA StartRefines ==
  ASSUME Inv, Inv', Start
  PROVE  Registry!Next \/ UNCHANGED Registry!vars
<1>1. ~up /\ UNCHANGED <<states, github, task, gone, torn>>
  BY DEF Start
<1>2. UnderWay' = UnderWay
  BY <1>1 DEF UnderWay
<1>3. PICK k \in 1..4 : Migrated(k)
  BY DEF Start
<1>4. CASE ~setting
  BY <1>1, <1>2, <1>3, <1>4, QuietRefines DEF Migrated
<1>5. CASE setting
  <2>1. MigrationTarget = Legacy /\ Stored \subseteq {Legacy} /\ gone = {}
    BY <1>5 DEF MigrationTarget, Inv, Store, Unmigrated
  <2>2. /\ rows' = IF k >= 1 /\ rows[Legacy] = "none" THEN [rows EXCEPT ![Legacy] = "installed"] ELSE rows
        /\ files' = [files EXCEPT ![Legacy] = @ \cup Moved(Legacy, k)]
    BY <1>3, <1>5, <2>1 DEF Migrated
  <2>3. /\ \A i \in Id \ {Legacy} : rows'[i] = rows[i] /\ files'[i] = files[i] /\ rows[i] = "none"
        /\ rows'[Legacy] = "installed" /\ rows[Legacy] \in {"none", "installed"}
        /\ files[Legacy] \subseteq files'[Legacy]
        /\ files[Legacy] \subseteq Secrets /\ files'[Legacy] \subseteq Secrets
    <3>1. rows[Legacy] \in {"none", "installed"} /\ rows'[Legacy] = "installed"
      BY <1>5, <2>2 DEF Inv, Store, Unmigrated, TypeOK, Row
    <3>2. \A i \in Id \ {Legacy} : rows'[i] = rows[i] /\ files'[i] = files[i] /\ rows[i] = "none"
      BY <2>1, <2>2 DEF Inv, TypeOK, Stored
    <3>3. files[Legacy] \subseteq files'[Legacy] /\ files[Legacy] \subseteq Secrets
      BY <2>2 DEF Inv, TypeOK
    <3>4. files'[Legacy] \subseteq Secrets
      BY DEF Inv, TypeOK
    <3> QED
      BY <3>1, <3>2, <3>3, <3>4
  <2>4. CASE StageOf' = StageOf
    BY <1>1, <1>2, <2>4 DEF Registry!vars
  <2>5. CASE StageOf' # StageOf
    <3>1. \A i \in Id \ {Legacy} : StageOf[i] = "none" /\ StageOf'[i] = "none"
      BY <2>3 DEF StageOf, Whole
    <3>2. StageOf[Legacy] = "none" /\ StageOf'[Legacy] = "installed"
      <4>1. StageOf' = [i \in Id |-> StageOf'[i]] /\ StageOf = [i \in Id |-> StageOf[i]]
        BY DEF StageOf
      <4>2. StageOf'[Legacy] # StageOf[Legacy]
        BY <2>5, <3>1, <4>1
      <4>3. Whole(Legacy) => Whole(Legacy)'
        BY <2>3 DEF Whole
      <4>4. /\ StageOf[Legacy] = IF Whole(Legacy) THEN rows[Legacy] ELSE "none"
            /\ StageOf'[Legacy] = IF Whole(Legacy)' THEN rows'[Legacy] ELSE "none"
        BY DEF StageOf
      <4> QED
        BY <2>3, <4>2, <4>3, <4>4 DEF Whole
    <3>3. StageOf' = [StageOf EXCEPT ![Legacy] = "installed"]
      <4>1. StageOf' = [i \in Id |-> StageOf'[i]] /\ StageOf = [i \in Id |-> StageOf[i]]
        BY DEF StageOf
      <4> QED
        BY <3>1, <3>2, <4>1
    <3>4. Registry!OwnerFree(Legacy)
      BY <3>1, <3>2 DEF Registry!OwnerFree, Registry!Connected
    <3>5. Registry!Adopt(Legacy)
      BY <1>1, <1>2, <2>1, <3>3, <3>4 DEF Registry!Adopt
    <3> QED
      BY <3>5 DEF Registry!Next
  <2> QED
    BY <2>4, <2>5
<1> QED
  BY <1>4, <1>5

\* A crash withdraws the setups under way.
LEMMA OutsideRefines ==
  ASSUME Inv, Crash \/ \E i \in Id : Reselect(i)
  PROVE  Registry!Next
<1>1. UNCHANGED <<rows, files, states, gone>>
  BY DEF Crash, Reselect, disk
<1>2. \A g \in Handler : task'[g] = NoTask \/ task'[g] = task[g]
  BY DEF Crash, Reselect, Down
<1>3. UnderWay' \in SUBSET UnderWay
  BY <1>1, <1>2 DEF UnderWay, NoTask
<1> QED
  BY <1>1, <1>3, QuietRefines

LEMMA RegistryInit == Init => Registry!Init
BY DEF Init, Registry!Init, StageOf, Whole, UnderWay, NoTask

LEMMA RegistryStep ==
  ASSUME Inv, Checked, [Next]_vars, Inv'
  PROVE  [Registry!Next]_Registry!vars
<1>1. CASE UNCHANGED vars
  BY <1>1 DEF vars, disk, Registry!vars, StageOf, Whole, UnderWay
<1>2. CASE Next
  BY <1>2, HandlerRefines, SetupRefines, ConvertRefines, DisconnectRefines, StartRefines, OutsideRefines
     DEF Next
<1> QED
  BY <1>1, <1>2

\* The store of rows and files, with its handlers and crashes, implements the abstract
\* registry.
THEOREM RegistryImplemented == Spec => ImplementsRegistry
<1>1. Inv /\ Checked /\ [Next]_vars /\ Inv' => [Registry!Next]_Registry!vars
  BY RegistryStep
<1> QED
  BY <1>1, RegistryInit, CheckedHolds, PTL DEF Spec, ImplementsRegistry, Registry!Spec
==============================================================================
