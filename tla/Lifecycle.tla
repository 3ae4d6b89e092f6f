------------------------------- MODULE Lifecycle -------------------------------
(***************************************************************************)
(* The life of the plugin and of its database: plugin.register boots the   *)
(* app (internal/plugin/main.go, app.go), opening applies the schema and   *)
(* migrates (internal/store/db.go, migrate_v2.go), Boot seeds the settings *)
(* and the prices, the admin edits them, takes copies of the database and  *)
(* restores one over the live file.                                        *)
(*                                                                         *)
(* Every statement of the migration and of the seeding commits alone, and  *)
(* the process may end between any two of them.  Boot and RestoreDB share  *)
(* store.Open, so one variable, proc, is whichever of them is running: the *)
(* host registers a plugin in one thread, and one admin restores at a time.*)
(*                                                                         *)
(* Data: the file holds the columns the migration has added, whether its   *)
(* rows are backfilled, and the settings and prices.  A setting is absent, *)
(* default or edited; a price is absent (NoPrice), edited, or the default  *)
(* of the model that names it.  A handle is named by the generation of the *)
(* file it was opened on; a restore begins a generation.                   *)
(***************************************************************************)
EXTENDS Integers, Sequences, FiniteSets

CONSTANTS
  Settings,          \* keys of the settings table
  Models, Seeded,    \* model names; those DefaultPrices lists
  Kin,               \* of each model, the seeded ones its first word begins
  NoPrice, Edited,   \* no row for a model; the price an admin has set
  Fallback,          \* the price of a model without kin
  NoApp,             \* the nil app and the nil portal
  FirstFiles,        \* databases the plugin may find at its first start
  Uploads,           \* files an admin may restore besides the copies taken
  HasPortal,         \* is portal_listen configured
  MaxEdits,          \* bound: requests of the admin
  MaxTroubles        \* bound: crashes, statements that fail, bad configurations

Columns == {"keys", "packages", "bindings", "logs"}
File == [ok : BOOLEAN, version : 0..2, columns : SUBSET Columns, filled : BOOLEAN,
         settings : [Settings -> {"none", "default", "edited"}],
         prices : [Models -> Seeded \cup {NoPrice, Edited}]]

\* Version 2 is written by the last statement of the migration.
Whole(f) == f.version = 2 => f.columns = Columns /\ f.filled

\* A row has the default of its own model, or a price an admin set.
OwnPrices(f) == \A m \in Models : f.prices[m] \in {NoPrice, Edited, m}

ASSUME LifecycleAssumption ==
  /\ Seeded \subseteq Models /\ Kin \in [Models -> SUBSET Seeded]
  /\ {NoPrice, Edited} \cap Models = {} /\ NoPrice # Edited
  /\ Settings \cap Models = {}
  /\ NoApp \notin Nat
  /\ FirstFiles \subseteq File /\ Uploads \subseteq File
  /\ \A f \in FirstFiles \cup Uploads : Whole(f) /\ OwnPrices(f)
  /\ HasPortal \in BOOLEAN /\ MaxEdits \in Nat /\ MaxTroubles \in Nat

VARIABLES
  db,          \* the database file at db_path
  gen,         \* its generation: how often a restore has replaced it
  app,         \* the handle in App.db, NoApp while app is nil
  portal,      \* the handle the portal was given
  open,        \* the handles that are open
  proc,        \* the Boot or RestoreDB in progress
  copies,      \* files mgmtBackup has sent
  edited,      \* history: settings and models edited in this file
  edits, troubles

handles == <<app, portal, open>>
bounds  == <<edits, troubles>>
vars    == <<db, gen, handles, proc, copies, edited, bounds>>

NoFile == [ok |-> FALSE, version |-> 0, columns |-> {}, filled |-> FALSE,
           settings |-> [k \in Settings |-> "none"],
           prices |-> [m \in Models |-> NoPrice]]
Rest   == [pc |-> "idle", by |-> "boot", next |-> 1, left |-> {}, good |-> TRUE,
           image |-> NoFile]

EditedIn(f) == {k \in Settings : f.settings[k] = "edited"}
                 \cup {m \in Models : f.prices[m] = Edited}

Init ==
  /\ db \in FirstFiles /\ gen = 0
  /\ app = NoApp /\ portal = NoApp /\ open = {}
  /\ proc = Rest /\ copies = {}
  /\ edited = EditedIn(db)
  /\ edits = 0 /\ troubles = 0

Trouble == troubles < MaxTroubles /\ troubles' = troubles + 1 /\ UNCHANGED edits
Edit    == edits < MaxEdits /\ edits' = edits + 1 /\ UNCHANGED troubles
Serving == app \in open

\* Boot or RestoreDB continues at pc.
Goto(pc) == proc' = [proc EXCEPT !.pc = pc]

-----------------------------------------------------------------------------
(* plugin.register and plugin.reconfigure: boot unless there is an app.    *)

\* The configuration is good when its key is 64 hex digits.
Register(good) ==
  /\ app = NoApp /\ proc.pc = "idle"
  /\ IF good THEN UNCHANGED bounds ELSE Trouble
  /\ proc' = [Rest EXCEPT !.pc = "schema", !.good = good]
  /\ open' = open \cup {gen}
  /\ UNCHANGED <<db, gen, app, portal, copies, edited>>

-----------------------------------------------------------------------------
(* store.Open: the schema, then the migration statement by statement.  A   *)
(* failure closes the handle: Boot leaves app nil, and RestoreDB leaves it *)
(* the handle it closed before.                                            *)

OpenFails == proc' = Rest /\ open' = open \ {gen} /\ UNCHANGED <<app, portal>>

\* The schema of a new file says version 1; SQLite refuses a file that is not
\* a database.
ApplySchema ==
  /\ proc.pc = "schema"
  /\ \/ /\ db.ok
        /\ db' = [db EXCEPT !.version = IF @ = 0 THEN 1 ELSE @]
        /\ Goto(IF db'.version < 2 THEN "migrate" ELSE "opened")
        /\ UNCHANGED <<handles, bounds>>
     \/ ~db.ok /\ OpenFails /\ UNCHANGED <<db, bounds>>
     \/ Trouble /\ OpenFails /\ UNCHANGED db
  /\ UNCHANGED <<gen, copies, edited>>

\* Faulty variant: the version is written first.
Reordered == <<"version", "keys", "packages", "bindings", "logs", "fill">>

\* The 20 statements in groups: the columns of a table, the backfills.
Statements == <<"keys", "packages", "bindings", "logs", "fill", "version">>

Migrated(stmt) ==
  CASE stmt \in Columns  -> [db EXCEPT !.columns = @ \cup {stmt}]
    [] stmt = "fill"     -> [db EXCEPT !.filled = TRUE]
    [] stmt = "version"  -> [db EXCEPT !.version = 2]

\* Faulty variant: a column that is there already is an error.
StatementFailsOnDuplicate(stmt) == stmt \in db.columns

\* "duplicate column" means done.
StatementFails(stmt) == FALSE

MigrateV2 ==
  LET stmt == Statements[proc.next] IN
  /\ proc.pc = "migrate"
  /\ \/ /\ ~StatementFails(stmt)
        /\ db' = Migrated(stmt)
        /\ proc' = IF proc.next < Len(Statements)
                     THEN [proc EXCEPT !.next = @ + 1]
                     ELSE [proc EXCEPT !.pc = "opened", !.next = 1]
        /\ UNCHANGED <<handles, bounds>>
     \/ StatementFails(stmt) /\ OpenFails /\ UNCHANGED <<db, bounds>>
     \/ Trouble /\ OpenFails /\ UNCHANGED db
  /\ UNCHANGED <<gen, copies, edited>>

-----------------------------------------------------------------------------
(* The rest of Boot.                                                       *)

CheckSecret ==
  /\ proc.pc = "opened" /\ proc.by = "boot"
  /\ \/ proc.good /\ Goto("defaults") /\ UNCHANGED handles
     \/ ~proc.good /\ OpenFails
  /\ UNCHANGED <<db, gen, copies, edited, bounds>>

\* Faulty variant: the defaults replace what is there.
DefaultsOver(k) == "default"

\* INSERT OR IGNORE.
DefaultsInto(k) == IF db.settings[k] = "none" THEN "default" ELSE db.settings[k]

\* One transaction; an error is only logged.
InitDefaults ==
  /\ proc.pc = "defaults"
  /\ \/ /\ db' = [db EXCEPT !.settings = [k \in Settings |-> DefaultsInto(k)]]
        /\ UNCHANGED bounds
     \/ Trouble /\ UNCHANGED db
  /\ Goto("count")
  /\ UNCHANGED <<gen, handles, copies, edited>>

\* SeedPricing does nothing when the table has any row.
CountPrices ==
  /\ proc.pc = "count"
  /\ proc' = [proc EXCEPT !.pc = "seed",
       !.left = IF \A m \in Models : db.prices[m] = NoPrice THEN Seeded ELSE {}]
  /\ UNCHANGED <<db, gen, handles, copies, edited, bounds>>

\* The defaults are inserted one by one, in the order of a Go map; the first
\* error ends the seeding and is only logged.
SeedPrice ==
  /\ proc.pc = "seed"
  /\ \/ \E m \in proc.left :
          /\ db' = [db EXCEPT !.prices[m] = m]
          /\ proc' = [proc EXCEPT !.left = @ \ {m}]
          /\ UNCHANGED bounds
     \/ /\ proc.left # {} /\ Trouble /\ UNCHANGED db
        /\ proc' = [proc EXCEPT !.left = {}]
  /\ UNCHANGED <<gen, handles, copies, edited>>

\* ReleaseStale (Billing) follows, then the app and the portal get the handle.
BootUp ==
  /\ proc.pc = "seed" /\ proc.left = {}
  /\ app' = gen /\ portal' = IF HasPortal THEN gen ELSE NoApp
  /\ proc' = Rest
  /\ UNCHANGED <<db, gen, open, copies, edited, bounds>>

-----------------------------------------------------------------------------
(* mgmtRestore: the upload is written aside, the live handle closed, the   *)
(* file renamed into place and opened.  The portal keeps its handle.       *)

\* Also with a handle that is closed: after a failed restore a second one may
\* succeed.
RestoreBegin(f) ==
  /\ app # NoApp /\ proc.pc = "idle" /\ Edit
  /\ proc' = [Rest EXCEPT !.pc = "close", !.by = "restore", !.image = f]
  /\ UNCHANGED <<db, gen, handles, copies, edited>>

\* Faulty variant: the old handle stays open.
RestoreWithoutClose ==
  /\ proc.pc = "close" /\ Goto("rename")
  /\ UNCHANGED <<db, gen, handles, copies, edited, bounds>>

\* Writing the file aside fails, or the handle is closed.
RestoreClose ==
  /\ proc.pc = "close"
  /\ \/ /\ open' = open \ {app} /\ Goto("rename")
        /\ UNCHANGED bounds
     \/ /\ Trouble /\ proc' = Rest /\ UNCHANGED open
  /\ UNCHANGED <<db, gen, app, portal, copies, edited>>

RestoreRename ==
  /\ proc.pc = "rename"
  /\ \/ /\ db' = proc.image /\ gen' = gen + 1
        /\ open' = open \cup {gen'}
        /\ edited' = EditedIn(proc.image)
        /\ proc' = [proc EXCEPT !.pc = "schema", !.image = NoFile]
        /\ UNCHANGED bounds
     \/ Trouble /\ proc' = Rest /\ UNCHANGED <<db, gen, open, edited>>
  /\ UNCHANGED <<app, portal, copies>>

RestoreSwap ==
  /\ proc.pc = "opened" /\ proc.by = "restore"
  /\ app' = gen /\ proc' = Rest
  /\ UNCHANGED <<db, gen, portal, open, copies, edited, bounds>>

\* VACUUM INTO a file of its own: the whole database at one moment.
Backup ==
  /\ Serving /\ Edit
  /\ copies' = copies \cup {db}
  /\ UNCHANGED <<db, gen, handles, proc, edited>>

-----------------------------------------------------------------------------
(* The settings and prices at run time.                                    *)

\* Settings().Set: mgmtPutSettings, mgmtPutFX, mgmtPutReferralConfig and
\* mgmtPutLogsConfig write the keys of a request one by one.
PutSetting(k) ==
  /\ Serving /\ Edit
  /\ db' = [db EXCEPT !.settings[k] = "edited"]
  /\ edited' = edited \cup {k}
  /\ UNCHANGED <<gen, handles, proc, copies>>

\* mgmtPutPricing.
UpdatePrice(m) ==
  /\ Serving /\ Edit
  /\ db' = [db EXCEPT !.prices[m] = Edited]
  /\ edited' = edited \cup {m}
  /\ UNCHANGED <<gen, handles, proc, copies>>

\* Faulty variant: a model without a row is priced by its family.
LoadPriceByFamily(m) ==
  IF db.prices[m] # NoPrice THEN {db.prices[m]}
  ELSE Kin[m]

\* What a call of model m may be charged by: its row, its default, the default
\* of any of its kin (map order), or the last fallback.
LoadPrice(m) ==
  CASE db.prices[m] # NoPrice                   -> {db.prices[m]}
    [] db.prices[m] = NoPrice /\ m \in Seeded   -> {m}
    [] db.prices[m] = NoPrice /\ m \notin Seeded ->
         IF Kin[m] # {} THEN Kin[m] ELSE {Fallback}

-----------------------------------------------------------------------------
(* The process.  A nil app is all a new process has.                       *)

NewProcess ==
  /\ app' = NoApp /\ portal' = NoApp /\ open' = {} /\ proc' = Rest
  /\ UNCHANGED <<db, gen, copies, edited>>

Crash == Trouble /\ NewProcess

\* cliproxyPluginShutdown closes the handle and keeps the app.
Shutdown ==
  /\ Serving /\ proc.pc = "idle" /\ Edit
  /\ open' = open \ {app}
  /\ UNCHANGED <<db, gen, app, portal, proc, copies, edited>>

\* The operator restarts a host whose plugin has lost its handle.
Restart ==
  /\ app # NoApp /\ ~Serving /\ proc.pc = "idle"
  /\ NewProcess /\ UNCHANGED bounds

-----------------------------------------------------------------------------

\* The next statement of the Boot or RestoreDB in progress.
Step ==
  \/ ApplySchema \/ MigrateV2
  \/ CheckSecret \/ InitDefaults \/ CountPrices \/ SeedPrice \/ BootUp
  \/ RestoreClose \/ RestoreRename \/ RestoreSwap

Request ==
  \/ \E f \in Uploads \cup copies : RestoreBegin(f)
  \/ Backup \/ Shutdown
  \/ \E k \in Settings : PutSetting(k)
  \/ \E m \in Models : UpdatePrice(m)

Next ==
  \/ \E good \in BOOLEAN : Register(good)
  \/ Step \/ Request \/ Crash \/ Restart

Spec == Init /\ [][Next]_vars

\* The host registers a plugin that has no app, and Boot and RestoreDB, plain
\* sequences of statements, run to their end.
FairSpec == Spec /\ WF_vars(Register(TRUE)) /\ WF_vars(Step)

-----------------------------------------------------------------------------

Proc == [pc : {"idle", "schema", "migrate", "opened", "defaults", "count", "seed",
               "close", "rename"},
         by : {"boot", "restore"}, next : 1..Len(Statements), left : SUBSET Seeded,
         good : BOOLEAN, image : File]

\* The shapes of the file, the handles and the operation in progress.
TypeOK ==
  /\ db \in File /\ gen \in Nat
  /\ app \in Nat \cup {NoApp} /\ portal \in Nat \cup {NoApp} /\ open \subseteq Nat
  /\ proc \in Proc
  /\ copies \subseteq File /\ edited \subseteq Settings \cup Models
  /\ edits \in 0..MaxEdits /\ troubles \in 0..MaxTroubles

\* A file that says version 2 has every column and its backfill, wherever a
\* migration was cut short, and no file is served before (migrateV2).
MigrationWhole == Whole(db) /\ (Serving => db.version = 2)

\* Nothing is written to a file that a restore has replaced: every open handle
\* is on the present file, so the app and the portal never write to two
\* databases (RestoreDB).
OneDatabase ==
  /\ open \subseteq {gen}
  /\ portal \in open => portal = app

\* However often the plugin starts and wherever a start is cut short, what the
\* admin set stays, and a model with a default is charged by it until edited
\* (InitDefaults, SeedPricing, LoadPrice).
EditsSurvive ==
  /\ \A k \in Settings \cap edited : db.settings[k] = "edited"
  /\ \A m \in Seeded : LoadPrice(m) = {IF m \in edited THEN Edited ELSE m}

\* A database that opens is served in the end, also after a migration that was
\* cut short (Boot, migrateV2).
BootCompletes == (app = NoApp /\ db.ok) ~> (app # NoApp)

\* RestoreDB's comment: the uploaded file is validated before the swap, so a
\* file that does not open never takes the place of one that does.
RestoreValidates == [][db.ok => db'.ok]_vars
=============================================================================
