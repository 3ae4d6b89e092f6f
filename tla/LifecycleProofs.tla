---------------------------- MODULE LifecycleProofs ----------------------------
(***************************************************************************)
(* Proofs about Lifecycle, for any settings and models and any number of   *)
(* crashes, failed statements, starts and restores.  Three invariants      *)
(* build on each other: HandlesKept says which handles may be open at each *)
(* statement of Boot and RestoreDB, FilesSound what the file is worth      *)
(* there, and EditsKept what has become of the admin's settings.           *)
(***************************************************************************)
EXTENDS Lifecycle, TLAPS

\* While a file is being opened nobody serves: Boot has no app yet, and the app
\* of a restore has a handle that is closed.
HandlesKept ==
  /\ open \subseteq {gen}
  /\ app # NoApp => app <= gen
  /\ portal # NoApp => portal <= gen
  /\ app = NoApp => portal = NoApp
  /\ portal = gen => app = gen
  /\ proc.pc # "idle" /\ proc.by = "boot" => app = NoApp
  /\ proc.pc \in {"schema", "migrate", "opened"} => app # gen
  /\ proc.pc \in {"defaults", "count", "seed"} => proc.by = "boot"
  /\ proc.pc \in {"idle", "close"} => open \subseteq {app}
  /\ proc.pc = "rename" => open = {}

\* The statements of the migration before the n-th have been executed.
Executed(f, n) ==
  /\ n > 1 => "keys" \in f.columns
  /\ n > 2 => "packages" \in f.columns
  /\ n > 3 => "bindings" \in f.columns
  /\ n > 4 => "logs" \in f.columns
  /\ n > 5 => f.filled

Sound(f) == Whole(f) /\ OwnPrices(f)

FilesSound ==
  /\ Sound(db) /\ Sound(proc.image) /\ \A f \in copies : Sound(f)
  /\ IF proc.pc = "migrate" THEN Executed(db, proc.next) ELSE proc.next = 1
  /\ proc.pc \in {"opened", "defaults", "count", "seed"} => db.version = 2
  /\ Serving => db.version = 2

\* What is still to be seeded has no row, so no edit can be overwritten.
EditsKept ==
  /\ \A k \in Settings \cap edited : db.settings[k] = "edited"
  /\ \A m \in Models : m \in edited <=> db.prices[m] = Edited
  /\ proc.pc = "seed" => \A m \in proc.left : db.prices[m] = NoPrice

-----------------------------------------------------------------------------
(* Type correctness.                                                       *)

LEMMA RestProper == NoFile \in File /\ Rest \in Proc /\ Len(Statements) = 6
  BY DEF NoFile, File, Rest, Proc, Statements, Columns

\* A statement of the migration leaves a file.
LEMMA MigratedProper ==
  ASSUME TypeOK
  PROVE  Migrated(Statements[proc.next]) \in File
<1>1. proc.next \in 1..6 /\ db \in File
  BY RestProper DEF TypeOK, Proc
<1>2. Statements[proc.next] \in Columns \cup {"fill", "version"}
  BY <1>1 DEF Statements, Columns
<1>3. CASE Statements[proc.next] \in Columns
  <2>1. Migrated(Statements[proc.next]) = [db EXCEPT !.columns = @ \cup {Statements[proc.next]}]
    BY <1>3 DEF Migrated, Columns
  <2> QED BY <1>1, <1>3, <2>1 DEF File
<1>4. CASE Statements[proc.next] = "fill"
  <2>1. Migrated(Statements[proc.next]) = [db EXCEPT !.filled = TRUE]
    BY <1>4 DEF Migrated, Columns
  <2> QED BY <1>1, <2>1 DEF File
<1>5. CASE Statements[proc.next] = "version"
  <2>1. Migrated(Statements[proc.next]) = [db EXCEPT !.version = 2]
    BY <1>5 DEF Migrated, Columns
  <2> QED BY <1>1, <2>1 DEF File
<1> QED
  BY <1>2, <1>3, <1>4, <1>5

LEMMA StepTypes == TypeOK /\ Step => TypeOK'
<1> SUFFICES ASSUME TypeOK, Step PROVE TypeOK'
  OBVIOUS
<1> USE DEF TypeOK
<1>1. /\ proc.next \in 1..6 /\ \A pc : [proc EXCEPT !.pc = pc].pc = pc
      /\ \A pc \in {"idle", "schema", "migrate", "opened", "defaults", "count", "seed",
                    "close", "rename"} : [proc EXCEPT !.pc = pc] \in Proc
  BY RestProper DEF Proc
<1>2. Trouble => troubles' \in 0..MaxTroubles /\ edits' = edits
  BY LifecycleAssumption DEF Trouble
<1>3. OpenFails => proc' \in Proc /\ open' \subseteq Nat /\ UNCHANGED <<app, portal>>
  BY RestProper DEF OpenFails
<1>4. CASE ApplySchema
  <2>1. db' \in File
    <3>1. [db EXCEPT !.version = IF @ = 0 THEN 1 ELSE @] \in File
      BY DEF File
    <3> QED BY <1>4, <3>1 DEF ApplySchema
  <2>2. proc' \in Proc /\ open' \subseteq Nat /\ UNCHANGED <<app, portal>>
    BY <1>1, <1>3, <1>4 DEF ApplySchema, Goto, handles
  <2>3. edits' \in 0..MaxEdits /\ troubles' \in 0..MaxTroubles
    BY <1>2, <1>4 DEF ApplySchema, bounds
  <2> QED BY <1>4, <2>1, <2>2, <2>3 DEF ApplySchema
<1>5. CASE MigrateV2
  <2>1. db' \in File
    BY <1>5, MigratedProper DEF MigrateV2
  <2>2. proc' \in Proc /\ open' \subseteq Nat /\ UNCHANGED <<app, portal>>
    <3>1. [proc EXCEPT !.pc = "opened", !.next = 1] \in Proc
      <4>1. 1 \in 1..Len(Statements)
        BY RestProper
      <4> QED BY <4>1 DEF Proc
    <3>2. ASSUME proc.next < 6 PROVE [proc EXCEPT !.next = @ + 1] \in Proc
      <4>1. proc.next + 1 \in 1..Len(Statements)
        BY <1>1, <3>2, RestProper
      <4> QED BY <4>1 DEF Proc
    <3> QED BY <1>3, <1>5, <3>1, <3>2, RestProper DEF MigrateV2, handles
  <2>3. edits' \in 0..MaxEdits /\ troubles' \in 0..MaxTroubles
    BY <1>2, <1>5 DEF MigrateV2, bounds
  <2> QED BY <1>5, <2>1, <2>2, <2>3 DEF MigrateV2
<1>6. CASE CheckSecret
  <2>1. proc' \in Proc /\ open' \subseteq Nat /\ UNCHANGED <<app, portal>>
    BY <1>1, <1>3, <1>6 DEF CheckSecret, Goto, handles
  <2> QED BY <1>6, <2>1 DEF CheckSecret, bounds
<1>7. CASE InitDefaults
  <2>1. [db EXCEPT !.settings = [k \in Settings |-> DefaultsInto(k)]] \in File
    <3>1. \A k \in Settings : DefaultsInto(k) \in {"none", "default", "edited"}
      BY DEF DefaultsInto, File
    <3> QED BY <3>1 DEF File
  <2>2. db' \in File /\ proc' \in Proc
    BY <1>1, <1>7, <2>1 DEF InitDefaults, Goto
  <2>3. edits' \in 0..MaxEdits /\ troubles' \in 0..MaxTroubles
    BY <1>2, <1>7 DEF InitDefaults, bounds
  <2> QED BY <1>7, <2>2, <2>3 DEF InitDefaults, handles
<1>8. CASE CountPrices
  <2>1. proc' \in Proc
    BY <1>8 DEF CountPrices, Proc
  <2> QED BY <1>8, <2>1 DEF CountPrices, handles, bounds
<1>9. CASE SeedPrice
  <2>1. \A m \in proc.left : [db EXCEPT !.prices[m] = m] \in File
    BY LifecycleAssumption DEF File, Proc
  <2>2. /\ [proc EXCEPT !.left = {}] \in Proc
        /\ \A m : [proc EXCEPT !.left = @ \ {m}] \in Proc
    BY DEF Proc
  <2>3. db' \in File /\ proc' \in Proc
    BY <1>9, <2>1, <2>2 DEF SeedPrice
  <2>4. edits' \in 0..MaxEdits /\ troubles' \in 0..MaxTroubles
    BY <1>2, <1>9 DEF SeedPrice, bounds
  <2> QED BY <1>9, <2>3, <2>4 DEF SeedPrice, handles
<1>10. CASE BootUp
  BY <1>10, RestProper DEF BootUp, bounds
<1>11. CASE RestoreClose
  <2>1. proc' \in Proc /\ open' \subseteq Nat
    BY <1>1, <1>11, RestProper DEF RestoreClose, Goto
  <2>2. edits' \in 0..MaxEdits /\ troubles' \in 0..MaxTroubles
    BY <1>2, <1>11 DEF RestoreClose, bounds
  <2> QED BY <1>11, <2>1, <2>2 DEF RestoreClose
<1>12. CASE RestoreRename
  <2>1. db' \in File /\ proc' \in Proc /\ gen' \in Nat /\ open' \subseteq Nat
    <3>1. [proc EXCEPT !.pc = "schema", !.image = NoFile] \in Proc /\ proc.image \in File
      BY RestProper DEF Proc
    <3> QED BY <1>12, <3>1, RestProper DEF RestoreRename
  <2>2. edited' \subseteq Settings \cup Models
    BY <1>12 DEF RestoreRename, EditedIn
  <2>3. edits' \in 0..MaxEdits /\ troubles' \in 0..MaxTroubles
    BY <1>2, <1>12 DEF RestoreRename, bounds
  <2> QED BY <1>12, <2>1, <2>2, <2>3 DEF RestoreRename
<1>13. CASE RestoreSwap
  BY <1>13, RestProper DEF RestoreSwap, bounds
<1> QED
  BY <1>4, <1>5, <1>6, <1>7, <1>8, <1>9, <1>10, <1>11, <1>12, <1>13 DEF Step

LEMMA NextTypes == TypeOK /\ [Next]_vars => TypeOK'
<1> SUFFICES ASSUME TypeOK, [Next]_vars PROVE TypeOK'
  OBVIOUS
<1> USE DEF TypeOK
<1>1. /\ Trouble => troubles' \in 0..MaxTroubles /\ edits' = edits
      /\ Edit => edits' \in 0..MaxEdits /\ troubles' = troubles
  BY LifecycleAssumption DEF Trouble, Edit
<1>2. ASSUME NEW good \in BOOLEAN, Register(good) PROVE TypeOK'
  <2>1. [Rest EXCEPT !.pc = "schema", !.good = good] \in Proc
    BY RestProper DEF Proc
  <2>2. edits' \in 0..MaxEdits /\ troubles' \in 0..MaxTroubles
    BY <1>1, <1>2 DEF Register, bounds
  <2> QED BY <1>2, <2>1, <2>2 DEF Register
<1>3. ASSUME NEW f \in Uploads \cup copies, RestoreBegin(f) PROVE TypeOK'
  <2>1. [Rest EXCEPT !.pc = "close", !.by = "restore", !.image = f] \in Proc
    BY RestProper, LifecycleAssumption DEF Proc
  <2> QED BY <1>1, <1>3, <2>1 DEF RestoreBegin, handles
<1>4. ASSUME Backup \/ Shutdown PROVE TypeOK'
  BY <1>1, <1>4 DEF Backup, Shutdown, handles
<1>5. ASSUME NEW k \in Settings, PutSetting(k) PROVE TypeOK'
  <2>1. [db EXCEPT !.settings[k] = "edited"] \in File
    BY DEF File
  <2> QED BY <1>1, <1>5, <2>1 DEF PutSetting, handles
<1>6. ASSUME NEW m \in Models, UpdatePrice(m) PROVE TypeOK'
  <2>1. [db EXCEPT !.prices[m] = Edited] \in File
    BY DEF File
  <2> QED BY <1>1, <1>6, <2>1 DEF UpdatePrice, handles
<1>7. ASSUME Crash \/ Restart PROVE TypeOK'
  <2>1. edits' \in 0..MaxEdits /\ troubles' \in 0..MaxTroubles
    BY <1>1, <1>7 DEF Crash, Restart, bounds
  <2> QED BY <1>7, <2>1, RestProper DEF Crash, Restart, NewProcess
<1>8. CASE UNCHANGED vars
  BY <1>8 DEF vars, handles, bounds
<1> QED
  BY <1>2, <1>3, <1>4, <1>5, <1>6, <1>7, <1>8, StepTypes DEF Next, Request

LEMMA InitTypes == Init => TypeOK
  BY RestProper, LifecycleAssumption DEF Init, TypeOK, EditedIn

\* The file, the handles and the Boot or restore in progress keep their shapes.
THEOREM LifecycleTypeCorrect == Spec => []TypeOK
  BY InitTypes, NextTypes, PTL DEF Spec

-----------------------------------------------------------------------------
(* Which handles are open.                                                 *)

LEMMA RestIdle ==
  Rest.pc = "idle" /\ Rest.by = "boot" /\ Rest.next = 1 /\ Rest.image = NoFile
  BY DEF Rest

\* An opening that fails leaves no handle open.
LEMMA FailKeepsHandles ==
  ASSUME TypeOK, HandlesKept, OpenFails, gen' = gen
  PROVE  HandlesKept' /\ open' = {}
  BY RestIdle DEF TypeOK, HandlesKept, OpenFails

LEMMA StepHandles == TypeOK /\ HandlesKept /\ Step => HandlesKept'
<1> SUFFICES ASSUME TypeOK, HandlesKept, Step PROVE HandlesKept'
  OBVIOUS
<1>1. \A pc : Goto(pc) => proc'.pc = pc /\ proc'.by = proc.by
  BY DEF TypeOK, Proc, Goto
<1>2. gen \in Nat /\ NoApp \notin Nat /\ app \in Nat \cup {NoApp}
      /\ portal \in Nat \cup {NoApp}
  BY LifecycleAssumption DEF TypeOK
<1>3. CASE ApplySchema
  <2>1. OpenFails \/ (UNCHANGED handles /\ proc'.by = proc.by
                      /\ proc'.pc \in {"migrate", "opened"})
    BY <1>1, <1>3 DEF ApplySchema
  <2> QED BY <1>3, <2>1, FailKeepsHandles DEF ApplySchema, HandlesKept, handles
<1>4. CASE MigrateV2
  <2>1. OpenFails \/ (UNCHANGED handles /\ proc'.by = proc.by
                      /\ proc'.pc \in {"migrate", "opened"})
    BY <1>4 DEF MigrateV2, TypeOK, Proc
  <2> QED BY <1>4, <2>1, FailKeepsHandles DEF MigrateV2, HandlesKept, handles
<1>5. CASE CheckSecret
  <2>1. OpenFails \/ (UNCHANGED handles /\ proc'.by = proc.by /\ proc'.pc = "defaults")
    BY <1>1, <1>5 DEF CheckSecret
  <2> QED BY <1>5, <2>1, FailKeepsHandles DEF CheckSecret, HandlesKept, handles
<1>6. CASE InitDefaults \/ CountPrices
  <2>1. UNCHANGED <<gen, handles>> /\ proc'.by = proc.by /\ proc'.pc \in {"count", "seed"}
        /\ proc.pc \in {"defaults", "count"}
    BY <1>1, <1>6 DEF InitDefaults, CountPrices, TypeOK, Proc
  <2> QED BY <2>1 DEF HandlesKept, handles
<1>7. CASE SeedPrice
  <2>1. UNCHANGED <<gen, handles>> /\ proc'.by = proc.by /\ proc'.pc = "seed"
        /\ proc.pc = "seed"
    BY <1>7 DEF SeedPrice, TypeOK, Proc
  <2> QED BY <2>1 DEF HandlesKept, handles
<1>8. CASE BootUp
  BY <1>2, <1>8, RestIdle DEF BootUp, HandlesKept
<1>9. CASE RestoreClose
  <2>1. \/ open' = open \ {app} /\ proc'.pc = "rename" /\ proc'.by = proc.by
        \/ open' = open /\ proc' = Rest
    BY <1>1, <1>9 DEF RestoreClose
  <2> QED BY <1>2, <1>9, <2>1, RestIdle DEF RestoreClose, HandlesKept
<1>10. CASE RestoreRename
  <2>1. \/ gen' = gen + 1 /\ open' = open \cup {gen'} /\ proc'.pc = "schema"
           /\ proc'.by = proc.by
        \/ proc' = Rest /\ UNCHANGED <<gen, open>>
    BY <1>10 DEF RestoreRename, TypeOK, Proc
  <2> QED BY <1>2, <1>10, <2>1, RestIdle DEF RestoreRename, HandlesKept
<1>11. CASE RestoreSwap
  BY <1>2, <1>11, RestIdle DEF RestoreSwap, HandlesKept
<1> QED
  BY <1>3, <1>4, <1>5, <1>6, <1>7, <1>8, <1>9, <1>10, <1>11 DEF Step

LEMMA NextHandles == TypeOK /\ HandlesKept /\ [Next]_vars => HandlesKept'
<1> SUFFICES ASSUME TypeOK, HandlesKept, [Next]_vars PROVE HandlesKept'
  OBVIOUS
<1>1. gen \in Nat /\ NoApp \notin Nat /\ app \in Nat \cup {NoApp}
      /\ portal \in Nat \cup {NoApp}
  BY LifecycleAssumption DEF TypeOK
<1>2. ASSUME NEW good \in BOOLEAN, Register(good) PROVE HandlesKept'
  <2>1. proc'.pc = "schema" /\ proc'.by = "boot"
    BY <1>2 DEF Register, Rest
  <2> QED BY <1>1, <1>2, <2>1 DEF Register, HandlesKept
<1>3. ASSUME NEW f \in Uploads \cup copies, RestoreBegin(f) PROVE HandlesKept'
  <2>1. proc'.pc = "close" /\ proc'.by = "restore"
    BY <1>3 DEF RestoreBegin, Rest
  <2> QED BY <1>1, <1>3, <2>1 DEF RestoreBegin, HandlesKept, handles, Serving
<1>4. ASSUME Crash \/ Restart PROVE HandlesKept'
  BY <1>1, <1>4, RestIdle DEF Crash, Restart, NewProcess, HandlesKept
<1>5. ASSUME Shutdown PROVE HandlesKept'
  BY <1>1, <1>5 DEF Shutdown, HandlesKept
<1>6. ASSUME Backup \/ (\E k \in Settings : PutSetting(k)) \/ (\E m \in Models : UpdatePrice(m))
      PROVE  HandlesKept'
  BY <1>6 DEF Backup, PutSetting, UpdatePrice, handles, HandlesKept
<1>7. CASE UNCHANGED vars
  BY <1>7 DEF vars, handles, HandlesKept
<1> QED
  BY <1>2, <1>3, <1>4, <1>5, <1>6, <1>7, StepHandles DEF Next, Request

LEMMA InitHandles == Init => HandlesKept
  BY LifecycleAssumption, RestIdle DEF Init, HandlesKept

\* No handle is open on a file that a restore has replaced, and the app and the
\* portal never have two databases open, wherever a restore fails or dies.
THEOREM RestoreIsExclusive == Spec => []OneDatabase
<1>1. TypeOK /\ HandlesKept => OneDatabase
  BY DEF TypeOK, HandlesKept, OneDatabase
<1> QED
  BY <1>1, InitTypes, NextTypes, InitHandles, NextHandles, PTL DEF Spec

-----------------------------------------------------------------------------
(* What the file is worth.                                                 *)

\* Each statement of the migration does its part, and the last one follows
\* all the others.
LEMMA StatementDone ==
  ASSUME TypeOK, Sound(db), Executed(db, proc.next)
  PROVE  LET f == Migrated(Statements[proc.next]) IN
         /\ Sound(f) /\ Executed(f, proc.next + 1)
         /\ proc.next = 6 => f.version = 2
         /\ f.settings = db.settings /\ f.prices = db.prices
<1> DEFINE f == Migrated(Statements[proc.next])
<1>1. proc.next \in 1..6 /\ db \in File
  BY RestProper DEF TypeOK, Proc
<1>2. CASE proc.next \in 1..4
  <2>1. Statements[proc.next] \in Columns
        /\ Statements[proc.next] = <<"keys", "packages", "bindings", "logs">>[proc.next]
    BY <1>2 DEF Statements, Columns
  <2>2. f = [db EXCEPT !.columns = @ \cup {Statements[proc.next]}]
    BY <2>1 DEF Migrated, Columns
  <2>3. /\ f.columns = db.columns \cup {Statements[proc.next]}
        /\ f.version = db.version /\ f.filled = db.filled
        /\ f.settings = db.settings /\ f.prices = db.prices
    BY <1>1, <2>2 DEF File
  <2>4. Sound(f)
    <3>1. f.columns \subseteq Columns
      BY <1>1, <2>1, <2>3 DEF File
    <3> QED BY <2>3, <3>1 DEF Sound, Whole, OwnPrices
  <2>5. Executed(f, proc.next + 1)
    <3>1. CASE proc.next = 1
      BY <2>1, <2>3, <3>1 DEF Executed
    <3>2. CASE proc.next = 2
      BY <2>1, <2>3, <3>2 DEF Executed
    <3>3. CASE proc.next = 3
      BY <2>1, <2>3, <3>3 DEF Executed
    <3>4. CASE proc.next = 4
      BY <2>1, <2>3, <3>4 DEF Executed
    <3> QED BY <1>2, <3>1, <3>2, <3>3, <3>4
  <2> QED BY <1>2, <2>3, <2>4, <2>5
<1>3. CASE proc.next = 5
  <2>1. Statements[proc.next] = "fill"
    BY <1>3 DEF Statements
  <2>2. f = [db EXCEPT !.filled = TRUE]
    BY <2>1 DEF Migrated, Columns
  <2>3. /\ f.columns = db.columns /\ f.version = db.version /\ f.filled
        /\ f.settings = db.settings /\ f.prices = db.prices
    BY <1>1, <2>2 DEF File
  <2> QED BY <1>3, <2>3 DEF Sound, Whole, OwnPrices, Executed
<1>4. CASE proc.next = 6
  <2>1. Statements[proc.next] = "version"
    BY <1>4 DEF Statements
  <2>2. f = [db EXCEPT !.version = 2]
    BY <2>1 DEF Migrated, Columns
  <2>3. /\ f.columns = db.columns /\ f.version = 2 /\ f.filled = db.filled
        /\ f.settings = db.settings /\ f.prices = db.prices
    BY <1>1, <2>2 DEF File
  <2>4. db.columns = Columns /\ db.filled
    BY <1>1, <1>4 DEF Executed, Columns, File
  <2> QED BY <1>4, <2>3, <2>4 DEF Sound, Whole, OwnPrices, Executed, Columns
<1> QED
  BY <1>1, <1>2, <1>3, <1>4

LEMMA SoundFiles == Sound(NoFile) /\ \A f \in FirstFiles \cup Uploads : Sound(f)
  BY LifecycleAssumption DEF Sound, NoFile, Whole, OwnPrices

LEMMA StepFiles == TypeOK /\ HandlesKept /\ FilesSound /\ Step => FilesSound'
<1> SUFFICES ASSUME TypeOK, HandlesKept, FilesSound, Step PROVE FilesSound'
  OBVIOUS
<1>1. \A pc : Goto(pc) => proc'.pc = pc /\ proc'.next = proc.next
                          /\ proc'.image = proc.image
  BY DEF TypeOK, Proc, Goto
<1>2. OpenFails => /\ proc'.pc = "idle" /\ proc'.next = 1 /\ Sound(proc'.image)
                   /\ open' = {} /\ app' = app
  BY RestIdle, SoundFiles DEF OpenFails, HandlesKept
<1>3. db \in File /\ proc.next \in 1..6 /\ app \in Nat \cup {NoApp} /\ gen \in Nat
      /\ NoApp \notin Nat
  BY RestProper, LifecycleAssumption DEF TypeOK, Proc
<1>4. proc.pc \in {"schema", "migrate", "opened", "defaults", "count", "seed"} => ~Serving
  BY <1>3 DEF HandlesKept, Serving
<1>5. CASE ApplySchema
  <2>1. /\ db'.columns = db.columns /\ db'.filled = db.filled /\ db'.prices = db.prices
        /\ db'.version = 2 => db.version = 2
    BY <1>3, <1>5 DEF ApplySchema, File
  <2>2. Sound(db')
    BY <2>1 DEF FilesSound, Sound, Whole, OwnPrices
  <2>3. OpenFails \/ (UNCHANGED handles /\ proc'.image = proc.image /\ proc'.next = proc.next
                      /\ proc'.pc = IF db'.version < 2 THEN "migrate" ELSE "opened")
    BY <1>1, <1>5 DEF ApplySchema
  <2>4. db'.version \in 0..2
    BY <1>3, <1>5 DEF ApplySchema, File
  <2>5. CASE OpenFails
    BY <1>2, <1>5, <2>2, <2>5 DEF ApplySchema, FilesSound, Serving
  <2>6. CASE UNCHANGED handles /\ proc'.image = proc.image /\ proc'.next = proc.next
             /\ proc'.pc = IF db'.version < 2 THEN "migrate" ELSE "opened"
    <3>1. ~Serving' /\ copies' = copies
      BY <1>4, <1>5, <2>6 DEF ApplySchema, Serving, handles
    <3>2. proc.next = 1
      BY <1>5 DEF ApplySchema, FilesSound
    <3> QED BY <2>2, <2>4, <2>6, <3>1, <3>2 DEF FilesSound, Executed
  <2> QED BY <2>3, <2>5, <2>6
<1>6. CASE MigrateV2
  <2> DEFINE f == Migrated(Statements[proc.next])
  <2>1. Executed(db, proc.next) /\ Sound(db)
    BY <1>6 DEF MigrateV2, FilesSound
  <2>2. /\ Sound(f) /\ Executed(f, proc.next + 1)
        /\ proc.next = 6 => f.version = 2
    BY <2>1, StatementDone
  <2> HIDE DEF f
  <2>3. \/ OpenFails /\ UNCHANGED db
        \/ db' = f /\ UNCHANGED handles
           /\ proc' = IF proc.next < 6 THEN [proc EXCEPT !.next = @ + 1]
                                      ELSE [proc EXCEPT !.pc = "opened", !.next = 1]
    BY <1>6, RestProper DEF MigrateV2, StatementFails, f
  <2>4. CASE OpenFails /\ UNCHANGED db
    BY <1>2, <1>6, <2>1, <2>4 DEF MigrateV2, FilesSound, Serving
  <2>5. CASE db' = f /\ UNCHANGED handles
           /\ proc' = IF proc.next < 6 THEN [proc EXCEPT !.next = @ + 1]
                                      ELSE [proc EXCEPT !.pc = "opened", !.next = 1]
    <3>1. ~Serving' /\ copies' = copies
      BY <1>4, <1>6, <2>5 DEF MigrateV2, Serving, handles
    <3>2. CASE proc.next < 6
      <4>1. proc'.pc = "migrate" /\ proc'.next = proc.next + 1 /\ proc'.image = proc.image
        BY <1>6, <2>5, <3>2 DEF MigrateV2, TypeOK, Proc
      <4> QED BY <2>2, <2>5, <3>1, <4>1 DEF FilesSound
    <3>3. CASE ~(proc.next < 6)
      <4>1. proc'.pc = "opened" /\ proc'.next = 1 /\ proc'.image = proc.image
        BY <2>5, <3>3 DEF TypeOK, Proc
      <4>2. proc.next = 6
        BY <1>3, <3>3
      <4> QED BY <2>2, <2>5, <3>1, <4>1, <4>2 DEF FilesSound
    <3> QED BY <3>2, <3>3
  <2> QED BY <2>3, <2>4, <2>5
<1>7. CASE CheckSecret
  <2>1. OpenFails \/ (UNCHANGED handles /\ proc'.image = proc.image /\ proc'.next = proc.next
                      /\ proc'.pc = "defaults")
    BY <1>1, <1>7 DEF CheckSecret
  <2> QED BY <1>2, <1>4, <1>7, <2>1 DEF CheckSecret, FilesSound, Serving, handles
<1>8. CASE InitDefaults
  <2>1. /\ db'.columns = db.columns /\ db'.filled = db.filled /\ db'.prices = db.prices
        /\ db'.version = db.version
    BY <1>3, <1>8 DEF InitDefaults, File
  <2>2. proc.pc = "defaults" /\ proc'.image = proc.image /\ proc'.next = proc.next /\ proc'.pc = "count"
    BY <1>1, <1>8 DEF InitDefaults
  <2>3. Sound(db')
    BY <2>1 DEF FilesSound, Sound, Whole, OwnPrices
  <2> QED BY <1>8, <2>1, <2>2, <2>3 DEF InitDefaults, FilesSound, handles, Serving
<1>9. CASE CountPrices
  <2>1. proc.pc = "count" /\ proc'.image = proc.image /\ proc'.next = proc.next /\ proc'.pc = "seed"
    BY <1>9 DEF CountPrices, TypeOK, Proc
  <2> QED BY <1>9, <2>1 DEF CountPrices, FilesSound, handles, Serving
<1>10. CASE SeedPrice
  <2>1. /\ db'.columns = db.columns /\ db'.filled = db.filled /\ db'.version = db.version
        /\ \A m \in Models : db'.prices[m] \in {db.prices[m], m}
    BY <1>3, <1>10 DEF SeedPrice, File
  <2>2. proc.pc = "seed" /\ proc'.image = proc.image /\ proc'.next = proc.next /\ proc'.pc = "seed"
    BY <1>10 DEF SeedPrice, TypeOK, Proc
  <2>3. Sound(db')
    BY <2>1 DEF FilesSound, Sound, Whole, OwnPrices
  <2> QED BY <1>10, <2>1, <2>2, <2>3 DEF SeedPrice, FilesSound, handles, Serving
<1>11. CASE BootUp
  BY <1>11, RestIdle, SoundFiles DEF BootUp, FilesSound
<1>12. CASE RestoreClose
  <2>1. \/ open' = open \ {app} /\ proc'.pc = "rename" /\ proc'.image = proc.image
           /\ proc'.next = proc.next
        \/ open' = open /\ proc' = Rest
    BY <1>1, <1>12 DEF RestoreClose
  <2> QED BY <1>12, <2>1, RestIdle, SoundFiles DEF RestoreClose, FilesSound, Serving
<1>13. CASE RestoreRename
  <2>1. \/ db' = proc.image /\ gen' = gen + 1 /\ open' = open \cup {gen'}
           /\ proc'.pc = "schema" /\ proc'.next = proc.next /\ proc'.image = NoFile
        \/ proc' = Rest /\ UNCHANGED <<db, open>>
    BY <1>13 DEF RestoreRename, TypeOK, Proc
  <2>2. ~Serving'
    BY <1>3, <1>13, <2>1 DEF RestoreRename, HandlesKept, Serving
  <2> QED BY <1>13, <2>1, <2>2, RestIdle, SoundFiles DEF RestoreRename, FilesSound
<1>14. CASE RestoreSwap
  BY <1>14, RestIdle, SoundFiles DEF RestoreSwap, FilesSound
<1> QED
  BY <1>5, <1>6, <1>7, <1>8, <1>9, <1>10, <1>11, <1>12, <1>13, <1>14 DEF Step

LEMMA NextFiles == TypeOK /\ HandlesKept /\ FilesSound /\ [Next]_vars => FilesSound'
<1> SUFFICES ASSUME TypeOK, HandlesKept, FilesSound, [Next]_vars PROVE FilesSound'
  OBVIOUS
<1>1. ASSUME NEW good \in BOOLEAN, Register(good) PROVE FilesSound'
  <2>1. proc'.pc = "schema" /\ proc'.next = 1 /\ proc'.image = NoFile
    BY <1>1 DEF Register, Rest
  <2>2. ~Serving'
    BY <1>1, LifecycleAssumption DEF Register, Serving, TypeOK
  <2> QED BY <1>1, <2>1, <2>2, SoundFiles DEF Register, FilesSound
<1>2. ASSUME NEW f \in Uploads \cup copies, RestoreBegin(f) PROVE FilesSound'
  <2>1. proc'.pc = "close" /\ proc'.next = 1 /\ proc'.image = f
    BY <1>2 DEF RestoreBegin, Rest
  <2> QED BY <1>2, <2>1, SoundFiles DEF RestoreBegin, FilesSound, handles, Serving
<1>3. ASSUME Crash \/ Restart PROVE FilesSound'
  BY <1>3, RestIdle, SoundFiles DEF Crash, Restart, NewProcess, FilesSound, Serving
<1>4. ASSUME Shutdown PROVE FilesSound'
  BY <1>4 DEF Shutdown, FilesSound, Serving
<1>5. ASSUME Backup PROVE FilesSound'
  BY <1>5 DEF Backup, FilesSound, Serving, handles
<1>6. ASSUME (\E k \in Settings : PutSetting(k)) \/ (\E m \in Models : UpdatePrice(m))
      PROVE  FilesSound'
  <2>1. /\ db'.columns = db.columns /\ db'.filled = db.filled /\ db'.version = db.version
        /\ \A m \in Models : db'.prices[m] \in {db.prices[m], Edited}
    BY <1>6 DEF PutSetting, UpdatePrice, TypeOK, File
  <2>2. Sound(db') /\ (Executed(db, proc.next) => Executed(db', proc.next))
    BY <2>1 DEF FilesSound, Sound, Whole, OwnPrices, Executed
  <2>3. UNCHANGED <<handles, proc, copies>>
    BY <1>6 DEF PutSetting, UpdatePrice
  <2> QED BY <2>1, <2>2, <2>3 DEF FilesSound, Serving, handles
<1>7. CASE UNCHANGED vars
  BY <1>7 DEF vars, handles, FilesSound, Serving
<1> QED
  BY <1>1, <1>2, <1>3, <1>4, <1>5, <1>6, <1>7, StepFiles DEF Next, Request

LEMMA InitFiles == Init => FilesSound
<1> SUFFICES ASSUME Init PROVE FilesSound
  OBVIOUS
<1>1. Sound(db) /\ Sound(proc.image)
  BY RestIdle, SoundFiles DEF Init
<1> QED BY <1>1, RestIdle DEF Init, FilesSound, Serving

\* Wherever a migration is cut short, a file that says version 2 is whole, and
\* only such a file is served.
THEOREM MigrationIsWhole == Spec => []MigrationWhole
<1>1. FilesSound => MigrationWhole
  BY DEF FilesSound, Sound, MigrationWhole
<1> QED
  BY <1>1, InitTypes, NextTypes, InitHandles, NextHandles, InitFiles, NextFiles, PTL DEF Spec

-----------------------------------------------------------------------------
(* What has become of the edits.                                           *)

LEMMA NextEdits ==
  TypeOK /\ HandlesKept /\ FilesSound /\ EditsKept /\ [Next]_vars => EditsKept'
<1> SUFFICES ASSUME TypeOK, HandlesKept, FilesSound, EditsKept, [Next]_vars
             PROVE  EditsKept'
  OBVIOUS
<1>1. /\ db \in File /\ Seeded \subseteq Models /\ NoPrice # Edited /\ Settings \cap Models = {}
      /\ NoPrice \notin Models /\ Edited \notin Models
  BY LifecycleAssumption DEF TypeOK
\* Nobody edits while the prices are seeded.
<1>2. proc.pc = "seed" => ~Serving
  BY LifecycleAssumption DEF TypeOK, HandlesKept, Serving
<1>3. ASSUME db'.settings = db.settings, db'.prices = db.prices, edited' = edited,
             proc'.pc = "seed" => proc.pc = "seed" /\ proc'.left \subseteq proc.left
      PROVE  EditsKept'
  BY <1>3 DEF EditsKept
<1>4. ASSUME InitDefaults PROVE EditsKept'
  <2>1. /\ db'.prices = db.prices
        /\ \A k \in Settings : db.settings[k] = "edited" => db'.settings[k] = "edited"
    BY <1>1, <1>4 DEF InitDefaults, DefaultsInto, File
  <2>2. proc'.pc = "count"
    BY <1>4 DEF InitDefaults, Goto, TypeOK, Proc
  <2> QED BY <1>4, <2>1, <2>2 DEF InitDefaults, EditsKept
<1>5. ASSUME CountPrices PROVE EditsKept'
  <2>1. \A m \in proc'.left : db.prices[m] = NoPrice
    BY <1>1, <1>5 DEF CountPrices, TypeOK, Proc
  <2> QED BY <1>5, <2>1 DEF CountPrices, EditsKept
<1>6. ASSUME SeedPrice PROVE EditsKept'
  <2>1. CASE UNCHANGED db
    <3>1. proc'.left \subseteq proc.left /\ proc.pc = "seed"
      BY <1>6 DEF SeedPrice, TypeOK, Proc
    <3> QED BY <1>6, <2>1, <3>1, <1>3 DEF SeedPrice
  <2>2. ASSUME NEW m \in proc.left, db' = [db EXCEPT !.prices[m] = m],
               proc' = [proc EXCEPT !.left = @ \ {m}]
        PROVE  EditsKept'
    <3>1. m \in Models /\ m # Edited /\ proc'.left = proc.left \ {m}
      BY <1>1, <2>2 DEF TypeOK, Proc
    <3>2. /\ db'.settings = db.settings /\ db'.prices[m] = m
          /\ \A n \in Models \ {m} : db'.prices[n] = db.prices[n]
      BY <1>1, <2>2, <3>1 DEF File
    <3>3. proc.pc = "seed" /\ edited' = edited /\ proc.left \subseteq Models
      BY <1>1, <1>6 DEF SeedPrice, TypeOK, Proc
    <3>4. \A n \in Models : n \in edited' <=> db'.prices[n] = Edited
      BY <1>1, <3>1, <3>2, <3>3 DEF EditsKept
    <3>5. \A n \in proc'.left : db'.prices[n] = NoPrice
      BY <3>1, <3>2, <3>3 DEF EditsKept
    <3> QED BY <3>2, <3>3, <3>4, <3>5 DEF EditsKept
  <2> QED BY <1>6, <2>1, <2>2 DEF SeedPrice
<1>7. ASSUME RestoreRename PROVE EditsKept'
  <2>1. CASE UNCHANGED <<db, edited>>
    <3>1. proc'.pc # "seed"
      BY <1>7, RestIdle DEF RestoreRename, TypeOK, Proc
    <3> QED BY <2>1, <3>1, <1>3
  <2>2. CASE db' = proc.image /\ edited' = EditedIn(proc.image)
             /\ proc' = [proc EXCEPT !.pc = "schema", !.image = NoFile]
    <3>1. proc'.pc = "schema"
      BY <2>2 DEF TypeOK, Proc
    <3> QED BY <1>1, <2>2, <3>1 DEF EditedIn, EditsKept
  <2> QED BY <1>7, <2>1, <2>2 DEF RestoreRename
<1>8. ASSUME NEW k \in Settings, PutSetting(k) PROVE EditsKept'
  <2>1. /\ db'.prices = db.prices /\ db'.settings[k] = "edited"
        /\ \A j \in Settings \ {k} : db'.settings[j] = db.settings[j]
    BY <1>1, <1>8 DEF PutSetting, File
  <2>2. edited' = edited \cup {k} /\ proc' = proc /\ proc.pc # "seed"
    BY <1>2, <1>8 DEF PutSetting
  <2> QED BY <1>1, <2>1, <2>2 DEF EditsKept
<1>9. ASSUME NEW m \in Models, UpdatePrice(m) PROVE EditsKept'
  <2>1. /\ db'.settings = db.settings /\ db'.prices[m] = Edited
        /\ \A n \in Models \ {m} : db'.prices[n] = db.prices[n]
    BY <1>1, <1>9 DEF UpdatePrice, File
  <2>2. edited' = edited \cup {m} /\ proc' = proc /\ proc.pc # "seed"
    BY <1>2, <1>9 DEF UpdatePrice
  <2> QED BY <1>1, <2>1, <2>2 DEF EditsKept
<1>10. ASSUME ApplySchema \/ MigrateV2 PROVE EditsKept'
  <2>1. db'.settings = db.settings /\ db'.prices = db.prices
    <3>1. CASE ApplySchema
      BY <1>1, <3>1 DEF ApplySchema, File
    <3>2. CASE MigrateV2
      <4>1. Sound(db) /\ Executed(db, proc.next)
        BY <3>2 DEF MigrateV2, FilesSound
      <4> QED BY <3>2, <4>1, StatementDone DEF MigrateV2
    <3> QED BY <1>10, <3>1, <3>2
  <2>2. proc'.pc # "seed" /\ edited' = edited
    BY <1>10, RestIdle DEF ApplySchema, MigrateV2, OpenFails, Goto, TypeOK, Proc
  <2> QED BY <2>1, <2>2, <1>3
<1>11. ASSUME CheckSecret \/ BootUp \/ RestoreClose \/ RestoreSwap PROVE EditsKept'
  <2>1. proc'.pc # "seed" /\ edited' = edited /\ db' = db
    <3>1. \A pc : Goto(pc) => proc'.pc = pc
      BY DEF Goto, TypeOK, Proc
    <3>2. OpenFails => proc'.pc = "idle"
      BY RestIdle DEF OpenFails
    <3>3. CASE CheckSecret
      BY <3>1, <3>2, <3>3 DEF CheckSecret
    <3>4. CASE RestoreClose
      BY <3>1, <3>4, RestIdle DEF RestoreClose
    <3>5. CASE BootUp \/ RestoreSwap
      <4>1. proc' = Rest /\ edited' = edited /\ db' = db
        BY <3>5 DEF BootUp, RestoreSwap
      <4> QED BY <4>1, RestIdle
    <3> QED BY <1>11, <3>3, <3>4, <3>5
  <2> QED BY <2>1, <1>3
<1>12. ASSUME (\E good \in BOOLEAN : Register(good))
              \/ (\E f \in Uploads \cup copies : RestoreBegin(f)) \/ Crash \/ Restart
       PROVE  EditsKept'
  <2>1. proc'.pc # "seed" /\ edited' = edited /\ db' = db
    <3>1. CASE \E good \in BOOLEAN : Register(good)
      BY <3>1 DEF Register, Rest
    <3>2. CASE \E f \in Uploads \cup copies : RestoreBegin(f)
      BY <3>2 DEF RestoreBegin, Rest
    <3>3. CASE Crash \/ Restart
      BY <3>3, RestIdle DEF Crash, Restart, NewProcess
    <3> QED BY <1>12, <3>1, <3>2, <3>3
  <2> QED BY <2>1, <1>3
<1>13. ASSUME Backup \/ Shutdown \/ UNCHANGED vars PROVE EditsKept'
  <2>1. UNCHANGED <<db, edited, proc>>
    BY <1>13 DEF Backup, Shutdown, vars
  <2> QED BY <2>1, <1>3
<1> QED
  BY <1>4, <1>5, <1>6, <1>7, <1>8, <1>9, <1>10, <1>11, <1>12, <1>13 DEF Next, Step, Request

LEMMA InitEdits == Init => EditsKept
  BY LifecycleAssumption, RestIdle DEF Init, EditsKept, EditedIn

\* What the admin set survives every start, crash and failed statement, and a
\* model with a default is never charged by another model's.
THEOREM EditsAlwaysSurvive == Spec => []EditsSurvive
<1>1. FilesSound /\ EditsKept => EditsSurvive
  <2> SUFFICES ASSUME FilesSound, EditsKept PROVE EditsSurvive
    OBVIOUS
  <2>1. ASSUME NEW m \in Seeded
        PROVE  LoadPrice(m) = {IF m \in edited THEN Edited ELSE m}
    <3>1. m \in Models /\ db.prices[m] \in {NoPrice, Edited, m} /\ NoPrice # Edited
          /\ (m \in edited <=> db.prices[m] = Edited)
      BY LifecycleAssumption DEF FilesSound, Sound, OwnPrices, EditsKept
    <3>2. CASE db.prices[m] # NoPrice
      <4>1. LoadPrice(m) = {db.prices[m]}
        BY <3>2 DEF LoadPrice
      <4> QED BY <3>1, <3>2, <4>1
    <3>3. CASE db.prices[m] = NoPrice
      <4>1. LoadPrice(m) = {m}
        BY <3>3 DEF LoadPrice
      <4> QED BY <3>1, <3>3, <4>1
    <3> QED BY <3>2, <3>3
  <2> QED BY <2>1 DEF EditsSurvive, EditsKept
<1> QED
  BY <1>1, InitTypes, NextTypes, InitHandles, NextHandles, InitFiles, NextFiles,
     InitEdits, NextEdits, PTL DEF Spec
=============================================================================
