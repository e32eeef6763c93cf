---------------------------- MODULE DataDirectory ----------------------------
(***************************************************************************)
(* The data directory and those who write it: the control plane as it      *)
(* boots and runs, `migrate` (migrations.ts, migrate.ts), the backup and   *)
(* restore scripts (scripts/backup.ts, scripts/restore.ts) and the admin   *)
(* panel's backup and restore of one project (app/admin-routes.ts,         *)
(* app/archive-utils.ts).  The operator stops the control plane for a      *)
(* restore, as it is told to, and for a change of release, and runs no     *)
(* backup beside a restore; what is restored is the newest backup.         *)
(*                                                                         *)
(* SQLite is external.  A transaction is all or nothing, one writer at a   *)
(* time; what a crash leaves of one is a journal that the next to open the *)
(* database plays back.  A project is a version; of the database only the  *)
(* migrations matter.  A migration whose file changed is refused like one  *)
(* whose file is gone.  Assets are restored like projects, the roster like *)
(* the database.                                                           *)
(***************************************************************************)
EXTENDS Naturals, FiniteSets

CONSTANTS Homes,        \* workspaces, by their project directories
          Newest,       \* migrations of the newest release
          Panels,       \* restores the panel may have under way
          MaxChanges,   \* bound: edits of projects
          MaxTools,     \* bound: backups, restores, migrations, releases
          MaxCrashes    \* bound: crashes of any of the processes

ASSUME DataAssumption ==
    /\ Newest \in Nat \ {0} /\ MaxChanges \in Nat /\ MaxTools \in Nat /\ MaxCrashes \in Nat

Migrations == 1 .. Newest
Processes  == {"control", "migrate"}
None == "none"
Versions == 0 .. MaxChanges       \* what a project or an archive holds:
Missing  == MaxChanges + 1        \*   no file, no directory
Torn     == MaxChanges + 2        \*   an archive that tar did not finish
Half     == MaxChanges + 3        \*   part of a project
Contents == Versions \cup {Missing, Torn, Half}

VARIABLES
    db,       \* app.db: state of the file, rows of schema_migrations, and how
              \* often each migration was run
    journal,  \* app.db-journal of a crash: of this file, or of one replaced since
    writer,   \* who has a transaction open
    release,  \* migrations the installed code has
    proc,     \* where each process is, and the migrations it found pending
    project,  \* data/users/<id>/project
    archive,  \* the newest project.tar.gz of each workspace
    copy,     \* the newest backup's app.db
    backup,   \* the backup script: the workspaces it has still to do
    restore,  \* the restore script: its place and its workspaces
    panel,    \* the panel's restores
    changes, tools, crashes,
    cut       \* a restore crashed after it had removed something

dataVars == <<db, journal, writer, release, proc, project, archive, copy, backup,
              restore, panel, changes, tools, crashes, cut>>

Database == [st : {None, "torn", "whole", "mixed"}, rows : SUBSET Migrations,
             ran : [Migrations -> 0 .. 2]]
Fresh    == [st |-> "whole", rows |-> {}, ran |-> [m \in Migrations |-> 0]]
NoFile   == [Fresh EXCEPT !.st = None]
Off      == [pc |-> "off", todo |-> {}]
NoHome   == CHOOSE h \in Homes : TRUE
Rest     == [pc |-> "rest", todo |-> {}, home |-> NoHome]
Still    == [pc |-> "rest", home |-> NoHome, ver |-> 0]

DataTypeOK ==
    /\ db \in Database /\ copy \in Database
    /\ journal \in {None, "hot", "stray"}
    /\ writer \in Processes \cup {None}
    /\ release \in 0 .. Newest
    /\ proc \in [Processes -> [pc : {"off", "opened", "pending", "writing", "up"},
                               todo : SUBSET Migrations]]
    /\ project \in [Homes -> Contents] /\ archive \in [Homes -> Contents]
    /\ backup \in [pc : {"rest", "next", "tar"}, todo : SUBSET Homes,
                   home : Homes]
    /\ restore \in [pc : {"rest", "db", "copy", "next", "rename"}, todo : SUBSET Homes,
                    home : Homes]
    /\ panel \in [Panels -> [pc : {"rest", "extracted", "removed"}, home : Homes,
                             ver : Contents]]
    /\ changes \in 0 .. MaxChanges /\ tools \in 0 .. MaxTools
    /\ crashes \in 0 .. MaxCrashes /\ cut \in BOOLEAN

DataInit ==
    /\ db = NoFile /\ copy = NoFile
    /\ journal = None /\ writer = None
    /\ release = Newest - 1
    /\ proc = [x \in Processes |-> Off]
    /\ project = [h \in Homes |-> 0] /\ archive = [h \in Homes |-> Missing]
    /\ backup = Rest /\ restore = Rest
    /\ panel = [k \in Panels |-> Still]
    /\ changes = 0 /\ tools = 0 /\ crashes = 0 /\ cut = FALSE

Usable(c) == c \notin {Missing, Torn}
Up      == proc["control"].pc = "up"
Stopped == \A x \in Processes : proc[x] = Off
Tool    == tools < MaxTools /\ tools' = tools + 1
Change  == changes < MaxChanges /\ changes' = changes + 1

DbStays    == UNCHANGED <<db, journal, writer, proc, release>>
FilesStay  == UNCHANGED <<project, archive, copy, backup, restore, panel, cut>>
CountsStay == UNCHANGED <<changes, tools, crashes>>

----------------------------------------------------------------------------
(* A process opens the database: the control plane at boot, or `migrate`.  *)
(* It is created if there is none; a journal is played back, and one that  *)
(* is not of this file makes a mixture of the two.                         *)
Opens(x) ==
    /\ proc[x].pc = "off" /\ restore = Rest
    /\ IF x = "migrate" THEN Tool ELSE UNCHANGED tools
    /\ proc' = [proc EXCEPT ![x].pc = "opened"]
    /\ db' = IF db.st = None THEN Fresh
             ELSE IF journal = "stray" THEN [db EXCEPT !.st = "mixed"] ELSE db
    /\ journal' = None
    /\ UNCHANGED <<writer, release, changes, crashes>> /\ FilesStay

Partly(h) == [project EXCEPT ![h] = IF @ = Missing THEN @ ELSE Half]
Ends(x) == proc' = [proc EXCEPT ![x] = Off]

(* verifyAppliedMigrationChecksums and the list of what is pending. *)
Verifies(x) ==
    /\ proc[x].pc = "opened"
    /\ IF db.st # "torn" /\ db.rows \subseteq 1 .. release
       THEN proc' = [proc EXCEPT ![x] = [pc |-> "pending",
                                         todo |-> (1 .. release) \ db.rows]]
       ELSE Ends(x)
    /\ UNCHANGED <<db, journal, writer, release>> /\ FilesStay /\ CountsStay

First(s) == CHOOSE m \in s : \A n \in s : m <= n

(* One migration is one transaction with its row.  The database may be     *)
(* locked, and another process may have run it since the list was made:    *)
(* then statement or row fails, the transaction is rolled back, and the    *)
(* process ends with the error.                                            *)
MigrationBegins(x) ==
    /\ proc[x].pc = "pending" /\ proc[x].todo # {}
    /\ IF writer = None
       THEN writer' = x /\ proc' = [proc EXCEPT ![x].pc = "writing"]
       ELSE Ends(x) /\ UNCHANGED writer
    /\ UNCHANGED <<db, journal, release>> /\ FilesStay /\ CountsStay
MigrationCommits(x) ==
    LET m == First(proc[x].todo)
    IN  /\ proc[x].pc = "writing" /\ writer' = None
        /\ IF m \in db.rows THEN Ends(x) /\ UNCHANGED db
           ELSE /\ db' = [db EXCEPT !.rows = @ \cup {m}, !.ran[m] = @ + 1]
                /\ proc' = [proc EXCEPT ![x] = [pc |-> "pending", todo |-> @.todo \ {m}]]
        /\ UNCHANGED <<journal, release>> /\ FilesStay /\ CountsStay

Migrated(x) ==
    /\ proc[x].pc = "pending" /\ proc[x].todo = {}
    /\ IF x = "control" THEN proc' = [proc EXCEPT ![x].pc = "up"] ELSE Ends(x)
    /\ UNCHANGED <<db, journal, writer, release>> /\ FilesStay /\ CountsStay

(* The running control plane writes in transactions of its own. *)
Writes ==
    /\ Up /\ writer = None /\ writer' = "control"
    /\ UNCHANGED <<db, journal, proc, release>> /\ FilesStay /\ CountsStay
Written ==
    /\ Up /\ writer = "control" /\ writer' = None
    /\ UNCHANGED <<db, journal, proc, release>> /\ FilesStay /\ CountsStay

(* A process ends: an operator stops it, or it crashes, within a           *)
(* transaction or not, or while it removes a project.                      *)
ProcessEnds(x) ==
    /\ proc[x].pc # "off"
    /\ crashes < MaxCrashes /\ crashes' = crashes + 1
    /\ Ends(x)
    /\ IF writer = x THEN journal' \in {journal, "hot"} /\ writer' = None
       ELSE UNCHANGED <<journal, writer>>
    /\ panel' = IF x = "control" THEN [k \in Panels |-> Still] ELSE panel
    /\ cut' = (cut \/ (x = "control" /\ \E k \in Panels : panel[k] # Still))
    /\ \/ UNCHANGED project
       \/ \E k \in Panels :
            /\ x = "control" /\ panel[k].pc = "extracted"
            /\ project' = Partly(panel[k].home)
    /\ UNCHANGED <<db, release, archive, copy, backup, restore, changes, tools>>

Install(r) ==
    /\ Stopped /\ Tool /\ r # release /\ release' = r
    /\ UNCHANGED <<db, journal, writer, proc, changes, crashes>> /\ FilesStay

StudentEdits(h) ==
    /\ Up /\ project[h] # Missing /\ Change
    /\ project' = [project EXCEPT ![h] = changes']
    /\ UNCHANGED <<archive, copy, backup, restore, panel, cut, tools, crashes>> /\ DbStays

----------------------------------------------------------------------------
(* The backup script, beside a control plane that may run.  The database   *)
(* is a snapshot of what is committed; its copy may fail, like tar, and    *)
(* what was not finished stays on disk.                                    *)
BackupBegins ==
    /\ backup = Rest /\ restore = Rest /\ Tool
    /\ copy' \in {db, NoFile, [Fresh EXCEPT !.st = "torn"]}
    /\ archive' = [h \in Homes |-> Missing]
    /\ backup' = [Rest EXCEPT !.pc = "next",
                              !.todo = {h \in Homes : project[h] # Missing}]
    /\ UNCHANGED <<project, restore, panel, cut, changes, crashes>> /\ DbStays
BackupTars(h) ==
    /\ backup.pc = "next" /\ h \in backup.todo
    /\ archive' = [archive EXCEPT ![h] = Torn]
    /\ backup' = [pc |-> "tar", todo |-> backup.todo \ {h}, home |-> h]
    /\ UNCHANGED <<project, copy, restore, panel, cut>> /\ DbStays /\ CountsStay
BackupTarred ==
    /\ backup.pc = "tar"
    /\ archive' \in {archive, [archive EXCEPT ![backup.home] =
                                 IF project[backup.home] = Missing THEN Torn
                                 ELSE project[backup.home]]}
    /\ backup' = [backup EXCEPT !.pc = "next", !.home = NoHome]
    /\ UNCHANGED <<project, copy, restore, panel, cut>> /\ DbStays /\ CountsStay
BackupEnds ==
    /\ backup.pc = "next" /\ backup.todo = {}
    /\ backup' = Rest
    /\ UNCHANGED <<project, archive, copy, restore, panel, cut>> /\ DbStays /\ CountsStay
BackupCrashes ==
    /\ backup # Rest /\ crashes < MaxCrashes /\ crashes' = crashes + 1
    /\ backup' = Rest
    /\ UNCHANGED <<project, archive, copy, restore, panel, cut, changes, tools>> /\ DbStays

----------------------------------------------------------------------------
(* The restore script.  The old database is removed, the other copied in   *)
(* its place; nothing looks for a journal of the old one.  A project is    *)
(* removed only when its archive has been unpacked beside it.              *)
RestoreBegins(all) ==
    /\ restore = Rest /\ backup = Rest /\ Stopped /\ Tool
    /\ restore' = [Rest EXCEPT !.pc = IF all /\ copy.st # None THEN "db" ELSE "next",
                               !.todo = Homes]
    /\ UNCHANGED <<project, archive, copy, backup, panel, cut, changes, crashes>>
    /\ DbStays
DbRemoved ==
    /\ restore.pc = "db"
    /\ db' = [db EXCEPT !.st = None] /\ restore' = [restore EXCEPT !.pc = "copy"]
    /\ UNCHANGED <<journal, writer, proc, release, project, archive, copy, backup,
                   panel, cut>> /\ CountsStay
DbCopied ==
    /\ restore.pc = "copy"
    /\ db' = copy /\ restore' = [restore EXCEPT !.pc = "next"]
    /\ journal' = IF journal = "hot" THEN "stray" ELSE journal
    /\ UNCHANGED <<writer, proc, release, project, archive, copy, backup, panel, cut>>
    /\ CountsStay

\* mutant: unpacked in place
UnpackedInPlace(h) ==
    /\ restore.pc = "next" /\ h \in restore.todo /\ archive[h] # Missing
    /\ project' = [project EXCEPT ![h] = archive[h]]
    /\ restore' = [restore EXCEPT !.todo = @ \ {h}]
    /\ UNCHANGED <<archive, copy, backup, panel, cut>> /\ DbStays /\ CountsStay

ProjectRemoved(h) ==
    /\ restore.pc = "next" /\ h \in restore.todo /\ Usable(archive[h])
    /\ project' = [project EXCEPT ![h] = Missing]
    /\ restore' = [pc |-> "rename", todo |-> restore.todo \ {h}, home |-> h]
    /\ UNCHANGED <<archive, copy, backup, panel, cut>> /\ DbStays /\ CountsStay
ProjectRenamed ==
    /\ restore.pc = "rename"
    /\ project' = [project EXCEPT ![restore.home] = archive[restore.home]]
    /\ restore' = [restore EXCEPT !.pc = "next", !.home = NoHome]
    /\ UNCHANGED <<archive, copy, backup, panel, cut>> /\ DbStays /\ CountsStay
(* tar fails on an archive that is not whole, and the next one follows. *)
ProjectSkipped(h) ==
    /\ restore.pc = "next" /\ h \in restore.todo /\ ~ Usable(archive[h])
    /\ restore' = [restore EXCEPT !.todo = @ \ {h}]
    /\ UNCHANGED <<project, archive, copy, backup, panel, cut>> /\ DbStays /\ CountsStay
RestoreEnds ==
    /\ restore.pc = "next" /\ restore.todo = {}
    /\ restore' = Rest
    /\ UNCHANGED <<project, archive, copy, backup, panel, cut>> /\ DbStays /\ CountsStay
RestoreCrashes ==
    /\ restore # Rest /\ crashes < MaxCrashes /\ crashes' = crashes + 1
    /\ restore' = Rest
    /\ cut' = (cut \/ restore.pc \in {"next", "rename"})
    /\ db' \in IF restore.pc = "copy" THEN {db, Fresh, [Fresh EXCEPT !.st = "torn"]} ELSE {db}
    /\ project' \in {project} \cup
         {Partly(h) : h \in {g \in restore.todo : restore.pc = "next" /\ Usable(archive[g])}}
    /\ UNCHANGED <<journal, writer, proc, release, archive, copy, backup,
                   panel, changes, tools>>

----------------------------------------------------------------------------
(* The panel backs one project up, and restores one while it may be in use *)
(* and while another restore of it is under way: what is renamed last      *)
(* meets a directory that is not empty, and fails.                         *)
PanelBacksUp(h) ==
    /\ Up /\ backup = Rest /\ Tool /\ project[h] # Missing
    /\ \E c \in {Torn, project[h]} : archive' = [archive EXCEPT ![h] = c]
    /\ UNCHANGED <<project, copy, backup, restore, panel, cut, changes, crashes>>
    /\ DbStays
PanelKeeps == UNCHANGED <<archive, copy, backup, restore, cut>> /\ DbStays
PanelExtracts(k, h) ==
    /\ Up /\ panel[k] = Still /\ Tool /\ Usable(archive[h])
    /\ panel' = [panel EXCEPT ![k] = [pc |-> "extracted", home |-> h, ver |-> archive[h]]]
    /\ UNCHANGED <<project, changes, crashes>> /\ PanelKeeps
PanelRemoves(k) ==
    /\ panel[k].pc = "extracted"
    /\ panel' = [panel EXCEPT ![k].pc = "removed"]
    /\ project' = [project EXCEPT ![panel[k].home] = Missing]
    /\ CountsStay /\ PanelKeeps
PanelRenames(k) ==
    /\ panel[k].pc = "removed"
    /\ panel' = [panel EXCEPT ![k] = Still]
    /\ project' = [project EXCEPT ![panel[k].home] = IF @ = Missing THEN panel[k].ver ELSE @]
    /\ CountsStay /\ PanelKeeps

DataNext ==
    \/ \E x \in Processes :
        Opens(x) \/ Verifies(x) \/ MigrationBegins(x) \/ MigrationCommits(x) \/ Migrated(x) \/ ProcessEnds(x)
    \/ Writes \/ Written \/ (\E r \in 0 .. Newest : Install(r))
    \/ BackupBegins \/ BackupTarred \/ BackupEnds \/ BackupCrashes
    \/ \E all \in BOOLEAN : RestoreBegins(all)
    \/ DbRemoved \/ DbCopied \/ ProjectRenamed \/ RestoreEnds \/ RestoreCrashes
    \/ \E h \in Homes :
        \/ StudentEdits(h) \/ BackupTars(h)
        \/ ProjectRemoved(h) \/ ProjectSkipped(h)
        \/ PanelBacksUp(h) \/ \E k \in Panels : PanelExtracts(k, h)
    \/ \E k \in Panels : PanelRemoves(k) \/ PanelRenames(k)

DataSpec == DataInit /\ [][DataNext]_dataVars

----------------------------------------------------------------------------
(* The control plane serves only a database that has every migration of    *)
(* its release and no other, each run once, whoever ran it, whatever       *)
(* crashed meanwhile and whichever backup was restored (unless a journal   *)
(* of another file was played into it).                                    *)
ServesOnlyMigrated ==
    Up /\ db.st # "mixed" =>
        /\ db.st = "whole" /\ db.rows = 1 .. release
        /\ \A m \in Migrations : db.ran[m] = IF m \in db.rows THEN 1 ELSE 0

(* A project is never part of one, whatever was wrong with its archive and *)
(* whoever restored it at once, and it is there again when no restore is   *)
(* under way, unless a restore was cut short.                              *)
ProjectsSurvive ==
    ~ cut => \A h \in Homes :
        /\ project[h] \notin {Torn, Half}
        /\ restore = Rest /\ (\A k \in Panels : panel[k] = Still)
              => project[h] # Missing

(* Both: boots, migrations, backups and restores lose nothing and serve    *)
(* nothing half done.                                                      *)
DataSurvives == ServesOnlyMigrated /\ ProjectsSurvive

(* "Remove any stale WAL/SHM so SQLite doesn't try to replay them against  *)
(* the new DB."  Broken: the database has no WAL, and its journal stays.   *)
NothingIsReplayed == db.st # "mixed"
=============================================================================
