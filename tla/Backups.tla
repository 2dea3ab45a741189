------------------------------- MODULE Backups -------------------------------
(***************************************************************************)
(* Backups: full and incremental ones and checkpoints, their deletion and  *)
(* the restore (internal/backup, internal/core/backup.go).  The client     *)
(* calls the engine, the flush worker changes the data directory between   *)
(* the steps of a backup, and the process may crash between any two        *)
(* changes of the disk.                                                    *)
(*                                                                         *)
(* A write is a number and no write hides another, so what a store holds   *)
(* is a set of numbers.  A table's file name is the identifier in it; the  *)
(* WAL is the set recs of its records and the set flushed of those below   *)
(* its watermark.  A backup is named by the second it was made in: two     *)
(* backups are assumed to be a second apart.  ClearAll and restores are    *)
(* called when no memtable waits for the flush worker, and ClearAll not    *)
(* between a failed restore and the next start.  The directory of a backup *)
(* that failed or was cut off is never read again, and is left out.        *)
(***************************************************************************)
EXTENDS Integers, Sequences, FiniteSets, FiniteSetsExt, SequencesExt

CONSTANTS   \* bounds
    MaxWrites, MaxBackups,
    MaxCheckpoints, MaxRaced,   \* checkpoints, and backups raced by the worker, at a time
    MaxUpsets                   \* a ClearAll and a crash are upsets

ASSUME BackupsAssumption ==
    {MaxWrites, MaxBackups, MaxCheckpoints, MaxRaced, MaxUpsets} \subseteq Nat

VARIABLES
    status,    \* "up", "down", or "stuck": NewEngine panics
    files,     \* data directory: table -> the writes in it
    manifest,  \* the SSTable manifest, in memory and on disk: [names, next]
    wal,       \* [recs, flushed]
    mem, imm,  \* the active memtable and one that waits for the worker
    worker,    \* the flush worker: [pc, tab]
    degraded,  \* a failed restore left the disk restored and the engine cleared
    infos,     \* BackupInfo objects in memory, also of deleted bases; base 0: nil
    listed,    \* BackupManager.Backups
    last,      \* BackupManager.LastBackup, 0: nil
    dirs,      \* backup directories on disk, and of each what the store held when
               \* it was begun (taken) and why it may not hold that (flaws)
    entries,   \* BACKUP_MANIFEST.json: the backups in it, in order
    job,       \* the call under way, see NoJob
    \* history
    written, made, upsets,
    prior,     \* the restore under way: [id, writes], the backup of what was there
               \* before it, and [from], the flaws of what is restored
    torn       \* a backup whose directory is deleted and its entry is not

store == <<files, manifest, wal, mem, imm, worker>>
manager == <<infos, listed, last>>
history == <<written, made, upsets, prior, torn>>
vars == <<status, store, degraded, manager, dirs, entries, job, history>>

Types == {"full", "incremental", "checkpoint"}
Empty == [names |-> {}, next |-> 0]
NoWal == [recs |-> {}, flushed |-> {}]
NoJob == [pc |-> "idle", id |-> 0, type |-> "full", tables |-> {}, next |-> 0, raced |-> FALSE,
          target |-> 0, todo |-> {}]
NoPrior == [id |-> 0, writes |-> {}, from |-> {}]
NoInfo == [type |-> "none", baseId |-> 0, base |-> 0, newFiles |-> {}]   \* not saved yet

(* f with k mapped to v, and f laid over g.                                *)
With(f, k, v) == [x \in DOMAIN f \cup {k} |-> IF x = k THEN v ELSE f[x]]
Over(f, g) == [x \in DOMAIN f \cup DOMAIN g |-> IF x \in DOMAIN f THEN f[x] ELSE g[x]]

(* What the engine shows after it opens this directory, and whether it can.*)
Opens(fs, m) == m.names \subseteq DOMAIN fs
Contents(fs, m, w) == (UNION {fs[n] : n \in m.names \cap DOMAIN fs}) \cup (w.recs \ w.flushed)

Calm == imm = {} /\ worker.pc = "idle"
Ready == status = "up" /\ job.pc = "idle"

(* The manifests the engine has in memory.                                 *)
LiveManifest == IF degraded THEN Empty ELSE manifest
LiveWal == IF degraded THEN NoWal ELSE wal

-----------------------------------------------------------------------------
(* The store, as far as backups see it.                                    *)

BackingUp == job.pc \in {"copy", "wal", "finish"}
Partial == IF BackingUp THEN {job.id} ELSE {}

GoDown ==
    /\ status' = "down" /\ job' = NoJob /\ degraded' = FALSE
    /\ mem' = {} /\ imm' = {} /\ worker' = [pc |-> "idle", tab |-> {}]
    /\ infos' = <<>> /\ listed' = {} /\ last' = 0
    /\ dirs' = Restrict(dirs, DOMAIN dirs \ Partial)
    /\ UNCHANGED <<files, manifest, wal, entries>>

(* A write after a failed restore meets a WAL without an active segment,   *)
(* which is a panic.                                                       *)
Write ==
    /\ Ready /\ written < MaxWrites
    /\ IF degraded THEN GoDown /\ UNCHANGED history
       ELSE /\ written' = written + 1
            /\ mem' = mem \cup {written + 1}
            /\ wal' = [wal EXCEPT !.recs = @ \cup {written + 1}]
            /\ UNCHANGED <<status, files, manifest, imm, worker, degraded, manager, dirs, entries,
                           job, made, upsets, prior, torn>>

Rotate ==
    /\ Ready /\ ~degraded /\ mem # {} /\ imm = {}
    /\ imm' = mem /\ mem' = {}
    /\ UNCHANGED <<status, files, manifest, wal, worker, degraded, manager, dirs, entries, job,
                   history>>

(* The worker's steps.  A backup under way while the tables change is      *)
(* marked as raced.                                                        *)
WorkerStep == status = "up" /\ UNCHANGED <<status, mem, degraded, manager, dirs, entries, history>>
MarkRaced ==
    /\ BackingUp => Cardinality({d \in DOMAIN dirs : "raced" \in dirs[d].flaws}) < MaxRaced
    /\ job' = [job EXCEPT !.raced = BackingUp]

FlushToSSTable ==
    /\ worker.pc = "idle" /\ imm # {}
    /\ WorkerStep /\ MarkRaced
    /\ files' = With(files, manifest.next, imm)
    /\ manifest' = [names |-> manifest.names \cup {manifest.next}, next |-> manifest.next + 1]
    /\ worker' = [pc |-> "wal", tab |-> imm] /\ imm' = {}
    /\ UNCHANGED wal

MemtableFlushed ==
    /\ worker.pc = "wal"
    /\ WorkerStep
    /\ wal' = [wal EXCEPT !.flushed = {r \in wal.recs : \E t \in worker.tab : r <= t} \cup @]
    /\ worker' = [pc |-> "compact", tab |-> {}]
    /\ UNCHANGED <<files, manifest, imm, job>>

(* All tables are merged, or compaction has nothing to do.                 *)
Compact ==
    /\ worker.pc = "compact"
    /\ WorkerStep
    /\ worker' = [worker EXCEPT !.pc = "idle"]
    /\ \/ /\ Cardinality(manifest.names) > 1
          /\ MarkRaced
          /\ files' = With(Restrict(files, DOMAIN files \ manifest.names), manifest.next,
                          UNION {files[n] : n \in manifest.names})
          /\ manifest' = [names |-> {manifest.next}, next |-> manifest.next + 1]
       \/ UNCHANGED <<files, manifest, job>>
    /\ UNCHANGED <<wal, imm>>

Cleared ==
    /\ files' = <<>> /\ manifest' = Empty /\ wal' = NoWal /\ mem' = {}

ClearAll ==
    /\ Ready /\ Calm /\ ~degraded /\ upsets < MaxUpsets
    /\ Cleared
    /\ upsets' = upsets + 1
    /\ UNCHANGED <<status, imm, worker, degraded, manager, dirs, entries, job,
                   written, made, prior, torn>>

-----------------------------------------------------------------------------
(* CreateBackup.                                                           *)

(* What the backups S lead to from base to base; only an incremental       *)
(* backup has a base, and it is older.                                     *)
Reach(S, base) ==
    {b \in DOMAIN base : \A T \in SUBSET DOMAIN base :
        S \cup {base[c] : c \in T} \subseteq T \cup {0} => b \in T}

Bases == [id \in DOMAIN infos |-> infos[id].base]
Chain(id) == Reach({id}, Bases)

(* Files of a full backup or checkpoint, NewFiles of an incremental one    *)
(* and then its base's.                                                    *)
ContainsFile(id, name) == \E b \in Chain(id) : name \in infos[b].newFiles

NewJob(type, target) ==
    [NoJob EXCEPT !.pc = "copy", !.id = made + 1, !.target = target, !.next = LiveManifest.next,
         !.type = IF type = "incremental" /\ last = 0 THEN "full" ELSE type,
         !.tables = LiveManifest.names]

(* The last backup is no checkpoint: it would be as good as a full one.    *)
Checkpoints == {id \in DOMAIN infos : infos[id].type = "checkpoint"}

(* The tables of the manifest are listed; target # 0: for a restore.       *)
BeginBackup(type, target) ==
    /\ made < MaxBackups
    /\ made' = made + 1
    /\ job' = NewJob(type, target)
    /\ dirs' = With(dirs, made + 1,
                    [files |-> <<>>, recs |-> {}, flushed |-> {}, manifest |-> Empty,
                     info |-> NoInfo, taken |-> Contents(files, manifest, wal), flaws |-> {}])
    /\ UNCHANGED <<status, store, degraded, manager, entries, written, upsets, prior, torn>>

CreateBackup(type) ==
    /\ Ready
    /\ type = "checkpoint" =>
           Cardinality(Checkpoints) < MaxCheckpoints /\ made + 1 < MaxBackups
    /\ BeginBackup(type, 0)

Base == IF job.type = "incremental" THEN last ELSE 0
NewFiles == {n \in job.tables : ~ContainsFile(Base, n)}

(* Tables are copied or linked.  One that is gone is passed over if it was *)
(* gone when the directory was listed, else it ends the call.              *)
CopyTables ==
    /\ status = "up" /\ job.pc = "copy"
    /\ \/ /\ dirs' = [dirs EXCEPT ![job.id].files = Restrict(files, NewFiles \cap DOMAIN files)]
          /\ job' = [job EXCEPT !.pc = "wal", !.tables = @ \cap DOMAIN files]
       \/ /\ ~(NewFiles \subseteq DOMAIN files)
          /\ dirs' = Restrict(dirs, DOMAIN dirs \ Partial)
          /\ job' = NoJob
    /\ UNCHANGED <<status, store, degraded, manager, entries, history>>

CopySegments ==
    /\ status = "up" /\ job.pc = "wal"
    /\ dirs' = [dirs EXCEPT ![job.id].recs = LiveWal.recs]
    /\ job' = [job EXCEPT !.pc = "finish"]
    /\ UNCHANGED <<status, store, degraded, manager, entries, history>>

(* The chain's copy of a table: that of its youngest backup which has one. *)
CopyOf(id, name) ==
    LET b == Max({c \in Chain(id) : name \in infos[c].newFiles})
    IN  IF b \in DOMAIN dirs THEN {dirs[b].files[name]} ELSE {}

(* The worker ran in between; the engine does not have in memory what is   *)
(* on disk; the base was deleted; the base has another table of that name. *)
FlawsOf ==
    (IF job.raced THEN {"raced"} ELSE {}) \cup (IF degraded THEN {"degraded"} ELSE {})
    \cup (IF Base # 0 /\ (Base \notin listed \/ "orphan" \in dirs[Base].flaws)
          THEN {"orphan"} ELSE {})
    \cup (IF \E n \in job.tables \ NewFiles : n \notin DOMAIN files \/ CopyOf(Base, n) # {files[n]}
          THEN {"clash"} ELSE {})

(* Mutant: the backup is not entered into the manifest file.               *)
AddBackupUnlisted(info) ==
    /\ infos' = With(infos, job.id, info)
    /\ listed' = listed \cup {job.id}
    /\ last' = IF info.type = "checkpoint" THEN last ELSE job.id
    /\ UNCHANGED entries

AddBackup(info) ==
    /\ infos' = With(infos, job.id, info)
    /\ listed' = listed \cup {job.id}
    /\ last' = IF info.type = "checkpoint" THEN last ELSE job.id
    /\ entries' = Append(entries, job.id)

(* The WAL manifest is copied, the info and the table manifest are saved.  *)
(* The manifest's map of layers is the live one, its next identifier is    *)
(* that of the beginning.  addBackup follows.                              *)
Finish ==
    LET info == [type |-> job.type, baseId |-> Base, base |-> Base, newFiles |-> NewFiles]
    IN  /\ status = "up" /\ job.pc = "finish"
        /\ dirs' = [dirs EXCEPT ![job.id].flushed = wal.flushed, ![job.id].info = info,
                         ![job.id].flaws = FlawsOf,
                         ![job.id].manifest = [names |-> LiveManifest.names, next |-> job.next]]
        /\ AddBackup(info)
        /\ job' = IF job.target = 0 THEN NoJob ELSE [job EXCEPT !.pc = "clear"]
        /\ UNCHANGED <<status, store, degraded, history>>

-----------------------------------------------------------------------------
(* Restore of one backup into an empty directory, as far as it gets: the   *)
(* base of an incremental backup first, over it the new files, then the    *)
(* manifest and the WAL.                                                   *)

(* Mutant: the base is not restored.                                       *)
RestoreIntoAlone(id) ==
    IF id \notin DOMAIN dirs THEN [ok |-> FALSE, files |-> <<>>, manifest |-> Empty, wal |-> NoWal]
    ELSE [ok |-> TRUE, files |-> dirs[id].files, manifest |-> dirs[id].manifest,
          wal |-> [recs |-> dirs[id].recs, flushed |-> dirs[id].flushed]]

Rooted(c) == \A b \in c : infos[b].type = "incremental" => infos[b].base # 0

(* What the backups of a chain leave in the directory, oldest first.       *)
Overlay(c) ==
    [n \in UNION {DOMAIN dirs[b].files : b \in c} |->
        dirs[Max({b \in c : n \in DOMAIN dirs[b].files})].files[n]]

RestoreInto(id) ==
    LET chain == Chain(id)
        done == {b \in chain : Rooted(chain) /\ \A a \in chain : a <= b => a \in DOMAIN dirs}
        top == dirs[Max(done)]
    IN  [ok |-> done = chain, files |-> Overlay(done),
         manifest |-> IF done = {} THEN Empty ELSE top.manifest,
         wal |-> IF done = {} THEN NoWal ELSE [recs |-> top.recs, flushed |-> top.flushed]]

(* RestoreFromBackup, step 1: a full backup of what is there now.          *)
RestoreFromBackup(id) == Ready /\ Calm /\ id \in listed /\ BeginBackup("full", id)

(* Step 2: ClearAll, which leaves the WAL without a segment.               *)
RestoreClear ==
    /\ status = "up" /\ job.pc = "clear"
    /\ prior' = [id |-> job.id, writes |-> dirs[job.id].taken, from |-> dirs[job.target].flaws]
    /\ Cleared
    /\ degraded' = TRUE
    /\ job' = [job EXCEPT !.pc = "restore"]
    /\ UNCHANGED <<status, imm, worker, manager, dirs, entries,
                   written, made, upsets, torn>>

(* Step 3: if the backup cannot be restored, the new one is restored over  *)
(* what is there, and the engine goes on without being reinitialized.      *)
RestoreBackup ==
    LET r == RestoreInto(job.target)
        back == RestoreInto(job.id)
        to == IF r.ok THEN r ELSE [back EXCEPT !.files = Over(back.files, r.files)]
    IN  /\ status = "up" /\ job.pc = "restore"
        /\ files' = to.files /\ manifest' = to.manifest /\ wal' = to.wal
        /\ job' = IF r.ok THEN [job EXCEPT !.pc = "reinitialize"]
                  ELSE [NoJob EXCEPT !.pc = "delete", !.todo = {job.id}]
        /\ UNCHANGED <<status, mem, imm, worker, degraded, manager, dirs, entries, history>>

(* Step 4, and step 5, the deletion of the new backup.  A manifest that    *)
(* names a missing table is a panic, now and at every start.               *)
Reinitialize ==
    /\ status = "up" /\ job.pc = "reinitialize"
    /\ IF Opens(files, manifest)
       THEN /\ mem' = wal.recs \ wal.flushed
            /\ degraded' = FALSE
            /\ job' = IF \E b \in listed : infos[b].baseId = job.id THEN NoJob
                      ELSE [NoJob EXCEPT !.pc = "delete", !.todo = {job.id}]
            /\ UNCHANGED <<status, files, manifest, wal, imm, worker, manager, dirs, entries>>
       ELSE GoDown
    /\ prior' = IF Opens(files, manifest) THEN NoPrior ELSE prior
    /\ UNCHANGED <<written, made, upsets, torn>>

-----------------------------------------------------------------------------
(* Deletion.  A deleted LastBackup stays LastBackup.                       *)

(* Mutant: nobody is asked whether another backup depends on this one.     *)
DeleteBackupAnyway(id) ==
    /\ Ready /\ id \in listed
    /\ job' = [NoJob EXCEPT !.pc = "delete", !.todo = {id}]
    /\ UNCHANGED <<status, store, degraded, manager, dirs, entries, history>>

DeleteBackup(id) ==
    /\ Ready /\ id \in listed
    /\ \A b \in listed : infos[b].baseId # id
    /\ job' = [NoJob EXCEPT !.pc = "delete", !.todo = {id}]
    /\ UNCHANGED <<status, store, degraded, manager, dirs, entries, history>>

Dependents(id) ==
    {b \in listed : \A T \in SUBSET listed :
        id \in T /\ (\A c \in listed : infos[c].baseId \in T => c \in T) => b \in T}

CascadeDelete(id) ==
    /\ Ready /\ id \in listed
    /\ job' = [NoJob EXCEPT !.pc = "delete", !.todo = Dependents(id)]
    /\ UNCHANGED <<status, store, degraded, manager, dirs, entries, history>>

(* Dependents go first.                                                    *)
DeleteDirectory ==
    /\ status = "up" /\ job.pc = "delete"
    /\ \E id \in job.todo :
          /\ \A b \in job.todo : infos[b].baseId # id
          /\ dirs' = Restrict(dirs, DOMAIN dirs \ {id})
          /\ torn' = id
          /\ job' = [job EXCEPT !.pc = "unlist", !.id = id]
    /\ prior' = IF prior.id \notin DOMAIN dirs' THEN NoPrior ELSE prior
    /\ UNCHANGED <<status, store, degraded, manager, entries,
                   written, made, upsets>>

(* An info that neither the list nor LastBackup leads to is gone.          *)
RemoveBackup ==
    /\ status = "up" /\ job.pc = "unlist"
    /\ listed' = listed \ {job.id}
    /\ infos' = Restrict(infos, Reach((listed \ {job.id}) \cup {last}, Bases))
    /\ entries' = RemoveFirst(entries, job.id)
    /\ job' = IF job.todo = {job.id} THEN NoJob
              ELSE [job EXCEPT !.pc = "delete", !.todo = @ \ {job.id}]
    /\ torn' = 0
    /\ UNCHANGED <<status, store, degraded, last, dirs,
                   written, made, upsets, prior>>

DeleteAllBackups ==
    /\ Ready /\ listed # {}
    /\ dirs' = <<>> /\ entries' = <<>> /\ listed' = {} /\ last' = 0 /\ infos' = <<>>
    /\ prior' = NoPrior
    /\ UNCHANGED <<status, store, degraded, job, written, made, upsets, torn>>

-----------------------------------------------------------------------------

Crash ==
    /\ status = "up" /\ upsets < MaxUpsets
    /\ GoDown
    /\ upsets' = upsets + 1
    /\ UNCHANGED <<written, made, prior, torn>>

(* NewEngine: the backup manager reads every entry's info file and panics  *)
(* if it is missing, the SSTable manager every table.  LastBackup is the   *)
(* last entry, whatever its type.  A start that fails once always fails.   *)
Restart ==
    LET E == ToSet(entries)
        opens == E \subseteq DOMAIN dirs /\ Opens(files, manifest)
        base(i) == IF i.baseId \in E THEN i.baseId ELSE 0
    IN  /\ status = "down"
        /\ IF opens
           THEN /\ status' = "up"
                /\ infos' = [e \in E |-> [dirs[e].info EXCEPT !.base = base(dirs[e].info)]]
                /\ listed' = E /\ last' = (IF entries = <<>> THEN 0 ELSE Last(entries))
                /\ mem' = wal.recs \ wal.flushed
           ELSE status' = "stuck" /\ UNCHANGED <<infos, listed, last, mem>>
        /\ UNCHANGED <<files, manifest, wal, imm, worker, degraded, dirs, entries, job, history>>

Init ==
    /\ status = "up" /\ files = <<>> /\ manifest = Empty /\ wal = NoWal
    /\ mem = {} /\ imm = {} /\ worker = [pc |-> "idle", tab |-> {}] /\ degraded = FALSE
    /\ infos = <<>> /\ listed = {} /\ last = 0 /\ dirs = <<>> /\ entries = <<>> /\ job = NoJob
    /\ written = 0 /\ made = 0 /\ upsets = 0
    /\ prior = NoPrior /\ torn = 0

Next ==
    \/ Write \/ Rotate \/ ClearAll
    \/ FlushToSSTable \/ MemtableFlushed \/ Compact
    \/ \E type \in Types : CreateBackup(type)
    \/ CopyTables \/ CopySegments \/ Finish
    \/ \E id \in listed : RestoreFromBackup(id) \/ DeleteBackup(id) \/ CascadeDelete(id)
    \/ RestoreClear \/ RestoreBackup \/ Reinitialize
    \/ DeleteDirectory \/ RemoveBackup \/ DeleteAllBackups
    \/ Crash \/ Restart

Spec == Init /\ [][Next]_vars

-----------------------------------------------------------------------------
(* Properties.                                                             *)

(* A listed backup brings back exactly what the store held when it was     *)
(* made, however many backups its chain has and whatever was flushed,      *)
(* merged, deleted or restored since.  Left out: backups with a flaw, that *)
(* is, the flush worker ran in between, the base had been deleted, the     *)
(* base has another table of the same name, or a restore had failed before *)
(* and the engine been left empty.                                         *)
BackupRestores ==
    status = "up" /\ job.pc \in {"idle", "restore"} => \A id \in listed :
        dirs[id].flaws = {} =>
            LET r == RestoreInto(id)
            IN  /\ r.ok /\ Opens(r.files, r.manifest)
                /\ Contents(r.files, r.manifest, r.wal) = dirs[id].taken

(* RestoreFromBackup never puts what was there at risk: from the moment it *)
(* is cleared, and after a crash at any step, the new backup is in the     *)
(* manifest file and complete, until the restored store is open; and if    *)
(* the restore fails, what was there is on disk again before the new       *)
(* backup is deleted.  Left out: a restore that follows a failed one in    *)
(* the same process, whose backup is of an empty engine.                   *)
RestoreSafe ==
    prior.id # 0 /\ dirs[prior.id].flaws = {} =>
        LET d == dirs[prior.id]
        IN  /\ prior.id \in ToSet(entries)
            /\ Contents(d.files, d.manifest, [recs |-> d.recs, flushed |-> d.flushed]) = prior.writes
            /\ job.pc = "delete" /\ prior.id \in job.todo /\ degraded =>
                  Opens(files, manifest) /\ Contents(files, manifest, wal) = prior.writes

(* Every backup in the manifest file has a complete directory and so have  *)
(* the backups it rests on, at every instant, so that a crash leaves       *)
(* backups the next process can use; but for the one being deleted, and    *)
(* those whose base had been deleted before they were made.                *)
ListedComplete ==
    \A id \in ToSet(entries) \ {torn} :
        /\ id \in DOMAIN dirs /\ dirs[id].info # NoInfo
        /\ "orphan" \notin dirs[id].flaws =>
              dirs[id].info.baseId \in ToSet(entries) \cup {0}

(* The engine fails to start only after a crash in the middle of a         *)
(* deletion, or with a store restored from a backup during which the flush *)
(* worker changed the tables.                                              *)
StartFailsOnly ==
    status = "stuck" => torn # 0 \/ "raced" \in prior.from
=============================================================================
