---------------------------- MODULE Configuration ----------------------------
(***************************************************************************)
(* The settings file: where a start looks for it and what it folds into it *)
(* (core/config.py), how the Bridge changes and saves settings from        *)
(* several threads (bridge/api/handlers.py, web/app.py), and the full      *)
(* purge that deletes the data folder under them (core/cleanup.py).        *)
(*                                                                         *)
(* Three folders can hold a config.json: the fixed one ("home", or the one *)
(* that LOCAL_AGENT_CONFIG names), the program's own ("app") and a folder  *)
(* that a data_dir setting names ("data").  Of the settings the model      *)
(* keeps data_dir and one other, the language model.                       *)
(***************************************************************************)
EXTENDS Integers, Sequences, FiniteSets

CONSTANTS
    Writers,    \* threads that change settings
    MaxChanges, \* bound: changes of settings
    MaxStarts   \* bound: starts of the program

ASSUME ConfigurationAssumption == MaxChanges \in Nat /\ MaxStarts \in Nat \ {0}

VARIABLES
    up,       \* "down", "up", "failed" (the start raised) or "purged"
    disk,     \* [Folders -> config.json]
    tmp,      \* [Folders -> config.json.tmp]
    settings, \* handlers.settings: [dir, model, path]
    writer,   \* [Writers -> where the thread stands in _persist_settings]
    purge,    \* the purge under way: [state, dir, left]
    platform, \* on Windows a file that is open cannot be replaced
    explicit, \* is LOCAL_AGENT_CONFIG set?
    saved,    \* the language model of the last change that was saved
    overlap,  \* have two threads saved at the same time?
    astray,   \* has a save gone to another file than the one that was read?
    changes, starts

configVars == <<up, disk, tmp, settings, writer, purge, platform, explicit,
                saved, overlap, astray, changes, starts>>

Folders == {"home", "app", "data"}

NoFile == [dir |-> "none", model |-> -2]
Torn == [dir |-> "torn", model |-> -2]
Absent == -1      \* the key is not in the file
DefaultModel == 0
OldModel == 100   \* what a previous version left behind
NoPath == "none"

IsWhole(f) == f \notin {NoFile, Torn}
Template(d) == [dir |-> d, model |-> DefaultModel]
Idle == [at |-> "idle", dir |-> "none", content |-> NoFile, handle |-> "none"]
NoPurge == [state |-> "none", dir |-> "none", left |-> {}]

ConfigInit ==
    /\ up = "down" /\ starts = 0 /\ changes = 0
    /\ disk \in [home : {NoFile, [dir |-> "data", model |-> DefaultModel],
                         [dir |-> "data", model |-> Absent]},
                 app  : {NoFile, [dir |-> "absent", model |-> OldModel]},
                 data : {NoFile, [dir |-> "data", model |-> OldModel]}]
    /\ tmp = [d \in Folders |-> NoFile]
    /\ settings = [dir |-> "none", model |-> Absent, path |-> NoPath]
    /\ writer = [t \in Writers |-> Idle]
    /\ purge = NoPurge
    /\ platform \in {"windows", "posix"} /\ explicit \in BOOLEAN
    /\ saved = Absent /\ overlap = FALSE /\ astray = FALSE

-----------------------------------------------------------------------------
(* What a start reads.                                                     *)

\* _has_real_settings: the section is there, or data_dir points elsewhere.
IsReal(f) == IsWhole(f) /\ (f.model # Absent \/ f.dir \notin {"absent", "home"})

DirOf(files, d) == IF IsWhole(files[d]) THEN files[d].dir ELSE "absent"

\* A folder, and the folder that its file's data_dir names.
WithDataDir(files, d) ==
    <<d>> \o (IF DirOf(files, d) \in Folders THEN <<DirOf(files, d)>> ELSE <<>>)

\* The candidates are tried in turn: is one of them good, and which is the first?
Some(places, good) == \E i \in DOMAIN places : places[i] \in good

First(places, good) ==
    places[CHOOSE i \in DOMAIN places :
             places[i] \in good /\ \A j \in 1..(i - 1) : places[j] \notin good]

Target(files) ==
    LET places == WithDataDir(files, "app")
        real == {d \in Folders : IsReal(files[d])}
    IN IF explicit \/ files["home"] # NoFile \/ ~IsWhole(files["app"]) \/ ~Some(places, real)
       THEN "home" ELSE First(places, real)

LegacyPlaces(files, target) ==
    Tail(WithDataDir(files, target)) \o WithDataDir(files, "app")

\* _migrate_old_config: a setting that the file lacks is taken from the first
\* older file that has it, unless it has the default there too.
Migrated(files, target) ==
    LET f == files[target]
        places == LegacyPlaces(files, target)
        older == {d \in Folders \ {target} : IsWhole(files[d])
                                   /\ files[d].model \notin {Absent, DefaultModel}}
    IN IF f.model # Absent \/ ~Some(places, older) THEN f
       ELSE [f EXCEPT !.model = files[First(places, older)].model]

\* The file after load_settings, which writes a template where there is none.
AfterStart(files) ==
    LET t == Target(files) IN
    LET created == IF files[t] = NoFile THEN [files EXCEPT ![t] = Template(t)] ELSE files
    IN IF created[t] = Torn THEN created ELSE [created EXCEPT ![t] = Migrated(created, t)]

ModelOf(f) == IF f.model = Absent THEN DefaultModel ELSE f.model

Load ==
    LET t == Target(disk)  f == AfterStart(disk)[t] IN
    /\ up = "down" /\ starts < MaxStarts
    /\ starts' = starts + 1
    /\ disk' = AfterStart(disk)
    /\ IF f = Torn
       THEN up' = "failed" /\ UNCHANGED settings
       ELSE /\ up' = "up"
            /\ settings' = [dir |-> IF f.dir \in Folders THEN f.dir ELSE t,
                            model |-> ModelOf(f), path |-> t]
    /\ UNCHANGED <<tmp, writer, purge, platform, explicit, saved, overlap, astray, changes>>

-----------------------------------------------------------------------------
(* Changing and saving settings.                                           *)

Change(t, new) ==
    /\ up = "up" /\ writer[t] = Idle /\ changes < MaxChanges
    /\ changes' = changes + 1
    /\ settings' = new
    /\ writer' = [writer EXCEPT ![t].at = "changed"]
    /\ UNCHANGED <<up, disk, tmp, purge, platform, explicit, saved, overlap, astray, starts>>

\* _set_model and the web's update_settings override fields of the settings.
Override(t) == Change(t, [settings EXCEPT !.model = changes + 1])

\* apply_config_set builds new settings from the dictionary of the old ones,
\* and the dictionary has no config_path.
ConfigSet(t) ==
    \/ Change(t, [settings EXCEPT !.model = changes + 1, !.path = NoPath])
    \/ \E d \in {"home", "data"} : Change(t, [settings EXCEPT !.dir = d, !.path = NoPath])

EffectivePath == IF settings.path # NoPath THEN settings.path ELSE settings.dir

Busy(t) == writer[t].at \in {"opened", "written"}

\* Mutation: the settings are written straight into config.json.
WriteOver(t) ==
    /\ up = "up" /\ writer[t].at = "changed"
    /\ writer' = [writer EXCEPT ![t] =
          [at |-> "opened", dir |-> EffectivePath, handle |-> "file",
           content |-> [dir |-> settings.dir, model |-> settings.model]]]
    /\ disk' = [disk EXCEPT ![EffectivePath] = Torn]
    /\ UNCHANGED <<up, tmp, settings, purge, platform, explicit, saved, overlap, astray,
                   changes, starts>>

\* _persist_settings dumps the settings and opens config.json.tmp, which
\* truncates it.
Open(t) ==
    LET d == EffectivePath IN
    /\ up = "up" /\ writer[t].at = "changed"
    /\ writer' = [writer EXCEPT ![t] =
          [at |-> "opened", dir |-> d, handle |-> "tmp",
           content |-> [dir |-> settings.dir, model |-> settings.model]]]
    /\ tmp' = [tmp EXCEPT ![d] = Torn]
    /\ overlap' = (overlap \/ \E u \in Writers \ {t} : Busy(u))
    /\ astray' = (astray \/ d # Target(disk))
    /\ UNCHANGED <<up, disk, settings, purge, platform, explicit, saved, changes, starts>>

\* What a file holds when a thread writes into it that another has written to.
Mixed(old, new) == IF old = Torn THEN {new} ELSE {new, Torn}

Write(t) ==
    LET w == writer[t] IN
    /\ up = "up" /\ w.at = "opened"
    /\ writer' = [writer EXCEPT ![t].at = "written"]
    /\ \/ w.handle = "tmp" /\ UNCHANGED disk
          /\ \E f \in Mixed(tmp[w.dir], w.content) : tmp' = [tmp EXCEPT ![w.dir] = f]
       \/ w.handle = "file" /\ UNCHANGED tmp
          /\ \E f \in Mixed(disk[w.dir], w.content) : disk' = [disk EXCEPT ![w.dir] = f]
       \/ w.handle = "lost" /\ UNCHANGED <<disk, tmp>>
    /\ UNCHANGED <<up, settings, purge, platform, explicit, saved, overlap, astray, changes, starts>>

\* The files that the threads hold open move with a rename or are unlinked.
Moved(d) ==
    [u \in Writers |->
       IF writer[u].dir # d \/ writer[u].at # "opened" THEN writer[u]
       ELSE [writer[u] EXCEPT !.handle = IF @ = "tmp" THEN "file" ELSE "lost"]]

CannotReplace(t) ==
    \/ tmp[writer[t].dir] = NoFile
    \/ platform = "windows"
       /\ \E u \in Writers \ {t} : writer[u].at = "opened" /\ writer[u].dir = writer[t].dir

\* os.replace; a failure is logged, and the change is not saved.
Replace(t) ==
    LET w == writer[t] IN
    /\ up = "up" /\ w.at = "written"
    /\ \/ /\ CannotReplace(t)
          /\ writer' = [writer EXCEPT ![t] = Idle]
          /\ UNCHANGED <<disk, tmp, saved>>
       \/ /\ ~CannotReplace(t)
          /\ disk' = [disk EXCEPT ![w.dir] = tmp[w.dir]]
          /\ tmp' = [tmp EXCEPT ![w.dir] = NoFile]
          /\ writer' = [Moved(w.dir) EXCEPT ![t] = Idle]
          /\ saved' = w.content.model
    /\ UNCHANGED <<up, settings, purge, platform, explicit, overlap, astray, changes, starts>>

-----------------------------------------------------------------------------
(* The purge.                                                              *)

\* purge_all lists the folder and deletes what it found, entry by entry; what
\* a thread puts there meanwhile keeps the folder from being removed.
PurgeBegins ==
    /\ up = "up" /\ purge = NoPurge
    /\ purge' = [state |-> "deleting", dir |-> settings.dir,
                 left |-> {f \in {"config", "tmp"} :
                             IF f = "tmp" THEN tmp[settings.dir] # NoFile
                                          ELSE disk[settings.dir] # NoFile}]
    /\ UNCHANGED <<up, disk, tmp, settings, writer, platform, explicit, saved, overlap,
                   astray, changes, starts>>

PurgeDeletes ==
    LET d == purge.dir IN
    /\ up = "up" /\ purge.state = "deleting"
    /\ \E f \in purge.left :
         /\ purge' = [purge EXCEPT !.left = @ \ {f}]
         /\ IF f = "tmp" THEN tmp' = [tmp EXCEPT ![d] = NoFile] /\ UNCHANGED disk
                         ELSE disk' = [disk EXCEPT ![d] = NoFile] /\ UNCHANGED tmp
         /\ writer' = [u \in Writers |->
              IF writer[u].dir = d /\ writer[u].handle = (IF f = "tmp" THEN "tmp" ELSE "file")
              THEN [writer[u] EXCEPT !.handle = "lost"] ELSE writer[u]]
    /\ saved' = IF disk' # disk THEN Absent ELSE saved
    /\ UNCHANGED <<up, settings, platform, explicit, overlap, astray, changes, starts>>

IsEmpty(d) == disk[d] = NoFile /\ tmp[d] = NoFile

PurgeReports ==
    /\ up = "up" /\ purge.state = "deleting" /\ purge.left = {}
    /\ purge' = [purge EXCEPT !.state = IF IsEmpty(purge.dir) THEN "ok" ELSE "incomplete"]
    /\ UNCHANGED <<up, disk, tmp, settings, writer, platform, explicit, saved, overlap,
                   astray, changes, starts>>

\* _schedule_process_exit: 0.8 seconds after the answer.
PurgeExits ==
    /\ up = "up" /\ purge.state = "ok"
    /\ up' = "purged"
    /\ UNCHANGED <<disk, tmp, settings, writer, purge, platform, explicit, saved, overlap,
                   astray, changes, starts>>

Crash ==
    /\ up = "up"
    /\ up' = "down"
    /\ writer' = [t \in Writers |-> Idle]
    /\ purge' = NoPurge
    /\ UNCHANGED <<disk, tmp, settings, platform, explicit, saved, overlap, astray, changes,
                   starts>>

WriterStep(t) == Override(t) \/ ConfigSet(t) \/ Open(t) \/ Write(t) \/ Replace(t)

ConfigNext ==
    \/ Load \/ Crash
    \/ \E t \in Writers : WriterStep(t)
    \/ PurgeBegins \/ PurgeDeletes \/ PurgeReports \/ PurgeExits

ConfigSpec == ConfigInit /\ [][ConfigNext]_configVars

-----------------------------------------------------------------------------
(* Properties.                                                             *)

\* The write is atomic "so a crash mid-write can never corrupt the file the
\* next start reads" (handlers.py:376-377), as long as one thread at a time
\* saves.  Two that save together share config.json.tmp and can.
ConfigIsWhole == overlap \/ \A d \in Folders : disk[d] # Torn

\* What was saved is what the next start reads, whichever files lie around and
\* whatever the migration folds in, if all saves went to the file that a start
\* reads.
SavedIsReadAgain ==
    saved = Absent \/ overlap \/ astray
    \/ LET files == AfterStart(disk) IN files[Target(disk)].model = saved

\* The settings file is whole, and a start reads what was saved.
ConfigSafe == ConfigIsWhole /\ SavedIsReadAgain

\* "every write must target the same path so settings survive a restart even
\* when data_dir points elsewhere" (config.py:322-325).  Not so in the code:
\* apply_config_set loses the path.
SettingsSurvive ==
    saved = Absent \/ overlap
    \/ LET files == AfterStart(disk) IN files[Target(disk)].model = saved

\* "exiting straight after the reply guarantees a half-alive server never
\* recreates the data directory" (app.py:149-151).  Not so in the code: a
\* thread that saves before the exit makes the folder again.
PurgedStaysPurged == up = "purged" => IsEmpty(purge.dir)
=============================================================================
