------------------------------ MODULE AgentTools ------------------------------
(***************************************************************************)
(* The workspace tools of the workflow agent (agent/tools.py).  A bot      *)
(* handles one update at a time, so that one call goes on in it; the bots  *)
(* for Telegram and for Bale are processes that work on one folder:        *)
(* writing and patching through a temporary file, sorting files into       *)
(* category folders, walking over the files, reading several, screenshots  *)
(* and commands.                                                           *)
(*                                                                         *)
(* Every file has one category.  A text is the number of the call that     *)
(* wrote it.  Opening a file truncates it and closing fills it, so that a  *)
(* file two calls have open ends up with a mixture.                        *)
(* Not modelled: paths and the names they refuse, the depth of a listing,  *)
(* git and web searches.                                                   *)
(***************************************************************************)
EXTENDS Naturals, FiniteSets

CONSTANTS
    Bots,     \* processes, each with one call at a time
    Names,     \* names of files in the workspace's folder
    Hidden,    \* the sensitive ones among them
    MaxListed, \* the files after which list_files stops
    MaxCalls,  \* bound: calls of tools
    MaxEdits   \* bound: what the user and other programs do to files

ASSUME AgentToolsAssumption ==
    Hidden \subseteq Names /\ MaxListed \in Nat /\ MaxCalls \in Nat /\ MaxEdits \in Nat

Spots == Names \X {"top", "category"}
Top(f) == <<f, "top">>
Sorted(f) == <<f, "category">>
NoSpot == <<>>

VARIABLES
    disk,  \* [spot -> the file there]
    temp,  \* [spot -> its .agent-tmp file]
    call,  \* [bot -> its call]
    calls, \* calls so far
    edits, \* edits so far
    ended, \* whether a process has ended in the middle of a call
    shared, \* the spots that two calls have written at the same time
    halfDrawn \* the spots of screenshots whose writing was cut short

toolVars == <<disk, temp, call, calls, edits, ended, shared, halfDrawn>>

NoText == [there |-> FALSE, of |-> {}, writers |-> {}]
Text(n) == [there |-> TRUE, of |-> {n}, writers |-> {}]
WholeText(t) == t.writers = {} /\ (t.there => Cardinality(t.of) = 1)

Idle == [op |-> "none", at |-> "idle", spot |-> NoSpot, n |-> 0,
         dirs |-> {}, todo |-> {}, seen |-> {},
         failed |-> FALSE, since |-> {}]

AgentToolsInit ==
    /\ \E some \in SUBSET Spots :
          disk = [p \in Spots |-> IF p \in some THEN Text(0) ELSE NoText]
    /\ temp = [p \in Spots |-> NoText]
    /\ call = [c \in Bots |-> Idle]
    /\ calls = 0 /\ edits = 0 /\ ended = FALSE /\ shared = {} /\ halfDrawn = {}

Visible == Names \ Hidden
Walks == {"list", "search", "inspect", "analyze"}
CallAt(c, where) == call[c].at = where
CallGoes(c, where) == [call EXCEPT ![c].at = where]

\* Where files have come or gone is noted in the calls that go over files.
Disk(new, becomes) ==
    /\ disk' = new
    /\ call' = [c \in Bots |-> IF becomes[c].at \notin {"move", "look"} THEN becomes[c] ELSE
         [becomes[c] EXCEPT !.since = @ \cup {p \in Spots : new[p].there # disk[p].there}]]

-----------------------------------------------------------------------------
(* Calls begin: their arguments are checked.                               *)

Begins(c, op, at, spot, dirs, todo) ==
    /\ call[c] = Idle /\ calls < MaxCalls
    /\ calls' = calls + 1
    /\ call' = [call EXCEPT ![c] =
         [op |-> op, at |-> at, spot |-> spot, n |-> calls + 1, dirs |-> dirs, todo |-> todo,
          seen |-> {}, failed |-> FALSE, since |-> {}]]
    /\ UNCHANGED <<disk, temp, edits, ended, halfDrawn>>

NotesSharing(spot) ==
    shared' = IF \E b \in Bots : call[b].spot = spot THEN shared \cup {spot} ELSE shared

BeginTextWrite(c, f) ==
    f \in Visible /\ Begins(c, "write", "open", Top(f), {}, {}) /\ NotesSharing(Top(f))

\* The fragment is found once in the text that is there now.
BeginPatch(c, f) ==
    /\ f \in Visible /\ disk[Top(f)].there
    /\ Begins(c, "patch", "open", Top(f), {}, {}) /\ NotesSharing(Top(f))

BeginScreenshot(c, f) ==
    /\ f \in Visible
    /\ Begins(c, "screenshot", "shoot", Top(f), {}, {}) /\ NotesSharing(Top(f))

\* The plan of organize_files skips names that exist at their destination.
Plan == {f \in Visible : disk[Top(f)].there /\ ~disk[Sorted(f)].there}

\* With apply=FALSE the plan is the whole answer.
BeginOrganize(c) ==
    Begins(c, "organize", "move", NoSpot, {}, Plan) /\ UNCHANGED shared

Listed == {p \in Spots : disk[p].there /\ p[1] \in Visible}

\* list_files, search_files, inspect_project and analyze_directory list one
\* directory after the other, and look at one file after another.
BeginWalk(c) ==
    /\ \E op \in Walks : Begins(c, op, "look", NoSpot, {"top", "category"}, {})
    /\ UNCHANGED shared

\* read_file and read_many_files.
BeginRead(c) ==
    /\ \E which \in SUBSET {Top(f) : f \in Visible} :
          which # {} /\ Begins(c, "read", "look", NoSpot, {}, which)
    /\ UNCHANGED shared

BeginCommand(c) ==
    Begins(c, "command", "run", NoSpot, {}, {}) /\ UNCHANGED shared

Returns(c) == [call EXCEPT ![c] = Idle]

-----------------------------------------------------------------------------
(* _write_text.                                                            *)

\* Mutation: the target itself is opened.
OpenItself(c) ==
    /\ CallAt(c, "open")
    /\ Disk([disk EXCEPT ![call[c].spot] =
               [there |-> TRUE, of |-> {}, writers |-> @.writers \cup {c}]], CallGoes(c, "fill"))
    /\ UNCHANGED <<temp, calls, edits, ended, shared, halfDrawn>>

OpenTemp(c) ==
    /\ CallAt(c, "open")
    /\ temp' = [temp EXCEPT ![call[c].spot] =
                  [there |-> TRUE, of |-> {}, writers |-> @.writers \cup {c}]]
    /\ call' = CallGoes(c, "fill")
    /\ UNCHANGED <<disk, calls, edits, ended, shared, halfDrawn>>

\* What a call has open may have been renamed or deleted meanwhile.
WrittenBack(files, c, text) ==
    [p \in Spots |-> IF c \in files[p].writers
                     THEN [files[p] EXCEPT !.of = @ \cup text, !.writers = @ \ {c}]
                     ELSE files[p]]

FillText(c) ==
    /\ CallAt(c, "fill")
    /\ temp' = WrittenBack(temp, c, {call[c].n})
    /\ Disk(WrittenBack(disk, c, {call[c].n}), CallGoes(c, "replace"))
    /\ UNCHANGED <<calls, edits, ended, shared, halfDrawn>>

FillFails(c) ==
    /\ CallAt(c, "fill")
    /\ temp' = WrittenBack(temp, c, {})
    /\ Disk(WrittenBack(disk, c, {}), CallGoes(c, "clean"))
    /\ UNCHANGED <<calls, edits, ended, shared, halfDrawn>>

\* replace() raises when another call has taken the temporary file away.
Replace(c) ==
    LET p == call[c].spot IN
    /\ CallAt(c, "replace")
    /\ IF temp[p].there
       THEN /\ Disk([disk EXCEPT ![p] = temp[p]], CallGoes(c, "clean"))
            /\ temp' = [temp EXCEPT ![p] = NoText]
       ELSE Disk(disk, CallGoes(c, "clean")) /\ UNCHANGED temp
    /\ UNCHANGED <<calls, edits, ended, shared, halfDrawn>>

Clean(c) ==
    /\ CallAt(c, "clean")
    /\ temp' = [temp EXCEPT ![call[c].spot] = NoText]
    /\ call' = Returns(c)
    /\ UNCHANGED <<disk, calls, edits, ended, shared, halfDrawn>>

-----------------------------------------------------------------------------
(* The other calls.                                                        *)

\* A move that finds its file gone raises and leaves the rest of the plan;
\* whatever has come to the destination meanwhile is replaced.
MoveFile(c, f) ==
    /\ CallAt(c, "move") /\ f \in call[c].todo
    /\ IF disk[Top(f)].there
       THEN Disk([disk EXCEPT ![Sorted(f)] = disk[Top(f)], ![Top(f)] = NoText],
                 [call EXCEPT ![c].todo = @ \ {f}])
       ELSE call' = Returns(c) /\ UNCHANGED disk
    /\ UNCHANGED <<temp, calls, edits, ended, shared, halfDrawn>>

ListDirectory(c, d) ==
    /\ CallAt(c, "look") /\ d \in call[c].dirs
    /\ call' = [call EXCEPT ![c].dirs = @ \ {d},
                            ![c].todo = @ \cup {p \in Listed : p[2] = d}]
    /\ UNCHANGED <<disk, temp, calls, edits, ended, shared, halfDrawn>>

\* A search or an inspection goes on as if there were no files.
ListingFails(c) ==
    /\ CallAt(c, "look") /\ call[c].dirs # {}
    /\ call' = IF call[c].op \in {"search", "inspect"}
               THEN [call EXCEPT ![c].dirs = {}, ![c].todo = {}, ![c].seen = {}, ![c].failed = TRUE]
               ELSE Returns(c)
    /\ UNCHANGED <<disk, temp, calls, edits, ended, shared, halfDrawn>>

\* list_files and search_files have listed all before they look.
MayLook(c, p) ==
    /\ CallAt(c, "look") /\ p \in call[c].todo
    /\ call[c].op \in {"list", "search"} => call[c].dirs = {}

\* list_files stops at a cap of files, and search_files at one of matches, of
\* which a file can have any number.
ReachesCap(c, seen) ==
    call[c].op = "search" \/ (call[c].op = "list" /\ Cardinality(seen) >= MaxListed)

\* A walk passes over a file that has gone or cannot be read; read_many_files
\* raises.
Look(c, p) ==
    LET seen == call[c].seen \cup {p} IN
    /\ MayLook(c, p)
    /\ \/ /\ call[c].op = "read" => disk[p].there
          /\ call' = [call EXCEPT ![c].todo = @ \ {p}, ![c].seen = seen]
       \/ /\ call[c].op = "read" \/ ReachesCap(c, seen)
          /\ call' = Returns(c)
    /\ UNCHANGED <<disk, temp, calls, edits, ended, shared, halfDrawn>>

\* page.screenshot fails, or has the picture and opens the file itself.
ShootFails(c) ==
    /\ CallAt(c, "shoot")
    /\ call' = Returns(c)
    /\ UNCHANGED <<disk, temp, calls, edits, ended, shared, halfDrawn>>

OpenPicture(c) ==
    /\ CallAt(c, "shoot")
    /\ Disk([disk EXCEPT ![call[c].spot] =
               [there |-> TRUE, of |-> {}, writers |-> @.writers \cup {c}]], CallGoes(c, "draw"))
    /\ UNCHANGED <<temp, calls, edits, ended, shared, halfDrawn>>

FillPicture(c) ==
    /\ CallAt(c, "draw")
    /\ Disk(WrittenBack(disk, c, {call[c].n}), Returns(c))
    /\ UNCHANGED <<temp, calls, edits, ended, shared, halfDrawn>>

PictureFails(c) ==
    /\ CallAt(c, "draw")
    /\ Disk(WrittenBack(disk, c, {}), Returns(c))
    /\ halfDrawn' = halfDrawn \cup {call[c].spot}
    /\ UNCHANGED <<temp, calls, edits, ended, shared>>

Finish(c) ==
    /\ call[c].at \in {"move", "look", "run"} /\ call[c].todo = {} /\ call[c].dirs = {}
    /\ call' = Returns(c)
    /\ UNCHANGED <<disk, temp, calls, edits, ended, shared, halfDrawn>>

\* The user, or a command that runs, writes or deletes a file.
Edit(p) ==
    /\ edits < MaxEdits /\ edits' = edits + 1
    /\ \E new \in {NoText, Text(0)} : new # disk[p] /\ Disk([disk EXCEPT ![p] = new], call)
    /\ UNCHANGED <<temp, calls, ended, shared, halfDrawn>>

\* A process ends in the middle of its call and is started again.
ProcessEnds(c) ==
    /\ call[c] # Idle /\ ~ended /\ ended' = TRUE
    /\ call' = Returns(c)
    /\ temp' = WrittenBack(temp, c, {})
    /\ disk' = WrittenBack(disk, c, {})
    /\ halfDrawn' = IF CallAt(c, "draw") THEN halfDrawn \cup {call[c].spot} ELSE halfDrawn
    /\ UNCHANGED <<calls, edits, shared>>

AgentToolsNext ==
    \/ \E c \in Bots :
         \/ \E f \in Names : BeginTextWrite(c, f) \/ BeginPatch(c, f) \/ BeginScreenshot(c, f)
         \/ BeginOrganize(c) \/ BeginWalk(c) \/ BeginRead(c) \/ BeginCommand(c)
         \/ OpenTemp(c) \/ FillText(c) \/ FillFails(c) \/ Replace(c) \/ Clean(c)
         \/ \E f \in Names : MoveFile(c, f)
         \/ \E d \in {"top", "category"} : ListDirectory(c, d)
         \/ ListingFails(c)
         \/ \E p \in Spots : Look(c, p)
         \/ ShootFails(c) \/ OpenPicture(c) \/ FillPicture(c) \/ PictureFails(c)
         \/ Finish(c) \/ ProcessEnds(c)
    \/ \E p \in Spots : Edit(p)

AgentToolsSpec == AgentToolsInit /\ [][AgentToolsNext]_toolVars

-----------------------------------------------------------------------------
(* Properties.                                                             *)

\* A file is torn or a mixture only if two calls have written it at the same
\* time, or a screenshot of it is being written or was cut short: any other
\* write that fails half-way, or whose process ends, leaves the old text
\* (_write_text, "write atomic").
TornOnlyIfShared ==
    \A p \in Spots : ~WholeText(disk[p]) =>
       \E f \in Names :
          /\ p \in {Top(f), Sorted(f)}
          /\ \/ Top(f) \in shared \cup halfDrawn
             \/ \E c \in Bots : CallAt(c, "draw") /\ call[c].spot = Top(f)

\* No temporary file stays behind when nobody writes, unless the process
\* ended in the middle of it.
NoTempIsLeft ==
    \A p \in Spots : temp[p].there =>
       ended \/ \E c \in Bots : call[c].spot = p

\* What is left of a plan goes to a free destination, unless a file has come
\* there since the plan: organize_files overwrites nothing it could have seen.
MovesFindAFreePlace ==
    \A c \in Bots : CallAt(c, "move") =>
       \A f \in call[c].todo : disk[Sorted(f)].there => Sorted(f) \in call[c].since

\* A walk whose listing has not failed, and that goes on to its end and does not
\* stop at its cap, looks at every visible file that stays meanwhile, in whatever
\* order directories are listed and files are looked at.
WalksMissNothing ==
    \A c \in Bots : CallAt(c, "look") /\ call[c].op \in Walks /\ ~call[c].failed =>
       \A p \in Spots : p[1] \in Visible /\ disk[p].there =>
          \/ p[2] \in call[c].dirs
          \/ p \in call[c].todo \cup call[c].seen \cup call[c].since

AgentToolsSafe ==
    TornOnlyIfShared /\ NoTempIsLeft /\ MovesFindAFreePlace /\ WalksMissNothing

\* "Search visible UTF-8 files inside the workspace" (tools.py:410) finds what
\* there is, or says that it is not all: not so when the listing fails.
SearchesSayWhatTheyMiss ==
    \A c \in Bots : call[c].op = "search" => ~call[c].failed

\* "Create or replace a UTF-8 file atomically": not so when two bots write
\* one file, because they share its temporary file.
WritesAreAtomic ==
    ended \/ \A p \in Spots : WholeText(disk[p])

\* "no existing file was overwritten": not so for what comes between.
MovesOverwriteNothing ==
    \A c \in Bots : CallAt(c, "move") =>
       \A f \in call[c].todo : disk[Top(f)].there => ~disk[Sorted(f)].there
=============================================================================
