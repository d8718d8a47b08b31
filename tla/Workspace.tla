------------------------------ MODULE Workspace ------------------------------
(***************************************************************************)
(* Where actions work and what their answers show.  A Bridge has one       *)
(* ActionContext for all its chats: the workspace, which follows a change  *)
(* of the settings a step later, and the folder that run_shell remembers   *)
(* from its last command.  The files that an answer names become cards of  *)
(* the chat, by _collect_artifacts; the browser opens a card by its path,  *)
(* which the web server looks up in roots of its own: the current          *)
(* directory, and the workspace of the settings it was made with.          *)
(*                                                                         *)
(* A file is <<root, path>> and holds the number of the write that made    *)
(* it, 0 if there is none.  A folder stands for what is in it, and none is  *)
(* inside another.  What the settings read after a restart is in           *)
(* Configuration; here it is what they were.                               *)
(***************************************************************************)
EXTENDS Naturals, Sequences

CONSTANTS
    Chats,         \* runs that use the Bridge
    Folders,       \* folders that are, were or may become a workspace
    Shots,         \* relative paths below screenshots/
    Others,        \* other relative paths
    ShotNamed,     \* [Others -> Shots] the one with the same file name
    MaxEvents      \* bound: files written, commands, changes of the settings,
                   \* restarts and removed folders, together

Data == "data"     \* data_dir, with the screenshots
Nowhere == "nowhere"
Paths == Shots \cup Others
Roots == Folders \cup {Data}
Places == Roots \X Paths

ASSUME WorkspaceAssumption ==
    /\ {Data, Nowhere} \cap Folders = {} /\ Shots \cap Others = {}
    /\ ShotNamed \in [Others -> Shots] /\ MaxEvents \in Nat

VARIABLES
    options,    \* handlers.settings, and so the runtime's
    applying,   \* the settings that _apply_settings has not brought everywhere
    workDir,    \* ActionContext.work_dir
    shellCwd,   \* context.extra["shell_cwd"]
    served,     \* the workspace that the web server was made with
    cwd,        \* the current directory of the process
    dirs,       \* the folders there are; data_dir always is
    content,    \* [Places -> number of a write]
    pictures,   \* the writes that were captures of the screen
    command,    \* the command under way; the lock lets in one action
    ran,        \* the latest command, as it was started
    answer,     \* [Chats -> the file that the action's answer names]
    cards,      \* the cards of all chats
    events      \* events so far; a write is known by its number

where == <<options, applying, workDir, served, cwd>>
workspaceVars == <<where, shellCwd, dirs, content, pictures, pictures, command, ran, answer, cards,
                   events>>

NoCommand == [at |-> "none"]
NoAnswer == [says |-> "nothing"]

Options == [work : Folders, full : BOOLEAN, restrict : BOOLEAN]

WorkspaceInit ==
    /\ options \in Options /\ workDir = options.work /\ served = options.work
    /\ applying = {} /\ shellCwd = Nowhere
    /\ cwd \in Roots \cup {Nowhere}
    /\ dirs = Roots
    /\ content = [f \in Places |-> 0] /\ pictures = {}
    /\ command = NoCommand /\ ran = NoCommand
    /\ answer = [c \in Chats |-> NoAnswer] /\ cards = {} /\ events = 0

Counted == events < MaxEvents /\ events' = events + 1

IsFile(f) == content[f] # 0

-----------------------------------------------------------------------------
(* _apply_settings takes no lock.                                          *)

SwapOptions(new) ==
    /\ Counted /\ new # options
    /\ options' = new /\ applying' = applying \cup {new}
    /\ dirs' \in {dirs, dirs \cup {new.work}} \* /api/settings makes the folder
    /\ UNCHANGED <<workDir, served, cwd, shellCwd, content, pictures, command, ran, answer, cards>>

\* A command under way has seen this workspace too.
ContextFollows(new) ==
    /\ new \in applying
    /\ applying' = applying \ {new}
    /\ workDir' = new.work
    /\ command' = IF command = NoCommand THEN command
                  ELSE [command EXCEPT !.seen = @ \cup {new.work}]
    /\ UNCHANGED <<options, served, cwd, shellCwd, dirs, content, pictures, ran, answer, cards, events>>

-----------------------------------------------------------------------------
(* Actions, one at a time (handlers._lock).                                *)

Takes(c) == command = NoCommand /\ answer[c] = NoAnswer

\* run_shell reads the settings, then finds its directory.
BeginCommand(c, dir) ==
    /\ Takes(c) /\ Counted
    /\ command' = [at |-> "read", chat |-> c, dir |-> dir, in |-> Nowhere, seen |-> {workDir},
                   restrict |-> options.restrict /\ ~options.full]
    /\ UNCHANGED <<where, shellCwd, dirs, content, pictures, ran, answer, cards>>

\* Mutation: a remembered folder is not held against the workspace.
StillThere(dir, restrict) == dir \in dirs

Usable(dir, restrict) == dir \in dirs /\ (restrict => dir = workDir)

StartIn(dir) ==
    /\ ran' = [at |-> "started", in |-> dir, restrict |-> command.restrict,
               dir |-> command.dir, seen |-> command.seen]
    /\ command' = [command EXCEPT !.at = "runs", !.in = dir]

\* _resolve_shell_cwd.  A directory that is given is remembered.
ResolveCwd ==
    /\ command.at = "read"
    /\ IF command.dir # Nowhere
       THEN IF command.dir \in dirs /\ (command.restrict => command.dir = workDir)
            THEN shellCwd' = command.dir /\ StartIn(command.dir)
            ELSE command' = NoCommand /\ UNCHANGED <<shellCwd, ran>>
       ELSE /\ StartIn(IF shellCwd # Nowhere /\ Usable(shellCwd, command.restrict)
                       THEN shellCwd ELSE workDir)
            /\ UNCHANGED shellCwd
    /\ UNCHANGED <<where, dirs, content, pictures, answer, cards, events>>

Put(f) ==
    /\ Counted
    /\ content' = [content EXCEPT ![f] = events']

\* The command writes a file and prints its name, as seen from its folder.
CommandPrints(p) ==
    /\ command.at = "runs" /\ command.in \in dirs
    /\ Put(<<command.in, p>>)
    /\ answer' = [answer EXCEPT ![command.chat] =
          [says |-> "relative", path |-> p, file |-> <<command.in, p>>, made |-> events']]
    /\ command' = NoCommand
    /\ UNCHANGED <<where, shellCwd, dirs, pictures, ran, cards>>

\* The command names no file, runs too long, or its folder is gone.
CommandEnds ==
    /\ command.at = "runs"
    /\ command' = NoCommand
    /\ UNCHANGED <<where, shellCwd, dirs, content, pictures, ran, answer, cards, events>>

\* An action writes a file and answers with its absolute path.
Answers(c, f) ==
    /\ Takes(c)
    /\ Put(f) /\ dirs' = dirs \cup {f[1]}
    /\ answer' = [answer EXCEPT ![c] = [says |-> "absolute", path |-> f[2], file |-> f,
                                        made |-> events']]
    /\ UNCHANGED <<where, shellCwd, command, ran, cards>>

\* write_file, in the workspace; anywhere with full access.
WriteFile(c, f) ==
    /\ f[1] = workDir \/ options.full
    /\ Answers(c, f) /\ UNCHANGED pictures

\* Mutation: the name that was asked for is taken.
AsRequested(asked) == {asked}

\* _unique_screenshot_name: the name, or one with a number that is free.
UniqueName(asked) ==
    IF content[<<Data, asked>>] = 0 THEN {asked}
    ELSE {s \in Shots : content[<<Data, s>>] = 0}

ScreenCapture(c, asked) ==
    /\ \E s \in UniqueName(asked) : Answers(c, <<Data, s>>)
    /\ pictures' = pictures \cup {events'}

-----------------------------------------------------------------------------
(* Cards.                                                                  *)

\* The files that _collect_artifacts tries.  The chat loop calls it after the
\* lock was released, with the settings of that moment; a relative name is
\* one in the workspace, in data_dir or among the screenshots, whatever folder
\* the shell was in.
Tried(a) ==
    IF a.says = "absolute" THEN <<a.file>>
    ELSE <<(<<options.work, a.path>>), (<<Data, a.path>>), (<<Data, ShotNamed[a.path]>>)>>

InRoots(f, work) == f[1] \in {work, Data}

FirstThat(list, Test(_)) ==
    LET hits == {i \in 1..Len(list) : Test(list[i])} IN
    IF hits = {} THEN <<>> ELSE list[CHOOSE i \in hits : \A j \in hits : i <= j]

Found(a) == FirstThat(Tried(a), LAMBDA f : IsFile(f) /\ InRoots(f, options.work))

Collect(c) ==
    LET a == answer[c]
        found == Found(a) IN
    /\ a # NoAnswer
    /\ answer' = [answer EXCEPT ![c] = NoAnswer]
    /\ cards' = IF found = <<>> THEN cards
                ELSE cards \cup {[path |-> found[2], file |-> found, made |-> a.made,
                                  meant |-> a.file, says |-> a.says]}
    /\ UNCHANGED <<where, shellCwd, dirs, content, pictures, command, ran, events>>

\* resolve_artifact_path: the first of these that is in a root and is a file.
Targets(path) ==
    <<(<<cwd, path>>), (<<served, path>>), (<<Data, path>>)>>

\* Mutation: the first that is in a root is taken, file or not.
OpenedInScope(path) == FirstThat(Targets(path), LAMBDA f : InRoots(f, served))

Opened(path) ==
    FirstThat(Targets(path), LAMBDA f : InRoots(f, served) /\ IsFile(f))

-----------------------------------------------------------------------------
(* The user's uploads and other programs.                                  *)

\* /api/upload, into the workspace of the web server, over what is there.
Upload(p) ==
    /\ Put(<<served, p>>)
    /\ dirs' = dirs \cup {served}
    /\ UNCHANGED <<where, shellCwd, pictures, command, ran, answer, cards>>

FolderGoes(d) ==
    /\ Counted
    /\ d \in dirs \ {Data}
    /\ dirs' = dirs \ {d}
    /\ content' = [f \in Places |-> IF f[1] = d THEN 0 ELSE content[f]]
    /\ UNCHANGED <<where, shellCwd, pictures, command, ran, answer, cards>>

\* The process starts again; chats keep their cards.
RestartBridge ==
    /\ Counted
    /\ workDir' = options.work /\ served' = options.work /\ applying' = {}
    /\ shellCwd' = Nowhere /\ command' = NoCommand /\ ran' = NoCommand
    /\ answer' = [c \in Chats |-> NoAnswer]
    /\ UNCHANGED <<options, cwd, dirs, content, pictures, cards>>

WorkspaceNext ==
    \/ \E new \in Options : SwapOptions(new) \/ ContextFollows(new)
    \/ \E c \in Chats, dir \in Roots \cup {Nowhere} : BeginCommand(c, dir)
    \/ ResolveCwd \/ CommandEnds
    \/ \E p \in Others : CommandPrints(p) \/ Upload(p)
    \/ \E c \in Chats, f \in Places : WriteFile(c, f)
    \/ \E c \in Chats, s \in Shots : ScreenCapture(c, s)
    \/ \E c \in Chats : Collect(c)
    \/ \E d \in Folders : FolderGoes(d)
    \/ RestartBridge

WorkspaceSpec == WorkspaceInit /\ [][WorkspaceNext]_workspaceVars

-----------------------------------------------------------------------------
WorkspaceTypeOK ==
    /\ options \in Options /\ applying \subseteq Options
    /\ {workDir, served} \subseteq Folders /\ {shellCwd, cwd} \subseteq Roots \cup {Nowhere}
    /\ Data \in dirs /\ dirs \subseteq Roots
    /\ content \in [Places -> 0..events] /\ pictures \subseteq 1..events
    /\ \A f \in Places : IsFile(f) => f[1] \in dirs

\* A command that is to stay in the workspace is started in one that the
\* Bridge had while the command began, whatever folder full access, another
\* chat or an earlier workspace has left behind in the shared context.
RestrictedStaysInside ==
    ran # NoCommand /\ ran.restrict => ran.in \in ran.seen

\* The other files that a card's path could mean to the web server.
Namesakes(k) ==
    {f \in {Targets(k.path)[i] : i \in 1..3} \ {k.file} : InRoots(f, served) /\ IsFile(f)}

\* A card opens its file whenever the web server serves it and no other file
\* has its path, wherever the process was started and after restarts.
CardsOpenTheirFile ==
    \A k \in cards :
      IsFile(k.file) /\ InRoots(k.file, served) /\ Namesakes(k) = {} => Opened(k.path) = k.file

\* "Every chat message keeps pointing at its own image": no later capture
\* takes the file of one that a message shows, under any name.
PicturesStay ==
    \A k \in cards :
      k.made \in pictures /\ content[k.file] \in pictures => content[k.file] = k.made

WorkspaceSafe ==
    WorkspaceTypeOK /\ RestrictedStaysInside /\ CardsOpenTheirFile /\ PicturesStay

\* What the code does not promise (see the README).  The card of a file that
\* is still there can be opened: not after a change of the workspace.
CardsCanBeOpened ==
    \A k \in cards : IsFile(k.file) /\ k.file[1] = options.work => Opened(k.path) = k.file

\* A card shows the file that the answer meant.
CardsAreMeant == \A k \in cards : k.file = k.meant
=============================================================================
