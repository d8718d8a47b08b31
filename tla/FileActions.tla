---------------------------- MODULE FileActions ----------------------------
(***************************************************************************)
(* The file actions of the agent (actions/file_ops.py) on one workspace.   *)
(* In one process handlers._lock lets one action run at a time (see        *)
(* ActionGate); but the desktop program, the web server, the command line  *)
(* and the bot each start a Bridge of their own, and their actions meet on *)
(* the files.  An action looks first and acts then; it can fail, or die    *)
(* with its process, in between, and leave what it has done.               *)
(* The approval of DESTRUCTIVE actions is in ChatRuns: here an action of   *)
(* any kind may start.                                                     *)
(*                                                                         *)
(* Of a file the model keeps whose content it holds: the original content  *)
(* of a path is named by the path, and text that is appended to it is not  *)
(* kept.                                                                   *)
(***************************************************************************)
EXTENDS Naturals, FiniteSets

CONSTANTS
    Agents,   \* processes with a Bridge, each of which takes one action at a time
    Inside,   \* paths in the workspace
    Outside,  \* paths elsewhere
    TempName, \* [paths that write_file is given -> <path>.tmp]
    MaxOps    \* bound: actions taken

Paths == Inside \cup Outside

\* The words that stand for no file and for what actions write are no paths.
ASSUME FileAssumption ==
    /\ Inside \cap Outside = {} /\ MaxOps \in Nat
    /\ {"nothing", "fragment", "new"} \cap Paths = {}
    /\ TempName \in [DOMAIN TempName -> Inside]
    /\ \A p \in DOMAIN TempName : p \in Paths /\ TempName[p] # p

VARIABLES
    holds,   \* [Paths -> content]
    act,     \* [Agents -> the action under way]
    aimed,   \* the originals that stood at a target that an action names
    besides, \* and those at a path that an action overwrites unnamed
    raced,   \* have two actions been at work on one path?
    ops      \* actions taken so far

filesVars == <<holds, act, aimed, besides, raced, ops>>

Nothing == "nothing"
Fragment == "fragment" \* the beginning of a content
New == "new"           \* written by an action
Resting == [verb |-> "rest", at |-> "rest", from |-> Nothing, to |-> Nothing, area |-> {}]

FilesInit ==
    /\ holds \in [Paths -> Paths \cup {Nothing}]
    /\ \A p \in Paths : holds[p] \in {p, Nothing}
    /\ act = [a \in Agents |-> Resting]
    /\ aimed = {} /\ besides = {} /\ raced = FALSE /\ ops = 0

Exists(p) == holds[p] # Nothing

\* _resolve_path, without full_system_access.
Allowed(p) == p \in Inside

UsedBy(a) == act[a].area \cup ({act[a].from} \ {Nothing})

-----------------------------------------------------------------------------
(* An action begins: its arguments are checked.                            *)

Originals(ps) == {holds[p] : p \in ps} \cap Paths

\* An action reads `from` and writes in the area, and lets go what it names.
Begin(a, verb, from, to, area, named) ==
    /\ act[a] = Resting /\ ops < MaxOps
    /\ ops' = ops + 1
    /\ area \subseteq Inside /\ (from = Nothing \/ Allowed(from))
    /\ act' = [act EXCEPT ![a] = [verb |-> verb, at |-> "checked", from |-> from, to |-> to,
                                  area |-> area]]
    /\ raced' = (raced \/ \E b \in Agents \ {a} : UsedBy(b) \cap (area \cup {from}) # {})
    /\ aimed' = aimed \cup Originals(named)
    /\ besides' = besides \cup
         (IF verb \in {"append", "copy", "move"} THEN {} ELSE Originals(area \ named))
    /\ UNCHANGED holds

BeginWrite(a, p) ==
    p \in DOMAIN TempName /\ Begin(a, "write", Nothing, p, {p, TempName[p]}, {p})
BeginAppend(a, p) == Begin(a, "append", Nothing, p, {p}, {})
BeginDelete(a, p) == Exists(p) /\ Begin(a, "delete", Nothing, p, {p}, {p})

\* The target is named, or made up from the directory's name or the URL.
BeginZip(a, p) == \E named \in {{p}, {}} : Begin(a, "zip", Nothing, p, {p}, named)
BeginDownload(a, p) == \E named \in {{p}, {}} : Begin(a, "download", Nothing, p, {p}, named)

\* The archive `from` holds files for these paths below the destination.
BeginUnzip(a, from, members) ==
    Exists(from) /\ members # {} /\ Begin(a, "unzip", from, Nothing, members, {})

\* Mutation: the destination is not looked at.
FreeAnyway(from, to) == Exists(from)

\* copy_path and move_path refuse a destination that exists.
IsFree(from, to) == Exists(from) /\ ~Exists(to)

BeginCopy(a, from, to) == IsFree(from, to) /\ Begin(a, "copy", from, to, {to}, {})
BeginMove(a, from, to) == IsFree(from, to) /\ Begin(a, "move", from, to, {from, to}, {})

-----------------------------------------------------------------------------
(* The action is done, step by step.                                       *)

Is(a, verb, at) == act[a].verb = verb /\ act[a].at = at
ActGoes(a, at) == act' = [act EXCEPT ![a].at = at]
ActEnds(a) == act' = [act EXCEPT ![a] = Resting]
Becomes(p, what) == holds' = [holds EXCEPT ![p] = what]

\* write_file writes <path>.tmp and puts it in the place of the file.
TempOf(a) == TempName[act[a].to]

WriteTemp(a) ==
    /\ Is(a, "write", "checked")
    /\ ActGoes(a, "temp")
    /\ Becomes(TempOf(a), Fragment)
    /\ UNCHANGED <<aimed, besides, raced, ops>>

FillTemp(a) ==
    /\ Is(a, "write", "temp")
    /\ ActGoes(a, "filled")
    /\ Becomes(TempOf(a), New)
    /\ UNCHANGED <<aimed, besides, raced, ops>>

\* The replacement fails when another action has taken <path>.tmp away.
ReplaceFile(a) ==
    /\ Is(a, "write", "filled")
    /\ ActEnds(a)
    /\ holds' = IF Exists(TempOf(a))
                THEN [holds EXCEPT ![act[a].to] = holds[TempOf(a)], ![TempOf(a)] = Nothing]
                ELSE holds
    /\ UNCHANGED <<aimed, besides, raced, ops>>

\* append_file creates a file that is not there, and then writes.
OpenToAppend(a) ==
    LET p == act[a].to IN
    /\ Is(a, "append", "checked")
    /\ IF Exists(p) THEN ActGoes(a, "open") /\ UNCHANGED holds
                    ELSE ActGoes(a, "created") /\ Becomes(p, Fragment)
    /\ UNCHANGED <<aimed, besides, raced, ops>>

AppendText(a) ==
    LET p == act[a].to IN
    /\ Is(a, "append", "open") \/ Is(a, "append", "created")
    /\ ActEnds(a)
    /\ IF act[a].at = "created" /\ holds[p] = Fragment THEN Becomes(p, New) ELSE UNCHANGED holds
    /\ UNCHANGED <<aimed, besides, raced, ops>>

Delete(a) ==
    /\ Is(a, "delete", "checked")
    /\ ActEnds(a)
    /\ Becomes(act[a].to, Nothing)
    /\ UNCHANGED <<aimed, besides, raced, ops>>

Move(a) ==
    /\ Is(a, "move", "checked")
    /\ ActEnds(a)
    /\ IF Exists(act[a].from)
       THEN holds' = [holds EXCEPT ![act[a].to] = holds[act[a].from], ![act[a].from] = Nothing]
       ELSE UNCHANGED holds
    /\ UNCHANGED <<aimed, besides, raced, ops>>

\* copy, zip and download write into the target itself.
OpenTarget(a) ==
    /\ act[a].verb \in {"copy", "zip", "download"} /\ act[a].at = "checked"
    /\ ActGoes(a, "open")
    /\ Becomes(act[a].to, Fragment)
    /\ UNCHANGED <<aimed, besides, raced, ops>>

FillTarget(a) ==
    /\ act[a].verb \in {"copy", "zip", "download"} /\ act[a].at = "open"
    /\ ActEnds(a)
    /\ Becomes(act[a].to, IF act[a].verb = "copy" /\ Exists(act[a].from)
                          THEN holds[act[a].from] ELSE New)
    /\ UNCHANGED <<aimed, besides, raced, ops>>

\* extractall: one member after the other, over the file that is there.
OpenMember(a, p) ==
    /\ Is(a, "unzip", "checked") /\ p \in act[a].area
    /\ act' = [act EXCEPT ![a] = [@ EXCEPT !.at = "open", !.to = p]]
    /\ Becomes(p, Fragment)
    /\ UNCHANGED <<aimed, besides, raced, ops>>

FillMember(a) ==
    LET p == act[a].to
        left == act[a].area \ {p} IN
    /\ Is(a, "unzip", "open")
    /\ IF left = {} THEN ActEnds(a)
       ELSE act' = [act EXCEPT ![a] = [verb |-> "unzip", at |-> "checked", from |-> @.from,
                                       to |-> Nothing, area |-> left]]
    /\ Becomes(p, New)
    /\ UNCHANGED <<aimed, besides, raced, ops>>

\* download_file removes the target when the request fails, also when it had
\* not opened it yet.
DownloadFails(a) ==
    /\ act[a].verb = "download"
    /\ ActEnds(a)
    /\ Becomes(act[a].to, Nothing)
    /\ UNCHANGED <<aimed, besides, raced, ops>>

\* An error, or the end of the process, ends an action where it is.
Fails(a) ==
    /\ act[a] # Resting
    /\ ActEnds(a)
    /\ UNCHANGED <<holds, aimed, besides, raced, ops>>

ActionStep(a) ==
    \/ WriteTemp(a) \/ FillTemp(a) \/ ReplaceFile(a) \/ OpenToAppend(a) \/ AppendText(a)
    \/ Delete(a) \/ Move(a) \/ OpenTarget(a) \/ FillTarget(a) \/ DownloadFails(a)
    \/ (\E p \in Paths : OpenMember(a, p)) \/ FillMember(a) \/ Fails(a)

FilesNext ==
    \E a \in Agents :
      \/ \E p \in Paths : BeginWrite(a, p) \/ BeginAppend(a, p) \/ BeginDelete(a, p)
                          \/ BeginZip(a, p) \/ BeginDownload(a, p)
      \/ \E p, q \in Paths : p # q /\ (BeginCopy(a, p, q) \/ BeginMove(a, p, q))
      \/ \E p \in Paths, members \in SUBSET Inside : BeginUnzip(a, p, members)
      \/ ActionStep(a)

FilesSpec == FilesInit /\ [][FilesNext]_filesVars

-----------------------------------------------------------------------------
(* Properties.                                                             *)

\* No original goes but from the target of an action or from where an action
\* overwrites unnamed.
KeepsOriginals == Originals(Paths) \ Originals(Paths)' \subseteq aimed \cup besides

\* A step of write_file leaves its file as it was, or whole and new.
ReplacesWhole ==
    \A a \in Agents : act[a].verb = "write" /\ act'[a] # act[a]
      => holds'[act[a].to] \in {holds[act[a].to], New}

\* What the user had is lost only by an action that names the path that holds
\* it as its target, or that overwrites it as <path>.tmp, as a target of zip or
\* download that was not named, or as a member of an archive: never by a copy,
\* a move or an append, although they look first and act later, and any action
\* may fail half-way; and write_file is "atomic" (file_ops.py:40).  Both hold
\* unless two actions were at work on one path.
FilesAreSafe == [][raced \/ (KeepsOriginals /\ ReplacesWhole)]_filesVars

\* Not so in the code: a file goes only by an action that names its path.
OnlyNamedFilesGo ==
    [][raced \/ Originals(Paths) \ Originals(Paths)' \subseteq aimed]_filesVars

\* "Clean partial file on failure" (file_ops.py:606): a download that fails
\* before it has written anything leaves the file that was there.  Not so in
\* the code, which removes it.
FailedDownloadsKeepTheFile ==
    [][\A a \in Agents :
         act[a].verb = "download" /\ act[a].at = "checked" /\ act'[a] = Resting
         => holds' = holds]_filesVars
=============================================================================
