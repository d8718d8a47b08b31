----------------------------- MODULE MCActions -----------------------------
(***************************************************************************)
(* An instance for TLC of the actions that change the world outside the    *)
(* process: Telegram's tools, Gmail, and the files of the Bridge's and of  *)
(* the workflow agent's tools.  The components share no state: `focus`      *)
(* names the one that moves.                                               *)
(***************************************************************************)
EXTENDS TelegramTools, Gmail, FileActions, AgentTools, TLC

CONSTANTS ann, joe, team, ali, reza, alireza, main, text, textTmp, textTmpTmp

\* Three peers, of whom two have names that contain the third's.
MCOccursIn == {<<ali, alireza>>, <<reza, alireza>>}
MCUsername == ann :> reza @@ joe :> alireza

MCDirectory(d, c, a, j, t, u) ==
    [dialogs |-> d, contacts |-> c, title |-> ann :> a @@ joe :> j @@ team :> t,
     unread |-> [p \in Peers |-> IF p \in u THEN 1 ELSE 0]]

\* Strangers, of whom two have one name; and friends, one with the username
\* of the other for a name.
MCDirectories ==
    {MCDirectory(<<ann, joe, team>>, {}, ali, ali, alireza, {joe}),
     MCDirectory(<<team, joe>>, {ann, joe}, alireza, reza, ali, {ann, joe})}

\* Of three files in the workspace, one has the name of the temporary file of
\* another, and of that one the third.
MCTempName == text :> textTmp @@ textTmp :> textTmpTmp

VARIABLE focus

ToolsRest ==
    ToolsInit /\ contacts = {} /\ active = main /\ \A a \in Accounts : confirm[a]
GmailRests ==
    /\ backend = "imap" /\ password = "none" /\ token = "none"
    /\ clients = <<>> /\ current = 0 /\ enabled = FALSE /\ connects = 0
    /\ lock = [i \in Objects |-> Free]
    /\ open = {} /\ logins = 0 /\ inbox = <<>> /\ unseen = {} /\ gone = {}
    /\ mcall = [a \in MailAgents |-> NoCall]
    /\ listed = [a \in MailAgents |-> NoListing]
    /\ delivered = [a \in MailAgents |-> 0]
    /\ mailCalls = 0 /\ mailEvents = 0
FilesRest == FilesInit /\ \A p \in Paths : holds[p] = Nothing
AgentToolsRest == AgentToolsInit /\ \A p \in Spots : disk[p] = NoText

MCInit ==
    \/ focus = "telegram" /\ ToolsInit /\ GmailRests /\ FilesRest /\ AgentToolsRest
    \/ focus = "gmail" /\ GmailInit /\ ToolsRest /\ FilesRest /\ AgentToolsRest
    \/ focus = "files" /\ FilesInit /\ (\A p \in Outside : Exists(p)) /\ ToolsRest /\ GmailRests /\ AgentToolsRest
    \/ focus = "agent" /\ AgentToolsInit /\ ToolsRest /\ GmailRests /\ FilesRest

\* A call that looks changes nothing: one at a time is enough.
OneLooks == \A b, c \in Bots : CallAt(b, "look") /\ CallAt(c, "look") => b = c

\* Once two file actions have met nothing is promised, and no more is looked at.
MCNext ==
    /\ UNCHANGED focus
    /\ \/ focus = "telegram" /\ ToolsNext /\ UNCHANGED <<mailVars, filesVars, toolVars>>
       \/ focus = "gmail" /\ GmailNext /\ UNCHANGED <<toolsVars, filesVars, toolVars>>
       \/ focus = "files" /\ ~raced /\ FilesNext /\ UNCHANGED <<toolsVars, mailVars, toolVars>>
       \/ focus = "agent" /\ AgentToolsNext /\ OneLooks' /\ UNCHANGED <<toolsVars, mailVars, filesVars>>

MCSpec == MCInit /\ [][MCNext]_<<toolsVars, mailVars, filesVars, toolVars, focus>>

\* The runs and processes of all components are the same two model values.
MCSymmetry == Permutations(MailAgents) \cup Permutations(Mails)
=============================================================================
