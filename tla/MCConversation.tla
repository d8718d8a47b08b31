--------------------------- MODULE MCConversation ---------------------------
(***************************************************************************)
(* An instance for TLC of a conversation with the model: a history that    *)
(* one run after the other uses ("calm"), a history that two runs use at   *)
(* once ("crowd"), one call of a language model client ("call"), and what  *)
(* actions do to files and show of them: commands of the shell alone       *)
(* ("shell"), files and cards without the shell ("cards"), or everything,  *)
(* for fewer events ("files").  The components share no state: `focus`     *)
(* names what moves.                                                       *)
(***************************************************************************)
EXTENDS ChatHistory, LlmCalls, Workspace, TLC

VARIABLE focus

MCShotNamed == [p \in Others |-> CHOOSE s \in Shots : TRUE]

WorkspaceRests ==
    /\ WorkspaceInit /\ cwd = Nowhere
    /\ options = [work |-> CHOOSE d \in Folders : TRUE, full |-> FALSE, restrict |-> TRUE]

MCInit ==
    /\ Init /\ LlmInit
    /\ \/ focus \in {"calm", "crowd", "call"} /\ WorkspaceRests
       \/ focus = "shell" /\ WorkspaceInit /\ cwd = Nowhere
       \/ focus \in {"cards", "files"} /\ WorkspaceInit /\ options.restrict

\* In a crowd a reply has at most one call, and every save succeeds.
HistoryMoves ==
    /\ Next
    /\ \/ focus = "calm" /\ OneAtATime
       \/ focus = "crowd" /\ failures' = 0 /\ \A r \in Runs : todo'[r] <= 1

FilesMove ==
    /\ WorkspaceNext
    /\ \/ focus = "shell" /\ UNCHANGED content
       \/ /\ focus = "cards" /\ UNCHANGED command /\ options'.restrict
          /\ \A c, d \in Chats : NoAnswer \in {answer'[c], answer'[d]} \/ c = d
       \/ focus = "files" /\ options'.restrict /\ events' <= 3

MCNext ==
    /\ UNCHANGED focus
    /\ \/ HistoryMoves /\ UNCHANGED <<llmVars, workspaceVars>>
       \/ focus = "call" /\ LlmNext /\ UNCHANGED <<vars, workspaceVars>>
       \/ FilesMove /\ UNCHANGED <<vars, llmVars>>

MCSpec == MCInit /\ [][MCNext]_<<vars, llmVars, workspaceVars, focus>>

\* Runs differ only in the order in which they start; folders are alike.
MCSymmetry == Permutations(Runs) \cup Permutations(Folders)

\* One run after the other: what is sent now is well formed, so is what a
\* process that starts again would send, and no call goes without its result.
HistoryIsSafe ==
    focus = "calm" => ToolsFollowTheirCall /\ FileIsWellFormed /\ UncutCallsAreAnswered

\* However many runs there are: requests keep to the window's size, and a run
\* finds in the history what it has said.
ContextIsKept == TypeOK /\ RunSeesItself
=============================================================================
