------------------------- MODULE ConversationProofs -------------------------
(***************************************************************************)
(* Proofs about what a conversation with the model uses: what actions do   *)
(* to files and show of them (Workspace), for every set of chats, folders  *)
(* and files and any number of events; one call of a language model        *)
(* (LlmCalls), for any retries and pieces of a stream; and the history of  *)
(* a session (ChatHistory), for any number of runs, turns, calls, clears,  *)
(* crashes and saves that fail.                                            *)
(***************************************************************************)
EXTENDS MCConversation, SequenceTheorems, TLAPS

-----------------------------------------------------------------------------
(* Commands, pictures and cards.                                           *)

Commands ==
    {NoCommand} \cup [at : {"read", "runs"}, chat : Chats, dir : Roots \cup {Nowhere},
                      in : Roots \cup {Nowhere}, seen : SUBSET Folders, restrict : BOOLEAN]

\* What a command knows of the workspace includes the one of now.
ShellInv ==
    /\ options \in Options /\ applying \subseteq Options
    /\ workDir \in Folders /\ served \in Folders /\ dirs \subseteq Roots
    /\ command \in Commands
    /\ command # NoCommand => workDir \in command.seen
    /\ RestrictedStaysInside

LEMMA ShellInit == WorkspaceInit => ShellInv
BY DEF WorkspaceInit, ShellInv, Options, Commands, NoCommand, RestrictedStaysInside, Roots

LEMMA ResolveKeepsShell ==
  ASSUME ShellInv, ResolveCwd
  PROVE  ShellInv'
<1> USE DEF ShellInv, ResolveCwd
<1>1. command # NoCommand /\ workDir \in command.seen
  BY DEF NoCommand
<1>2. command \in [at : {"read", "runs"}, chat : Chats, dir : Roots \cup {Nowhere},
                   in : Roots \cup {Nowhere}, seen : SUBSET Folders, restrict : BOOLEAN]
  BY <1>1 DEF Commands
<1>3. ASSUME NEW dir \in Roots, StartIn(dir), command.restrict => dir = workDir
      PROVE  ShellInv'
  <2>1. command' \in Commands /\ command'.seen = command.seen
    BY <1>2, <1>3 DEF StartIn, Commands
  <2>2. RestrictedStaysInside'
    BY <1>1, <1>3 DEF StartIn, RestrictedStaysInside
  <2> QED
    BY <1>1, <2>1, <2>2 DEF where
<1>4. CASE command.dir # Nowhere /\ command.dir \in dirs /\ (command.restrict => command.dir = workDir)
  BY <1>2, <1>3, <1>4
<1>5. CASE command.dir # Nowhere /\ ~(command.dir \in dirs /\ (command.restrict => command.dir = workDir))
  BY <1>5 DEF where, Commands, RestrictedStaysInside
<1>6. CASE command.dir = Nowhere
  <2> DEFINE dir == IF shellCwd # Nowhere /\ Usable(shellCwd, command.restrict)
                    THEN shellCwd ELSE workDir
  <2>1. dir \in Roots /\ (command.restrict => dir = workDir)
    BY DEF Usable, Roots
  <2>2. StartIn(dir)
    BY <1>6
  <2> HIDE DEF dir
  <2> QED
    BY <2>1, <2>2, <1>3
<1> QED
  BY <1>4, <1>5, <1>6

LEMMA ShellStep == ShellInv /\ [WorkspaceNext]_workspaceVars => ShellInv'
<1> SUFFICES ASSUME ShellInv, [WorkspaceNext]_workspaceVars PROVE ShellInv'
  OBVIOUS
<1> USE DEF ShellInv, where, RestrictedStaysInside
<1>1. CASE UNCHANGED workspaceVars
  BY <1>1 DEF workspaceVars
<1>2. ASSUME NEW new \in Options, SwapOptions(new) PROVE ShellInv'
  BY <1>2 DEF SwapOptions, Options, Roots
<1>3. ASSUME NEW new \in Options, ContextFollows(new) PROVE ShellInv'
  <2>1. new.work \in Folders
    BY DEF Options
  <2>2. command' \in Commands /\ (command' # NoCommand => new.work \in command'.seen)
    <3>1. CASE command = NoCommand
      BY <3>1, <1>3 DEF ContextFollows, Commands
    <3>2. CASE command # NoCommand
      <4>1. command \in [at : {"read", "runs"}, chat : Chats, dir : Roots \cup {Nowhere},
                         in : Roots \cup {Nowhere}, seen : SUBSET Folders, restrict : BOOLEAN]
        BY <3>2 DEF Commands
      <4> QED
        BY <4>1, <2>1, <3>2, <1>3 DEF ContextFollows, Commands
    <3> QED
      BY <3>1, <3>2
  <2> QED
    BY <2>1, <2>2, <1>3 DEF ContextFollows
<1>4. ASSUME NEW c \in Chats, NEW dir \in Roots \cup {Nowhere}, BeginCommand(c, dir)
      PROVE  ShellInv'
  <2>1. (options.restrict /\ ~options.full) \in BOOLEAN
    BY DEF Options
  <2>2. command' \in Commands /\ command'.seen = {workDir}
    BY <2>1, <1>4 DEF BeginCommand, Commands
  <2> QED
    BY <2>2, <1>4 DEF BeginCommand
<1>5. CASE ResolveCwd
  BY <1>5, ResolveKeepsShell
<1>6. CASE CommandEnds
  BY <1>6 DEF CommandEnds, Commands
<1>7. ASSUME NEW p \in Others, CommandPrints(p) PROVE ShellInv'
  BY <1>7 DEF CommandPrints, Commands
<1>8. ASSUME NEW p \in Others, Upload(p) PROVE ShellInv'
  BY <1>8 DEF Upload, Roots
<1>9. ASSUME NEW c \in Chats, NEW f \in Places, Answers(c, f) PROVE ShellInv'
  BY <1>9 DEF Answers, Places
<1>10. ASSUME NEW c \in Chats, NEW s \in Shots, ScreenCapture(c, s) PROVE ShellInv'
  <2>1. PICK t \in Shots : Answers(c, <<Data, t>>)
    BY <1>10 DEF ScreenCapture, UniqueName
  <2>2. <<Data, t>> \in Places
    BY DEF Places, Roots, Paths
  <2> QED
    BY <2>1, <2>2, <1>9
<1>11. ASSUME NEW c \in Chats, Collect(c) PROVE ShellInv'
  BY <1>11 DEF Collect
<1>12. ASSUME NEW d \in Folders, FolderGoes(d) PROVE ShellInv'
  BY <1>12 DEF FolderGoes
<1>13. CASE RestartBridge
  BY <1>13 DEF RestartBridge, Options, Commands
<1> QED
  BY <1>1, <1>2, <1>3, <1>4, <1>5, <1>6, <1>7, <1>8, <1>9, <1>10, <1>11, <1>12, <1>13
     DEF WorkspaceNext, WriteFile

-----------------------------------------------------------------------------
(* Pictures.                                                               *)

AnswerSet ==
    {NoAnswer} \cup [says : {"relative", "absolute"}, path : Paths, file : Places, made : Nat]

\* The file is there, and no capture has taken it since.
Pictured(f, n) ==
    /\ f \in Places /\ f[1] = Data
    /\ content[f] # 0 /\ (content[f] \in pictures => content[f] = n)

\* A picture that an answer names or a card shows is in its file.
TrueTo(f, n) == n \in 1..events /\ (n \in pictures => Pictured(f, n))

PictureInv ==
    /\ events \in Nat /\ content \in [Places -> 0..events]
    /\ pictures \in SUBSET (1..events)
    /\ answer \in [Chats -> AnswerSet]
    /\ \A c \in Chats : answer[c] # NoAnswer =>
         /\ TrueTo(answer[c].file, answer[c].made)
         /\ answer[c].made \in pictures => answer[c].says = "absolute"
    /\ \A k \in cards : TrueTo(k.file, k.made)

LEMMA PictureInit == WorkspaceInit => PictureInv
BY DEF WorkspaceInit, PictureInv, AnswerSet, NoAnswer

\* A write keeps the pictures of others: a capture takes a name that is free,
\* and another write is no picture.
LEMMA WriteKeepsPictures ==
  ASSUME PictureInv, NEW f, Put(f),
         \/ pictures' = pictures
         \/ content[f] = 0 /\ pictures' = pictures \cup {events'},
         NEW g, NEW n, TrueTo(g, n)
  PROVE  TrueTo(g, n)' /\ n # events'
<1> USE DEF PictureInv
<1>1. /\ events' = events + 1 /\ events' \notin pictures /\ events' # 0
      /\ n \in 1..events' /\ n # events'
  BY DEF Put, Counted, TrueTo
<1>2. ASSUME n \in pictures' PROVE Pictured(g, n)'
  <2>1. Pictured(g, n)
    BY <1>1, <1>2 DEF TrueTo
  <2>2. content'[g] = (IF g = f THEN events' ELSE content[g]) /\ content[g] # events'
    BY <2>1, <1>1 DEF Put, Pictured
  <2>3. CASE g = f
    <3>1. pictures' = pictures
      BY <2>1, <2>3 DEF Pictured
    <3> QED
      BY <2>1, <2>2, <2>3, <3>1, <1>1 DEF Pictured
  <2>4. CASE g # f
    BY <2>1, <2>2, <2>4, <1>1 DEF Pictured
  <2> QED
    BY <2>3, <2>4
<1> QED
  BY <1>1, <1>2 DEF TrueTo

\* A write, whose new answer is of the file that it wrote.
LEMMA AnswerKeepsPictures ==
  ASSUME PictureInv, NEW f \in Places, Put(f), cards' = cards,
         \/ pictures' = pictures
         \/ content[f] = 0 /\ f[1] = Data /\ pictures' = pictures \cup {events'},
         NEW c, NEW a \in AnswerSet, answer' = [answer EXCEPT ![c] = a],
         a # NoAnswer, a.file = f, a.made = events',
         events' \in pictures' => a.says = "absolute"
  PROVE  PictureInv'
<1>0. /\ events \in Nat /\ content \in [Places -> 0..events]
      /\ pictures \in SUBSET (1..events) /\ answer \in [Chats -> AnswerSet]
  BY DEF PictureInv
<1>1. events' = events + 1
  BY DEF Put, Counted
<1>2. content' \in [Places -> 0..events'] /\ content'[f] = events' /\ events' \in Nat
  BY <1>0, <1>1 DEF Put
<1>3. pictures' \in SUBSET (1..events') /\ events' \notin pictures /\ events' \in 1..events'
  <2>1. events' \notin pictures /\ events' \in 1..events' /\ 1..events \subseteq 1..events'
    BY <1>0, <1>1
  <2> QED
    BY <2>1, <1>0
<1>4. ASSUME NEW n, n = events' PROVE TrueTo(f, n)'
  <2>1. n \in pictures' => Pictured(f, n)'
    BY <1>4, <1>3, <1>1, <1>0, <1>2 DEF Pictured
  <2> QED
    BY <2>1, <1>4, <1>3 DEF TrueTo
<1>5. \A g, n : TrueTo(g, n) => TrueTo(g, n)' /\ n # events'
  BY WriteKeepsPictures
<1>6. \A k \in cards' : TrueTo(k.file, k.made)'
  BY <1>5 DEF PictureInv
<1>7. ASSUME NEW d \in Chats, answer'[d] # NoAnswer,
             NEW g, g = answer'[d].file, NEW n, n = answer'[d].made
      PROVE  TrueTo(g, n)' /\ (n \in pictures' => answer'[d].says = "absolute")
  <2>1. CASE d = c
    <3>1. answer'[d] = a
      BY <2>1, <1>0
    <3> QED
      BY <3>1, <1>4, <1>7
  <2>2. CASE d # c
    <3>1. answer'[d] = answer[d]
      BY <2>2, <1>0
    <3>2. TrueTo(g, n) /\ (n \in pictures => answer'[d].says = "absolute")
      BY <3>1, <1>7 DEF PictureInv
    <3>3. TrueTo(g, n)' /\ n # events'
      BY <3>2, <1>5
    <3> QED
      BY <3>2, <3>3
  <2> QED
    BY <2>1, <2>2
<1>8. answer' \in [Chats -> AnswerSet]
  BY <1>0
<1> QED
  BY <1>2, <1>3, <1>6, <1>7, <1>8 DEF PictureInv, TrueTo, Pictured

\* What _collect_artifacts finds of an absolute name.
LEMMA FoundAbsolute ==
  ASSUME NEW a, a.says = "absolute"
  PROVE  Found(a) = <<>> \/ Found(a) = a.file
<1>1. Tried(a) = <<a.file>> /\ Len(Tried(a)) = 1 /\ Tried(a)[1] = a.file
  BY DEF Tried
<1> DEFINE hits == {i \in 1..1 : IsFile(<<a.file>>[i]) /\ InRoots(<<a.file>>[i], options.work)}
<1>2. hits = {} \/ hits = {1}
  OBVIOUS
<1>3. CASE hits = {}
  BY <1>1, <1>3 DEF Found, FirstThat
<1>4. CASE hits = {1}
  <2>1. (CHOOSE i \in hits : \A j \in hits : i <= j) = 1
    BY <1>4
  <2> QED
    BY <1>1, <1>4, <2>1 DEF Found, FirstThat
<1> QED
  BY <1>2, <1>3, <1>4

LEMMA PictureStep ==
  ShellInv /\ PictureInv /\ [WorkspaceNext]_workspaceVars => PictureInv'
<1> SUFFICES ASSUME ShellInv, PictureInv, [WorkspaceNext]_workspaceVars PROVE PictureInv'
  OBVIOUS
<1>1. ASSUME events' \in {events, events + 1}, UNCHANGED <<content, pictures, cards>>,
             answer' = answer \/ answer' = [c \in Chats |-> NoAnswer]
      PROVE  PictureInv'
  <2>1. \A g, n : TrueTo(g, n) => TrueTo(g, n)'
    BY <1>1 DEF TrueTo, Pictured, PictureInv
  <2>2. CASE answer' = answer
    BY <1>1, <2>1, <2>2 DEF PictureInv
  <2>3. CASE answer' = [c \in Chats |-> NoAnswer]
    BY <1>1, <2>1, <2>3 DEF PictureInv, AnswerSet
  <2> QED
    BY <1>1, <2>2, <2>3
<1>2. CASE UNCHANGED workspaceVars
  BY <1>1, <1>2 DEF workspaceVars
<1>3. ASSUME NEW new \in Options, SwapOptions(new) \/ ContextFollows(new) PROVE PictureInv'
  BY <1>1, <1>3 DEF SwapOptions, ContextFollows, Counted
<1>4. ASSUME NEW c \in Chats, NEW dir \in Roots \cup {Nowhere}, BeginCommand(c, dir)
      PROVE  PictureInv'
  BY <1>1, <1>4 DEF BeginCommand, Counted
<1>5. CASE ResolveCwd \/ CommandEnds
  BY <1>1, <1>5 DEF ResolveCwd, CommandEnds
<1>6. ASSUME NEW p \in Others, CommandPrints(p) PROVE PictureInv'
  <2>1. <<command.in, p>> \in Places /\ p \in Paths
    BY <1>6 DEF CommandPrints, ShellInv, Places, Paths
  <2>2. events' \in Nat /\ events' \notin pictures
    BY <1>6 DEF CommandPrints, Put, Counted, PictureInv
  <2> DEFINE a == [says |-> "relative", path |-> p, file |-> <<command.in, p>>, made |-> events']
  <2>3. a \in AnswerSet /\ a # NoAnswer
    BY <2>1, <2>2 DEF AnswerSet, NoAnswer
  <2>4. answer' = [answer EXCEPT ![command.chat] = a]
    BY <1>6 DEF CommandPrints
  <2>5. Put(<<command.in, p>>) /\ pictures' = pictures /\ cards' = cards
    BY <1>6 DEF CommandPrints
  <2>6. a.file = <<command.in, p>> /\ a.made = events'
    OBVIOUS
  <2> HIDE DEF a
  <2> QED
    BY <2>1, <2>2, <2>3, <2>4, <2>5, <2>6, AnswerKeepsPictures
<1>7. ASSUME NEW c \in Chats, NEW f \in Places, Answers(c, f),
             \/ pictures' = pictures
             \/ content[f] = 0 /\ f[1] = Data /\ pictures' = pictures \cup {events'}
      PROVE  PictureInv'
  <2> DEFINE a == [says |-> "absolute", path |-> f[2], file |-> f, made |-> events']
  <2>1. events' \in Nat /\ Put(f) /\ cards' = cards /\ answer' = [answer EXCEPT ![c] = a]
    BY <1>7 DEF Answers, Put, Counted, PictureInv
  <2>2. a \in AnswerSet /\ a # NoAnswer /\ a.file = f /\ a.made = events' /\ a.says = "absolute"
    BY <2>1 DEF AnswerSet, NoAnswer, Places
  <2> HIDE DEF a
  <2> QED
    BY <1>7, <2>1, <2>2, AnswerKeepsPictures
<1>8. ASSUME NEW c \in Chats, NEW f \in Places, WriteFile(c, f) PROVE PictureInv'
  BY <1>7, <1>8 DEF WriteFile
<1>9. ASSUME NEW c \in Chats, NEW s \in Shots, ScreenCapture(c, s) PROVE PictureInv'
  <2>1. PICK t \in UniqueName(s) : Answers(c, <<Data, t>>)
    BY <1>9 DEF ScreenCapture
  <2>2. t \in Shots /\ content[<<Data, t>>] = 0
    BY <2>1 DEF UniqueName
  <2>3. <<Data, t>> \in Places /\ <<Data, t>>[1] = Data
    BY <2>2 DEF Places, Roots, Paths
  <2> QED
    BY <1>7, <1>9, <2>1, <2>2, <2>3 DEF ScreenCapture
<1>10. ASSUME NEW p \in Others, Upload(p) PROVE PictureInv'
  <2>1. Put(<<served, p>>) /\ UNCHANGED <<pictures, cards, answer>>
    BY <1>10 DEF Upload
  <2>2. \A g, n : TrueTo(g, n) => TrueTo(g, n)'
    BY <2>1, WriteKeepsPictures
  <2>3. events' = events + 1 /\ events \in Nat /\ 1..events \subseteq 1..events'
    BY <2>1 DEF Put, Counted, PictureInv
  <2>4. events' \in Nat /\ content' \in [Places -> 0..events'] /\ pictures' \in SUBSET (1..events')
    <3>1. ASSUME NEW f \in Places, content' = [content EXCEPT ![f] = events']
          PROVE  content' \in [Places -> 0..events']
      BY <2>3, <3>1 DEF PictureInv
    <3>2. content' \in [Places -> 0..events']
      BY <2>1, <3>1 DEF Put, ShellInv, Places, Roots, Paths
    <3>3. pictures' \in SUBSET (1..events')
      BY <2>1, <2>3 DEF PictureInv
    <3> QED
      BY <2>3, <3>2, <3>3
  <2> QED
    BY <2>1, <2>2, <2>4 DEF PictureInv
<1>11. ASSUME NEW c \in Chats, Collect(c) PROVE PictureInv'
  <2> DEFINE a == answer[c]
             card == [path |-> Found(a)[2], file |-> Found(a), made |-> a.made,
                      meant |-> a.file, says |-> a.says]
  <2>1. /\ a # NoAnswer /\ answer' = [answer EXCEPT ![c] = NoAnswer]
        /\ UNCHANGED <<content, pictures, events>>
        /\ cards' = cards \/ (Found(a) # <<>> /\ cards' = cards \cup {card})
    BY <1>11 DEF Collect
  <2>2. \A g, n : TrueTo(g, n) <=> TrueTo(g, n)'
    BY <2>1 DEF TrueTo, Pictured
  <2>3. TrueTo(a.file, a.made) /\ (a.made \in pictures => a.says = "absolute")
    BY <2>1 DEF PictureInv
  <2>4. Found(a) # <<>> => TrueTo(Found(a), a.made)
    BY <2>3, FoundAbsolute DEF TrueTo
  <2>5. card.file = Found(a) /\ card.made = a.made
    OBVIOUS
  <2>6. answer' \in [Chats -> AnswerSet] /\ \A d \in Chats : answer'[d] \in {answer[d], NoAnswer}
    BY <2>1 DEF PictureInv, AnswerSet
  <2> HIDE DEF card, a
  <2>7. \A k \in cards' : TrueTo(k.file, k.made)
    BY <2>1, <2>4, <2>5 DEF PictureInv
  <2>8. \A d \in Chats : answer'[d] # NoAnswer => answer'[d] = answer[d]
    BY <2>6
  <2> QED
    BY <2>1, <2>2, <2>6, <2>7, <2>8 DEF PictureInv
<1>12. ASSUME NEW d \in Folders, FolderGoes(d) PROVE PictureInv'
  <2>1. events' = events + 1 /\ UNCHANGED <<pictures, cards, answer>>
        /\ content' = [f \in Places |-> IF f[1] = d THEN 0 ELSE content[f]]
    BY <1>12 DEF FolderGoes, Counted
  <2>2. d # Data
    BY WorkspaceAssumption
  <2>3. \A g, n : TrueTo(g, n) => TrueTo(g, n)'
    BY <2>1, <2>2 DEF TrueTo, Pictured, PictureInv
  <2>4. events' \in Nat /\ content' \in [Places -> 0..events'] /\ pictures' \in SUBSET (1..events')
    BY <2>1 DEF PictureInv
  <2> QED
    BY <2>1, <2>3, <2>4 DEF PictureInv
<1>13. CASE RestartBridge
  BY <1>1, <1>13 DEF RestartBridge, Counted
<1> QED
  BY <1>2, <1>3, <1>4, <1>5, <1>6, <1>8, <1>9, <1>10, <1>11, <1>12, <1>13 DEF WorkspaceNext

-----------------------------------------------------------------------------
(* Where files and cards are.                                              *)

\* A file is in a folder that is there, and a card has its file's path.
PlaceInv ==
    /\ shellCwd \in Roots \cup {Nowhere} /\ cwd \in Roots \cup {Nowhere}
    /\ Data \in dirs
    /\ \A f \in Places : IsFile(f) => f[1] \in dirs
    /\ \A c \in Chats : answer[c] # NoAnswer /\ answer[c].says = "relative"
         => answer[c].path \in Others
    /\ \A k \in cards : k.file \in Places /\ k.path = k.file[2]

LEMMA PlaceInit == WorkspaceInit => PlaceInv
BY DEF WorkspaceInit, PlaceInv, Roots, IsFile, NoAnswer

\* The least of a few indices.
LEMMA Least ==
  ASSUME NEW hits \in SUBSET (1..3), hits # {}
  PROVE  (CHOOSE i \in hits : \A j \in hits : i <= j) \in hits
<1>1. \E i \in hits : \A j \in hits : i <= j
  <2>1. CASE 1 \in hits
    BY <2>1
  <2>2. CASE 1 \notin hits /\ 2 \in hits
    BY <2>2
  <2>3. CASE 1 \notin hits /\ 2 \notin hits
    <3>1. PICK i \in hits : TRUE
      OBVIOUS
    <3>2. \A j \in hits : j = 3
      BY <2>3
    <3> QED
      BY <3>1, <3>2
  <2> QED
    BY <2>1, <2>2, <2>3
<1> QED
  BY <1>1

\* What _collect_artifacts finds is one of the files that it tries.
LEMMA FoundIsAPlace ==
  ASSUME ShellInv, NEW a \in AnswerSet, a # NoAnswer,
         a.says = "relative" => a.path \in Others, Found(a) # <<>>
  PROVE  Found(a) \in Places
<1>1. a.file \in Places /\ a.path \in Paths /\ a.says \in {"relative", "absolute"}
  BY DEF AnswerSet
<1>2. CASE a.says = "absolute"
  BY <1>1, <1>2, FoundAbsolute
<1>3. CASE a.says = "relative"
  <2>1. ShotNamed[a.path] \in Shots /\ options.work \in Folders
    BY <1>3, WorkspaceAssumption DEF ShellInv, Options
  <2>2. \A i \in 1..3 : Tried(a)[i] \in Places
    BY <1>1, <1>3, <2>1 DEF Tried, Places, Roots, Paths
  <2>3. Len(Tried(a)) = 3
    BY <1>3 DEF Tried
  <2> DEFINE hits == {i \in 1..3 : IsFile(Tried(a)[i]) /\ InRoots(Tried(a)[i], options.work)}
  <2>4. hits # {} /\ Found(a) = Tried(a)[CHOOSE i \in hits : \A j \in hits : i <= j]
    BY <2>3 DEF Found, FirstThat
  <2>5. (CHOOSE i \in hits : \A j \in hits : i <= j) \in 1..3
    BY <2>4, Least
  <2> QED
    BY <2>2, <2>4, <2>5
<1> QED
  BY <1>1, <1>2, <1>3

LEMMA PlaceStep ==
  ShellInv /\ PictureInv /\ PlaceInv /\ [WorkspaceNext]_workspaceVars => PlaceInv'
<1> SUFFICES ASSUME ShellInv, PictureInv, PlaceInv, [WorkspaceNext]_workspaceVars
             PROVE  PlaceInv'
  OBVIOUS
<1>0. answer \in [Chats -> AnswerSet] /\ content \in [Places -> Nat]
  BY DEF PictureInv
<1>1. CASE UNCHANGED workspaceVars
  BY <1>1 DEF workspaceVars, where, PlaceInv, IsFile
<1>2. ASSUME NEW new \in Options, SwapOptions(new) \/ ContextFollows(new) PROVE PlaceInv'
  BY <1>2 DEF SwapOptions, ContextFollows, PlaceInv, IsFile
<1>3. ASSUME NEW c \in Chats, NEW dir \in Roots \cup {Nowhere}, BeginCommand(c, dir)
      PROVE  PlaceInv'
  BY <1>3 DEF BeginCommand, where, PlaceInv, IsFile
<1>4. CASE ResolveCwd
  <2>1. shellCwd' \in Roots \cup {Nowhere}
    BY <1>4 DEF ResolveCwd, ShellInv, PlaceInv
  <2> QED
    BY <1>4, <2>1 DEF ResolveCwd, where, PlaceInv, IsFile
<1>5. CASE CommandEnds
  BY <1>5 DEF CommandEnds, where, PlaceInv, IsFile
<1>6. ASSUME NEW f \in Places, content' = [content EXCEPT ![f] = events'],
             f[1] \in dirs', dirs \subseteq dirs', UNCHANGED <<shellCwd, cwd, cards>>,
             \A c \in Chats : answer'[c] = answer[c] \/ answer'[c].says = "absolute"
                                \/ answer'[c].path \in Others
      PROVE  PlaceInv'
  BY <1>6, <1>0 DEF PlaceInv, IsFile
<1>7. ASSUME NEW p \in Others, CommandPrints(p) PROVE PlaceInv'
  <2>1. <<command.in, p>> \in Places
    BY <1>7 DEF CommandPrints, ShellInv, Places, Paths
  <2>2. \A c \in Chats : answer'[c] = answer[c] \/ answer'[c].path \in Others
    BY <1>7, <1>0 DEF CommandPrints
  <2> QED
    BY <1>6, <1>7, <2>1, <2>2 DEF CommandPrints, Put, where
<1>8. ASSUME NEW p \in Others, Upload(p) PROVE PlaceInv'
  <2>1. <<served, p>> \in Places
    BY DEF ShellInv, Places, Roots, Paths
  <2> QED
    BY <1>6, <1>8, <2>1 DEF Upload, Put, where
<1>9. ASSUME NEW c \in Chats, NEW f \in Places, Answers(c, f) PROVE PlaceInv'
  <2>1. \A d \in Chats : answer'[d] = answer[d] \/ answer'[d].says = "absolute"
    BY <1>9, <1>0 DEF Answers
  <2> QED
    BY <1>6, <1>9, <2>1 DEF Answers, Put, where
<1>10. ASSUME NEW c \in Chats, NEW s \in Shots, ScreenCapture(c, s) PROVE PlaceInv'
  <2>1. PICK t \in Shots : Answers(c, <<Data, t>>)
    BY <1>10 DEF ScreenCapture, UniqueName
  <2>2. <<Data, t>> \in Places
    BY DEF Places, Roots, Paths
  <2> QED
    BY <2>1, <2>2, <1>9
<1>11. ASSUME NEW c \in Chats, Collect(c) PROVE PlaceInv'
  <2> DEFINE a == answer[c]
             card == [path |-> Found(a)[2], file |-> Found(a), made |-> a.made,
                      meant |-> a.file, says |-> a.says]
  <2>1. /\ a # NoAnswer /\ answer' = [answer EXCEPT ![c] = NoAnswer]
        /\ cards' = cards \/ (Found(a) # <<>> /\ cards' = cards \cup {card})
    BY <1>11 DEF Collect
  <2>2. Found(a) # <<>> => Found(a) \in Places
    BY <2>1, <1>0, FoundIsAPlace DEF PlaceInv
  <2>3. card.file = Found(a) /\ card.path = Found(a)[2]
    OBVIOUS
  <2>4. \A d \in Chats : answer'[d] = answer[d] \/ answer'[d] = NoAnswer
    BY <2>1, <1>0
  <2> HIDE DEF a, card
  <2>5. \A k \in cards' : k.file \in Places /\ k.path = k.file[2]
    BY <2>1, <2>2, <2>3 DEF PlaceInv
  <2> QED
    BY <1>11, <2>4, <2>5 DEF Collect, where, PlaceInv, IsFile
<1>12. ASSUME NEW d \in Folders, FolderGoes(d) PROVE PlaceInv'
  <2>1. \A f \in Places : content'[f] = IF f[1] = d THEN 0 ELSE content[f]
    BY <1>12 DEF FolderGoes
  <2> QED
    BY <1>12, <2>1 DEF FolderGoes, where, PlaceInv, IsFile
<1>13. CASE RestartBridge
  BY <1>13 DEF RestartBridge, PlaceInv, IsFile
<1> QED
  BY <1>1, <1>2, <1>3, <1>4, <1>5, <1>7, <1>8, <1>9, <1>10, <1>11, <1>12, <1>13
     DEF WorkspaceNext, WriteFile

\* Without a namesake, what resolve_artifact_path finds is the card's file.
LEMMA CardsOpen == ShellInv /\ PlaceInv => CardsOpenTheirFile
<1> SUFFICES ASSUME ShellInv, PlaceInv, NEW k \in cards,
                    IsFile(k.file), InRoots(k.file, served), Namesakes(k) = {}
             PROVE  Opened(k.path) = k.file
  BY DEF CardsOpenTheirFile
<1> DEFINE list == Targets(k.path)
           hits == {i \in 1..3 : InRoots(list[i], served) /\ IsFile(list[i])}
<1>1. Len(list) = 3 /\ list[2] = <<served, k.path>> /\ list[3] = <<Data, k.path>>
  BY DEF Targets
<1>2. k.file = <<k.file[1], k.path>>
  BY DEF PlaceInv, Places
<1>3. k.file = list[2] \/ k.file = list[3]
  BY <1>1, <1>2 DEF InRoots
<1>4. hits # {}
  BY <1>3
<1>5. \A i \in hits : list[i] = k.file
  BY DEF Namesakes
<1>6. Opened(k.path) = list[CHOOSE i \in hits : \A j \in hits : i <= j]
  BY <1>1, <1>4 DEF Opened, FirstThat
<1> HIDE DEF list
<1> QED
  BY <1>4, <1>5, <1>6, Least

\* A restricted command starts inside a workspace that the Bridge had while the
\* command began (actions/system.py, _resolve_shell_cwd); a card opens its
\* file when no other has its path (web/app.py, resolve_artifact_path); and no
\* capture takes the file of a picture that a card shows (automation/gui.py,
\* _unique_screenshot_name): for every set of chats, folders and files.
THEOREM WorkspaceIsSafe == WorkspaceSpec => []WorkspaceSafe
<1>1. ShellInv /\ PictureInv /\ PlaceInv => WorkspaceSafe
  <2> SUFFICES ASSUME ShellInv, PictureInv, PlaceInv PROVE WorkspaceSafe
    OBVIOUS
  <2>1. WorkspaceTypeOK
    BY DEF ShellInv, PictureInv, PlaceInv, WorkspaceTypeOK
  <2>2. RestrictedStaysInside
    BY DEF ShellInv
  <2>3. PicturesStay
    BY DEF PictureInv, TrueTo, Pictured, PicturesStay
  <2> QED
    BY <2>1, <2>2, <2>3, CardsOpen DEF WorkspaceSafe
<1> QED
  BY ShellInit, ShellStep, PictureInit, PictureStep, PlaceInit, PlaceStep, <1>1, PTL
     DEF WorkspaceSpec

-----------------------------------------------------------------------------
(* One call of a language model.                                           *)

Requests == [body : BOOLEAN, tier : {"flex", "default"}, at : {"stream", "post"},
             outcome : Outcomes]
Calls == [at : {"stream", "reading", "post", "over"}, client : LlmClients, style : Styles,
          tools : BOOLEAN, body : BOOLEAN, tier : {"flex", "default"},
          attempt : 0..Retries, pieces : 0..MaxPieces,
          call : {"none", "parses", "broken"}, result : {"none", "reply", "error"}]

\* How many requests were made for a stream.
Streamed(a) == IF a.style = "blocking" THEN 0 ELSE 1

\* The rounds of a call that are behind it, in requests.
Behind(a) ==
    CASE a.client = "ollama"        -> 0
      [] a.client = "gateway"       -> IF a.body = a.tools THEN 0 ELSE Retries + 1
      [] a.client = "agent_ollama"  -> IF a.body = a.tools THEN 0 ELSE 1
      [] a.client = "agent_gateway" -> (IF a.body = a.tools THEN 0 ELSE Retries + 1)
                                       + (IF a.tier = "flex" THEN 0 ELSE Retries + Retries + 2)

\* The requests that a client can have made when it makes another.
Spent(a) == Streamed(a) + Behind(a) + (IF a.client = "agent_ollama" THEN 0 ELSE a.attempt)

\* A request that accounts for an error: it failed for another reason than the
\* tools, or was rejected without them.
Blamed(p) == p.outcome \notin {"answer", "rejected"} \/ (p.outcome = "rejected" /\ ~p.body)

CallTypes ==
    /\ ask = NoAsk \/ ask \in Calls
    /\ posts \in Seq(Requests) /\ shown \in Nat
    /\ ask.at # "idle" =>
         /\ ask.body => ask.tools
         /\ ask.pieces <= shown
         /\ ask.style # "blocking" => ask.client \in {"ollama", "gateway"}
         /\ ask.tier = "flex" => ask.client = "agent_gateway"

\* Where the call stands, and what was posted for it.
CallStands ==
    /\ ask.at = "idle" => posts = <<>>
    /\ ask.at = "stream" => posts = <<>> /\ ask.attempt = 0 /\ ask.style # "blocking"
    /\ ask.at = "reading" =>
         /\ Len(posts) = 1 /\ posts[1].outcome = "answer" /\ posts[1].at = "stream"
         /\ ask.attempt = 0 /\ ask.style # "blocking"
    /\ ask.at = "post" => Len(posts) <= Spent(ask)
    /\ ask.at = "over" => Len(posts) \in 1..(Spent(ask) + 1)

NoAnswerYet ==
    /\ ask.at = "post" => \A i \in 1..Len(posts) : posts[i].outcome # "answer"
    /\ ask.at = "over" =>
         /\ \A i \in 1..(Len(posts) - 1) : posts[i].outcome # "answer"
         /\ posts[Len(posts)].outcome = "answer" => ask.result = "reply"
         /\ ask.result = "reply" /\ ask.client # "ollama" =>
              posts[Len(posts)].outcome \in {"answer", "hollow"}

\* After a rejection no blocking request of the tier has tools; the tiers are
\* used in their order.
ToolsGone ==
    /\ \A i, j \in 1..Len(posts) :
         /\ i < j /\ posts[i].at = "post" /\ posts[j].at = "post"
         /\ posts[i].outcome = "rejected" /\ posts[i].tier = posts[j].tier
         => ~posts[j].body
    /\ ask.at = "post" => \A i \in 1..Len(posts) :
         /\ posts[i].at = "post" /\ posts[i].outcome = "rejected" /\ posts[i].tier = ask.tier
            => ~ask.body
         /\ ask.tier = "flex" => posts[i].tier = "flex"

\* An error has its request to blame.
ErrorsAccounted ==
    Retries > 0 =>
      /\ ask.at = "post" /\ ask.client = "ollama" /\ ask.attempt > 0 /\ ask.body =>
           \E i \in 1..Len(posts) : Blamed(posts[i])
      /\ ask.at = "over" /\ ask.result = "error" =>
           \E i \in 1..Len(posts) : Blamed(posts[i])

LlmInv == CallTypes /\ CallStands /\ NoAnswerYet /\ ToolsGone /\ ErrorsAccounted

-----------------------------------------------------------------------------

LEMMA RequestAdded ==
  ASSUME CallTypes, NEW e \in Requests
  PROVE  /\ Append(posts, e) \in Seq(Requests)
         /\ Len(Append(posts, e)) = Len(posts) + 1
         /\ \A i \in 1..Len(posts) : Append(posts, e)[i] = posts[i]
         /\ Append(posts, e)[Len(posts) + 1] = e
         /\ Len(posts) \in Nat
<1>1. posts \in Seq(Requests)
  BY DEF CallTypes
<1> QED
  BY <1>1, AppendProperties, LenProperties

LEMMA NoneLong == Len(<<>>) = 0
  BY EmptySeq

LEMMA RequestAt ==
  ASSUME CallTypes
  PROVE  /\ Len(posts) \in Nat
         /\ \A i \in 1..Len(posts) : posts[i] \in Requests
<1>1. posts \in Seq(Requests)
  BY DEF CallTypes
<1> QED
  BY <1>1, ElementOfSeq, LenProperties

\* The call that is under way.
LEMMA Underway ==
  ASSUME CallTypes, ask.at # "idle"
  PROVE  ask \in Calls
<1>1. ask = NoAsk \/ ask \in Calls
  BY DEF CallTypes
<1>2. NoAsk.at = "idle"
  BY DEF NoAsk
<1> QED
  BY <1>1, <1>2

LEMMA SpentCounts ==
  ASSUME NEW a \in Calls
  PROVE  Spent(a) \in Nat
<1>1. Retries \in Nat
  BY LlmAssumption
<1>2. a.attempt \in Nat
  BY <1>1 DEF Calls
<1>3. a.client \in {"ollama", "gateway", "agent_ollama", "agent_gateway"}
  BY DEF Calls, LlmClients
<1>4. Streamed(a) \in Nat
  BY DEF Streamed
<1>5. Behind(a) \in Nat
  <2>1. CASE a.client = "ollama"
    BY <2>1 DEF Behind
  <2>2. CASE a.client = "gateway"
    BY <1>1, <2>2 DEF Behind
  <2>3. CASE a.client = "agent_ollama"
    BY <2>3 DEF Behind
  <2>4. CASE a.client = "agent_gateway"
    <3>1. Behind(a) = (IF a.body = a.tools THEN 0 ELSE Retries + 1)
                   + (IF a.tier = "flex" THEN 0 ELSE Retries + Retries + 2)
      BY <2>4 DEF Behind
    <3> QED
      BY <1>1, <3>1
  <2> QED
    BY <1>3, <2>1, <2>2, <2>3, <2>4
<1> QED
  BY <1>1, <1>2, <1>4, <1>5 DEF Spent

LEMMA LlmInvInit == LlmInit => LlmInv
<1> SUFFICES ASSUME LlmInit PROVE LlmInv
  OBVIOUS
<1>1. <<>> \in Seq(Requests) /\ Len(<<>>) = 0
  BY EmptySeq
<1> QED
  BY <1>1 DEF LlmInit, NoAsk, LlmInv, CallTypes, CallStands, NoAnswerYet, ToolsGone, ErrorsAccounted

\* The invariant gives the properties.
LEMMA LlmInvSafe == LlmInv => LlmTypeOK /\ RequestsAreBounded /\ LastRequestDecides
<1> SUFFICES ASSUME LlmInv PROVE LlmTypeOK /\ RequestsAreBounded /\ LastRequestDecides
  OBVIOUS
<1>1. CallTypes /\ CallStands /\ NoAnswerYet
  BY DEF LlmInv
<1>2. ask = NoAsk \/ ask \in Calls
  BY <1>1 DEF CallTypes
<1>3. /\ posts \in Seq(Requests) /\ Len(posts) \in Nat
      /\ Retries \in Nat /\ MaxPieces \in Nat
  BY <1>1, RequestAt, LlmAssumption DEF CallTypes
<1>4. LlmTypeOK
  <2>1. CASE ask.at = "idle"
    BY <2>1 DEF LlmTypeOK
  <2>2. CASE ask.at # "idle"
    <3>1. ask \in Calls
      BY <1>1, <2>2, Underway
    <3>2. /\ ask.at \in {"stream", "reading", "post", "over"}
          /\ ask.attempt \in 0..Retries /\ ask.pieces \in 0..MaxPieces
      BY <3>1 DEF Calls
    <3>3. (ask.body => ask.tools) /\ ask.pieces <= shown /\ shown \in Nat
      BY <1>1, <2>2 DEF CallTypes
    <3> QED
      BY <1>3, <3>2, <3>3 DEF LlmTypeOK
  <2> QED
    BY <2>1, <2>2
<1>5. RequestsAreBounded
  <2> SUFFICES ASSUME ask.at # "idle" PROVE Len(posts) <= MostRequests
    BY DEF RequestsAreBounded
  <2>1. ask \in Calls
    BY <1>1, Underway
  <2>2. /\ ask.client \in {"ollama", "gateway", "agent_ollama", "agent_gateway"}
        /\ ask.attempt \in 0..Retries /\ ask.at \in {"stream", "reading", "post", "over"}
    BY <2>1 DEF Calls, LlmClients
  <2>3. ask.style # "blocking" => ask.client \in {"ollama", "gateway"}
    BY <1>1 DEF CallTypes
  <2>4. Len(posts) <= Spent(ask) + 1
    <3>1. CASE ask.at \in {"post", "over"}
      BY <1>1, <1>3, <2>1, <3>1, SpentCounts DEF CallStands
    <3>2. CASE ask.at \in {"stream", "reading"}
      <4>1. posts = <<>> \/ Len(posts) = 1
        BY <1>1, <3>2 DEF CallStands
      <4>2. Len(posts) = 0 \/ Len(posts) = 1
        BY <4>1, NoneLong, Zenon
      <4>3. Spent(ask) \in Nat
        BY <2>1, SpentCounts
      <4>4. ASSUME NEW n \in {0, 1}, NEW m \in Nat PROVE n <= m + 1
        OBVIOUS
      <4> QED
        BY <4>2, <4>3, <4>4, Zenon
    <3> QED
      BY <2>2, <3>1, <3>2
  <2>5. Streamed(ask) \in 0..1 /\ (Streamed(ask) = 1 => ask.client \in {"ollama", "gateway"})
    BY <2>3 DEF Streamed
  <2>6. CASE ask.client = "ollama"
    <3>1. Spent(ask) = Streamed(ask) + 0 + ask.attempt /\ MostRequests = 1 + (Retries + 1)
      BY <2>6 DEF Spent, Behind, MostRequests
    <3> QED
      BY <1>3, <2>2, <2>4, <2>5, <3>1
  <2>7. CASE ask.client = "gateway"
    <3>1. /\ Spent(ask) = Streamed(ask) + (IF ask.body = ask.tools THEN 0 ELSE Retries + 1) + ask.attempt
          /\ MostRequests = 1 + 2 * (Retries + 1)
      BY <2>7 DEF Spent, Behind, MostRequests
    <3> QED
      BY <1>3, <2>2, <2>4, <2>5, <3>1
  <2>8. CASE ask.client = "agent_ollama"
    <3>1. /\ Spent(ask) = Streamed(ask) + (IF ask.body = ask.tools THEN 0 ELSE 1) + 0
          /\ MostRequests = 2
      BY <2>8 DEF Spent, Behind, MostRequests
    <3>2. Streamed(ask) = 0
      BY <2>5, <2>8
    <3> QED
      BY <1>3, <2>4, <3>1, <3>2
  <2>9. CASE ask.client = "agent_gateway"
    <3>1. /\ Spent(ask) = Streamed(ask) + ((IF ask.body = ask.tools THEN 0 ELSE Retries + 1)
                                 + (IF ask.tier = "flex" THEN 0 ELSE Retries + Retries + 2))
                     + ask.attempt
          /\ MostRequests = 4 * (Retries + 1)
      BY <2>9 DEF Spent, Behind, MostRequests
    <3>2. Streamed(ask) = 0
      BY <2>5, <2>9
    <3> QED
      BY <1>3, <2>2, <2>4, <3>1, <3>2
  <2> QED
    BY <2>2, <2>6, <2>7, <2>8, <2>9
<1>6. LastRequestDecides
  <2>1. ask.at \in {"idle", "stream", "reading", "post", "over"}
    BY <1>2 DEF NoAsk, Calls
  <2>2. CASE ask.at = "over"
    BY <1>1, <1>3, <2>2 DEF NoAnswerYet, LastRequestDecides, Last
  <2>3. CASE ask.at = "post"
    BY <1>1, <1>3, <2>3 DEF NoAnswerYet, LastRequestDecides
  <2>4. CASE ask.at \in {"idle", "stream", "reading"}
    <3> DEFINE n == Len(posts)
    <3>1. posts = <<>> \/ Len(posts) = 1
      BY <1>1, <2>4 DEF CallStands
    <3>2. n = 0 \/ n = 1
      BY <3>1, NoneLong, Zenon
    <3>3. 1..(n - 1) = {}
      <4> HIDE DEF n
      <4> QED
        BY <3>2
    <3> QED
      BY <2>4, <3>3 DEF LastRequestDecides
  <2> QED
    BY <2>1, <2>2, <2>3, <2>4
<1> QED
  BY <1>4, <1>5, <1>6

LEMMA LlmInvTools == LlmInv /\ Retries > 0 => ToolsAreGivenUp
<1> SUFFICES ASSUME LlmInv, Retries > 0 PROVE ToolsAreGivenUp
  OBVIOUS
<1>1. posts \in Seq(Requests) /\ DOMAIN posts = 1..Len(posts)
  BY LenProperties DEF LlmInv, CallTypes
<1>2. ToolsGone /\ ErrorsAccounted
  BY DEF LlmInv
<1>3. ask.at = "over" /\ ask.result = "error" => \E i \in 1..Len(posts) : Blamed(posts[i])
  BY <1>2 DEF ErrorsAccounted
<1>4. \A i \in 1..Len(posts) : posts[i] \in ToSet(posts)
  BY <1>1 DEF ToSet
<1> QED
  BY <1>1, <1>2, <1>3, <1>4 DEF ToolsGone, ToolsAreGivenUp, Blamed

-----------------------------------------------------------------------------

\* The call is made.
LEMMA LlmAsk ==
  ASSUME LlmInv, NEW client \in LlmClients, NEW style \in Styles, NEW tools \in BOOLEAN,
         NEW tier \in {"flex", "default"}, Ask(client, style, tools, tier)
  PROVE  LlmInv'
<1>1. /\ ask' = [at |-> IF style = "blocking" THEN "post" ELSE "stream", client |-> client,
                 style |-> style, tools |-> tools, body |-> tools, tier |-> tier, attempt |-> 0,
                 pieces |-> 0, call |-> "none", result |-> "none"]
      /\ posts' = <<>> /\ shown' = 0
  BY DEF Ask
<1>2. 0 \in 0..Retries /\ 0 \in 0..MaxPieces
  BY LlmAssumption
<1>3. ask' \in Calls
  BY <1>1, <1>2 DEF Calls
<1>4. <<>> \in Seq(Requests)
  BY EmptySeq
<1>5. /\ ask'.at = (IF style = "blocking" THEN "post" ELSE "stream") /\ ask'.body = tools
      /\ ask'.tools = tools /\ ask'.attempt = 0 /\ ask'.style = style /\ ask'.client = client
      /\ ask'.tier = tier /\ ask'.pieces = 0
  BY <1>1
<1>6. CallTypes'
  <2>1. style # "blocking" => client \in {"ollama", "gateway"}
    BY DEF Ask
  <2>2. tier = "flex" => client = "agent_gateway"
    BY DEF Ask
  <2>3. ask'.pieces <= shown'
    BY <1>1, <1>5
  <2> QED
    BY <1>1, <1>3, <1>4, <1>5, <2>1, <2>2, <2>3 DEF CallTypes
<1>7. CallStands'
  <2>1. ask'.at = "post" => Len(posts') <= Spent(ask')
    <3>1. Spent(ask') \in Nat
      BY <1>3, SpentCounts
    <3> QED
      BY <1>1, <3>1, NoneLong
  <2>2. ask'.at \notin {"idle", "reading", "over"}
    BY <1>5
  <2>3. ask'.at = "stream" => posts' = <<>> /\ ask'.attempt = 0 /\ ask'.style # "blocking"
    BY <1>1, <1>5
  <2> QED
    BY <2>1, <2>2, <2>3 DEF CallStands
<1>8. Len(posts') = 0
  BY <1>1, NoneLong, Zenon
<1>9. NoAnswerYet'
  BY <1>5, <1>8 DEF NoAnswerYet
<1>10. ToolsGone'
  BY <1>8 DEF ToolsGone
<1>11. ErrorsAccounted'
  BY <1>5 DEF ErrorsAccounted
<1> QED
  BY <1>6, <1>7, <1>9, <1>10, <1>11 DEF LlmInv

-----------------------------------------------------------------------------
(* A blocking request and what becomes of it: another attempt, an attempt  *)
(* without tools, a new round without tools, a round in the default tier,  *)
(* a reply or an error.                                                    *)

Retried(outcome) ==
    /\ outcome \in {"network", "busy", "garbage"}
    /\ ask.attempt < Retries /\ ask.client # "agent_ollama"
    /\ ask' = [ask EXCEPT !.attempt = @ + 1]

RetriedBare(outcome) ==
    /\ outcome = "rejected" /\ ask.attempt < Retries /\ ask.client = "ollama"
    /\ ask' = [WithoutTools EXCEPT !.attempt = @ + 1]

Bared(outcome) ==
    /\ outcome = "rejected" /\ ask.body
    /\ \/ ask.client \in {"gateway", "agent_gateway"} /\ ask' = [WithoutTools EXCEPT !.attempt = 0]
       \/ ask.client = "agent_ollama" /\ ask' = WithoutTools

TierLeft(outcome) ==
    /\ outcome # "answer" /\ ask.client = "agent_gateway" /\ ask.tier = "flex"
    /\ ask' = [ask EXCEPT !.tier = "default", !.body = ask.tools, !.attempt = 0]

Replied(outcome) ==
    /\ outcome \in {"answer", "hollow"} \/ ask.client = "ollama"
    /\ Over("reply")

Failed(outcome) ==
    /\ outcome # "answer"
    /\ outcome # "rejected" \/ ~ask.body \/ (ask.client = "ollama" /\ ask.attempt >= Retries)
    /\ Over("error")

LEMMA PostComesTo ==
  ASSUME CallTypes, NEW outcome \in Outcomes, Post(outcome)
  PROVE  \/ Retried(outcome) \/ RetriedBare(outcome) \/ Bared(outcome) \/ TierLeft(outcome)
         \/ Replied(outcome) \/ Failed(outcome)
<1>1. ask.at = "post"
  BY DEF Post
<1>2. ask \in Calls
  BY <1>1, Underway
<1>3. ask.attempt \in Nat /\ Retries \in Nat /\ ask.body \in BOOLEAN /\ ask.tools \in BOOLEAN
  BY <1>2, LlmAssumption DEF Calls
<1>4. ask.client \in {"ollama", "gateway", "agent_ollama", "agent_gateway"}
  BY <1>2 DEF Calls, LlmClients
<1>5. outcome \in {"answer", "hollow", "garbage", "rejected", "busy", "denied", "network"}
  BY DEF Outcomes
<1>6. CASE ask.client = "ollama"
  <2>1. AfterOllama(outcome)
    BY <1>6 DEF Post
  <2>2. CASE outcome \in {"network", "busy", "garbage"}
    <3>1. Again(ask)
      BY <2>1, <2>2 DEF AfterOllama
    <3> QED
      BY <1>3, <1>6, <2>2, <3>1 DEF Again, Retried, Failed
  <2>3. CASE outcome = "rejected" /\ ask.tools
    <3>1. Again(WithoutTools)
      BY <2>1, <2>3 DEF AfterOllama
    <3> QED
      BY <1>3, <1>6, <2>3, <3>1 DEF Again, RetriedBare, Failed
  <2>4. CASE outcome \in {"answer", "hollow", "denied"} \/ (outcome = "rejected" /\ ~ask.tools)
    <3>1. Over("reply")
      BY <2>1, <2>4 DEF AfterOllama
    <3> QED
      BY <1>6, <3>1 DEF Replied
  <2> QED
    BY <1>3, <1>5, <2>2, <2>3, <2>4
<1>7. CASE ask.client = "gateway"
  <2>1. AfterGateway(outcome)
    BY <1>7 DEF Post
  <2>2. CASE outcome \in {"network", "busy", "garbage"}
    <3>1. Again(ask)
      BY <2>1, <2>2 DEF AfterGateway
    <3> QED
      BY <1>3, <1>7, <2>2, <3>1 DEF Again, Retried, Failed
  <2>3. CASE outcome \in {"answer", "hollow"}
    BY <2>1, <2>3 DEF AfterGateway, Replied
  <2>4. CASE outcome = "rejected" /\ ask.body
    BY <1>7, <2>1, <2>4 DEF AfterGateway, Bared
  <2>5. CASE outcome = "denied" \/ (outcome = "rejected" /\ ~ask.body)
    BY <2>1, <2>5 DEF AfterGateway, Failed
  <2> QED
    BY <1>3, <1>5, <2>2, <2>3, <2>4, <2>5
<1>8. CASE ask.client = "agent_ollama"
  <2>1. AfterAgentOllama(outcome)
    BY <1>8 DEF Post
  <2> QED
    BY <1>3, <1>5, <1>8, <2>1 DEF AfterAgentOllama, Bared, Replied, Failed
<1>9. CASE ask.client = "agent_gateway"
  <2>1. AfterAgentGateway(outcome)
    BY <1>9 DEF Post
  <2> QED
    BY <1>3, <1>5, <1>9, <2>1
       DEF AfterAgentGateway, Again, FailedIn, Retried, Bared, TierLeft, Replied, Failed
<1> QED
  BY <1>4, <1>6, <1>7, <1>8, <1>9

\* What each of these leaves of the call.
Keeps(a, b) ==
    /\ b \in Calls
    /\ b.client = a.client /\ b.style = a.style /\ b.tools = a.tools
    /\ b.pieces = a.pieces

LEMMA PostMoves ==
  ASSUME ask \in Calls, ask.at = "post", ask.body => ask.tools, NEW outcome \in Outcomes
  PROVE  /\ Retried(outcome) =>
              /\ Keeps(ask, ask') /\ ask'.at = "post" /\ ask'.body = ask.body
              /\ ask'.tier = ask.tier /\ ask'.attempt = ask.attempt + 1
         /\ RetriedBare(outcome) =>
              /\ Keeps(ask, ask') /\ ask'.at = "post" /\ ask'.body = FALSE
              /\ ask'.tier = ask.tier /\ ask'.attempt = ask.attempt + 1
         /\ Bared(outcome) =>
              /\ Keeps(ask, ask') /\ ask'.at = "post" /\ ask'.body = FALSE
              /\ ask'.tier = ask.tier
              /\ ask'.attempt = IF ask.client = "agent_ollama" THEN ask.attempt ELSE 0
         /\ TierLeft(outcome) =>
              /\ Keeps(ask, ask') /\ ask'.at = "post" /\ ask'.body = ask.tools
              /\ ask'.tier = "default" /\ ask'.attempt = 0
         /\ \A result \in {"reply", "error"} : Over(result) =>
              /\ Keeps(ask, ask') /\ ask'.at = "over" /\ ask'.body = ask.body
              /\ ask'.tier = ask.tier /\ ask'.attempt = ask.attempt /\ ask'.result = result
<1>1. Retries \in Nat /\ ask.attempt \in 0..Retries /\ ask.tools \in BOOLEAN
  BY LlmAssumption DEF Calls
<1>2. Retried(outcome) =>
        /\ Keeps(ask, ask') /\ ask'.at = "post" /\ ask'.body = ask.body
        /\ ask'.tier = ask.tier /\ ask'.attempt = ask.attempt + 1
  <2> SUFFICES ASSUME Retried(outcome)
               PROVE  /\ Keeps(ask, ask') /\ ask'.at = "post" /\ ask'.body = ask.body
                      /\ ask'.tier = ask.tier /\ ask'.attempt = ask.attempt + 1
    OBVIOUS
  <2>1. ask' = [ask EXCEPT !.attempt = @ + 1] /\ ask.attempt + 1 \in 0..Retries
    BY <1>1 DEF Retried
  <2> QED
    BY <2>1 DEF Calls, Keeps
<1>3. RetriedBare(outcome) =>
        /\ Keeps(ask, ask') /\ ask'.at = "post" /\ ask'.body = FALSE
        /\ ask'.tier = ask.tier /\ ask'.attempt = ask.attempt + 1
  <2> SUFFICES ASSUME RetriedBare(outcome)
               PROVE  /\ Keeps(ask, ask') /\ ask'.at = "post" /\ ask'.body = FALSE
                      /\ ask'.tier = ask.tier /\ ask'.attempt = ask.attempt + 1
    OBVIOUS
  <2>1. ask' = [WithoutTools EXCEPT !.attempt = @ + 1] /\ ask.attempt + 1 \in 0..Retries
    BY <1>1 DEF RetriedBare
  <2> QED
    BY <2>1 DEF Calls, Keeps, WithoutTools
<1>4. Bared(outcome) =>
        /\ Keeps(ask, ask') /\ ask'.at = "post" /\ ask'.body = FALSE
        /\ ask'.tier = ask.tier
        /\ ask'.attempt = IF ask.client = "agent_ollama" THEN ask.attempt ELSE 0
  <2>1. 0 \in 0..Retries
    BY <1>1
  <2> QED
    BY <2>1 DEF Bared, Calls, Keeps, WithoutTools
<1>5. TierLeft(outcome) =>
        /\ Keeps(ask, ask') /\ ask'.at = "post" /\ ask'.body = ask.tools
        /\ ask'.tier = "default" /\ ask'.attempt = 0
  <2>1. 0 \in 0..Retries
    BY <1>1
  <2> QED
    BY <1>1, <2>1 DEF TierLeft, Calls, Keeps
<1>6. ASSUME NEW result \in {"reply", "error"}, Over(result)
      PROVE  /\ Keeps(ask, ask') /\ ask'.at = "over" /\ ask'.body = ask.body
             /\ ask'.tier = ask.tier /\ ask'.attempt = ask.attempt /\ ask'.result = result
  BY <1>6 DEF Over, Calls, Keeps
<1> QED
  BY <1>2, <1>3, <1>4, <1>5, <1>6

\* Another request is paid for by an attempt or by a round that is over.
LEMMA SpentGrows ==
  ASSUME ask \in Calls, ask.at = "post", ask.body => ask.tools, NEW outcome \in Outcomes
  PROVE  /\ Retried(outcome) \/ RetriedBare(outcome) \/ Bared(outcome) \/ TierLeft(outcome) =>
              Spent(ask') >= Spent(ask) + 1
         /\ \A result \in {"reply", "error"} : Over(result) => Spent(ask') = Spent(ask)
<1>1. Retries \in Nat /\ ask.attempt \in 0..Retries /\ ask.tools \in BOOLEAN /\ ask.body \in BOOLEAN
  BY LlmAssumption DEF Calls
<1>2. ask.client \in {"ollama", "gateway", "agent_ollama", "agent_gateway"}
  BY DEF Calls, LlmClients
<1>3. Streamed(ask) \in Nat /\ \A b \in Calls : Keeps(ask, b) => Streamed(b) = Streamed(ask)
  BY DEF Streamed, Keeps
<1>4. Behind(ask) \in Nat
  <2>1. Behind(ask) = CASE ask.client = "ollama" -> 0
                        [] ask.client = "gateway" -> IF ask.body = ask.tools THEN 0 ELSE Retries + 1
                        [] ask.client = "agent_ollama" -> IF ask.body = ask.tools THEN 0 ELSE 1
                        [] ask.client = "agent_gateway" ->
                             (IF ask.body = ask.tools THEN 0 ELSE Retries + 1)
                             + (IF ask.tier = "flex" THEN 0 ELSE Retries + Retries + 2)
    BY DEF Behind
  <2> QED
    BY <1>1, <1>2, <2>1
<1>5. ASSUME NEW b \in Calls, Keeps(ask, b), b.body = ask.body, b.tier = ask.tier
      PROVE  Behind(b) = Behind(ask)
  BY <1>5 DEF Behind, Keeps
<1>6. ASSUME Retried(outcome) PROVE Spent(ask') >= Spent(ask) + 1
  <2>1. /\ Keeps(ask, ask') /\ ask'.body = ask.body /\ ask'.tier = ask.tier
        /\ ask'.attempt = ask.attempt + 1 /\ ask.client # "agent_ollama"
    BY <1>6, PostMoves DEF Retried
  <2>2. Behind(ask') = Behind(ask) /\ Streamed(ask') = Streamed(ask) /\ ask'.client = ask.client
    BY <1>3, <1>5, <2>1 DEF Keeps
  <2> QED
    BY <1>1, <1>3, <1>4, <2>1, <2>2 DEF Spent
<1>7. ASSUME RetriedBare(outcome) PROVE Spent(ask') >= Spent(ask) + 1
  <2>1. /\ Keeps(ask, ask') /\ ask'.attempt = ask.attempt + 1 /\ ask.client = "ollama"
    BY <1>7, PostMoves DEF RetriedBare
  <2>2. Streamed(ask') = Streamed(ask) /\ ask'.client = ask.client
    BY <1>3, <2>1 DEF Keeps
  <2>3. Behind(ask') = 0 /\ Behind(ask) = 0
    BY <2>1, <2>2 DEF Behind
  <2> QED
    BY <1>1, <1>3, <2>1, <2>2, <2>3 DEF Spent
<1>8. ASSUME Bared(outcome) PROVE Spent(ask') >= Spent(ask) + 1
  <2>1. /\ Keeps(ask, ask') /\ ask'.body = FALSE /\ ask'.tier = ask.tier
        /\ ask'.attempt = IF ask.client = "agent_ollama" THEN ask.attempt ELSE 0
        /\ ask.client # "ollama" /\ ask.body = TRUE /\ ask.tools = TRUE
    BY <1>1, <1>8, PostMoves DEF Bared
  <2>2. Streamed(ask') = Streamed(ask) /\ ask'.client = ask.client /\ ask'.tools = ask.tools
    BY <1>3, <2>1 DEF Keeps
  <2>3. CASE ask.client = "gateway"
    <3>1. Behind(ask) = 0 /\ Behind(ask') = Retries + 1
      BY <2>1, <2>2, <2>3 DEF Behind
    <3> QED
      BY <1>1, <1>3, <2>1, <2>2, <2>3, <3>1 DEF Spent
  <2>4. CASE ask.client = "agent_ollama"
    <3>1. Behind(ask) = 0 /\ Behind(ask') = 1
      BY <2>1, <2>2, <2>4 DEF Behind
    <3> QED
      BY <1>1, <1>3, <2>1, <2>2, <2>4, <3>1 DEF Spent
  <2>5. CASE ask.client = "agent_gateway"
    <3> DEFINE rounds == IF ask.tier = "flex" THEN 0 ELSE Retries + Retries + 2
    <3>1. Behind(ask) = 0 + rounds /\ Behind(ask') = (Retries + 1) + rounds
      BY <2>1, <2>2, <2>5 DEF Behind
    <3>2. rounds \in Nat
      BY <1>1
    <3> HIDE DEF rounds
    <3> QED
      BY <1>1, <1>3, <2>1, <2>2, <2>5, <3>1, <3>2 DEF Spent
  <2> QED
    BY <1>2, <2>1, <2>3, <2>4, <2>5
<1>9. ASSUME TierLeft(outcome) PROVE Spent(ask') >= Spent(ask) + 1
  <2>1. /\ Keeps(ask, ask') /\ ask'.body = ask.tools /\ ask'.tier = "default" /\ ask'.attempt = 0
        /\ ask.client = "agent_gateway" /\ ask.tier = "flex"
    BY <1>9, PostMoves DEF TierLeft
  <2>2. Streamed(ask') = Streamed(ask) /\ ask'.client = ask.client /\ ask'.tools = ask.tools
    BY <1>3, <2>1 DEF Keeps
  <2> DEFINE bare == IF ask.body = ask.tools THEN 0 ELSE Retries + 1
  <2>3. Behind(ask) = bare + 0 /\ Behind(ask') = 0 + (Retries + Retries + 2)
    BY <2>1, <2>2 DEF Behind
  <2>4. bare \in 0..(Retries + 1)
    BY <1>1
  <2> HIDE DEF bare
  <2> QED
    BY <1>1, <1>3, <2>1, <2>2, <2>3, <2>4 DEF Spent
<1>10. ASSUME NEW result \in {"reply", "error"}, Over(result) PROVE Spent(ask') = Spent(ask)
  <2>1. Keeps(ask, ask') /\ ask'.body = ask.body /\ ask'.tier = ask.tier /\ ask'.attempt = ask.attempt
    BY <1>10, PostMoves
  <2>2. Behind(ask') = Behind(ask) /\ Streamed(ask') = Streamed(ask) /\ ask'.client = ask.client
    BY <1>3, <1>5, <2>1 DEF Keeps
  <2> QED
    BY <2>1, <2>2 DEF Spent
<1> QED
  BY <1>6, <1>7, <1>8, <1>9, <1>10

\* A blocking request is made, whatever comes of it.
LEMMA LlmPost ==
  ASSUME LlmInv, NEW outcome \in Outcomes, Post(outcome)
  PROVE  LlmInv'
<1> DEFINE e == [body |-> ask.body, tier |-> ask.tier, at |-> ask.at, outcome |-> outcome]
           n == Len(posts)
<1>1. CallTypes /\ CallStands /\ NoAnswerYet /\ ToolsGone /\ ErrorsAccounted
  BY DEF LlmInv
<1>2. ask.at = "post" /\ posts' = Append(posts, e) /\ shown' = shown
  BY DEF Post, Posted
<1>3. ask \in Calls /\ (ask.body => ask.tools)
  BY <1>1, <1>2, Underway DEF CallTypes
<1>4. /\ ask.client \in LlmClients /\ ask.body \in BOOLEAN /\ ask.tools \in BOOLEAN
      /\ ask.tier \in {"flex", "default"} /\ ask.attempt \in Nat /\ Retries \in Nat
  BY <1>3, LlmAssumption DEF Calls
<1>5. e \in Requests
  BY <1>2, <1>4 DEF Requests
<1>6. /\ posts' \in Seq(Requests) /\ n \in Nat /\ Len(posts') = n + 1
      /\ \A i \in 1..n : posts'[i] = posts[i]
      /\ posts'[n + 1] = e
  BY <1>1, <1>2, <1>5, RequestAdded
<1>7. /\ e.outcome = outcome /\ e.body = ask.body /\ e.tier = ask.tier /\ e.at = "post"
  BY <1>2
<1> HIDE DEF e, n
<1>8. \/ Retried(outcome) \/ RetriedBare(outcome) \/ Bared(outcome) \/ TierLeft(outcome)
      \/ Replied(outcome) \/ Failed(outcome)
  BY <1>1, PostComesTo
<1>9. Spent(ask) \in Nat
  BY <1>3, SpentCounts
<1>10. CASE Retried(outcome) \/ RetriedBare(outcome) \/ Bared(outcome) \/ TierLeft(outcome)
  <2>1. Keeps(ask, ask') /\ ask'.at = "post" /\ outcome # "answer"
    BY <1>2, <1>3, <1>10, PostMoves DEF Retried, RetriedBare, Bared, TierLeft
  <2>2. \/ /\ ask'.body = ask.body /\ outcome # "rejected" /\ ask'.tier = ask.tier
           /\ outcome \in {"network", "busy", "garbage"}
        \/ ask'.body = FALSE /\ ask'.tier = ask.tier
        \/ /\ ask'.tier = "default" /\ ask.tier = "flex" /\ ask.client = "agent_gateway"
           /\ ask'.body = ask.tools
    BY <1>2, <1>3, <1>10, PostMoves DEF Retried, RetriedBare, Bared, TierLeft
  <2>3. /\ ask' \in Calls /\ ask'.client = ask.client /\ ask'.style = ask.style
        /\ ask'.tools = ask.tools /\ ask'.pieces = ask.pieces
    BY <2>1 DEF Keeps
  <2>4. CallTypes'
    <3>1. ask.pieces <= shown /\ shown \in Nat
          /\ (ask.style # "blocking" => ask.client \in {"ollama", "gateway"})
          /\ (ask.tier = "flex" => ask.client = "agent_gateway")
      BY <1>1, <1>2 DEF CallTypes
    <3>2. ask'.body => ask'.tools
      BY <1>3, <2>2, <2>3
    <3>3. ask'.tier = "flex" => ask'.client = "agent_gateway"
      BY <2>2, <2>3, <3>1
    <3> QED
      BY <1>2, <1>6, <2>3, <3>1, <3>2, <3>3 DEF CallTypes
  <2>5. CallStands'
    <3>1. Spent(ask') >= Spent(ask) + 1 /\ Spent(ask') \in Nat
      BY <1>2, <1>3, <1>10, <2>3, SpentGrows, SpentCounts
    <3>2. n <= Spent(ask)
      BY <1>1, <1>2 DEF CallStands, n
    <3>3. Len(posts') <= Spent(ask')
      BY <1>6, <1>9, <3>1, <3>2
    <3> QED
      BY <2>1, <3>3 DEF CallStands
  <2>6. NoAnswerYet'
    <3>1. \A i \in 1..n : posts[i].outcome # "answer"
      BY <1>1, <1>2 DEF NoAnswerYet, n
    <3>2. \A i \in 1..Len(posts') : posts'[i].outcome # "answer"
      BY <1>6, <1>7, <2>1, <3>1
    <3> QED
      BY <2>1, <3>2 DEF NoAnswerYet
  <2>7. ToolsGone'
    <3>1. \A i \in 1..n :
            /\ posts[i].at = "post" /\ posts[i].outcome = "rejected" /\ posts[i].tier = ask.tier
               => ~ask.body
            /\ ask.tier = "flex" => posts[i].tier = "flex"
      BY <1>1, <1>2 DEF ToolsGone, n
    <3>2. \A i, j \in 1..n :
            /\ i < j /\ posts[i].at = "post" /\ posts[j].at = "post"
            /\ posts[i].outcome = "rejected" /\ posts[i].tier = posts[j].tier
            => ~posts[j].body
      BY <1>1 DEF ToolsGone, n
    <3>3. \A i, j \in 1..Len(posts') :
            /\ i < j /\ posts'[i].at = "post" /\ posts'[j].at = "post"
            /\ posts'[i].outcome = "rejected" /\ posts'[i].tier = posts'[j].tier
            => ~posts'[j].body
      BY <1>6, <1>7, <3>1, <3>2
    <3>4. \A i \in 1..Len(posts') :
            /\ posts'[i].at = "post" /\ posts'[i].outcome = "rejected" /\ posts'[i].tier = ask'.tier
               => ~ask'.body
            /\ ask'.tier = "flex" => posts'[i].tier = "flex"
      BY <1>4, <1>6, <1>7, <2>2, <3>1
    <3> QED
      BY <3>3, <3>4 DEF ToolsGone
  <2>8. ErrorsAccounted'
    <3>1. ask'.client = "ollama" /\ ask'.body => Blamed(e)
      BY <1>4, <1>7, <2>2, <2>3 DEF Blamed
    <3>2. n + 1 \in 1..Len(posts') /\ posts'[n + 1] = e
      BY <1>6
    <3> QED
      BY <2>1, <3>1, <3>2 DEF ErrorsAccounted
  <2> QED
    BY <2>4, <2>5, <2>6, <2>7, <2>8 DEF LlmInv
<1>11. CASE Replied(outcome) \/ Failed(outcome)
  <2>1. /\ Keeps(ask, ask') /\ ask'.at = "over" /\ ask'.body = ask.body /\ ask'.tier = ask.tier
        /\ Spent(ask') = Spent(ask)
    BY <1>2, <1>3, <1>11, PostMoves, SpentGrows DEF Replied, Failed
  <2>2. \/ /\ ask'.result = "reply"
           /\ outcome \in {"answer", "hollow"} \/ ask.client = "ollama"
        \/ /\ ask'.result = "error" /\ outcome # "answer"
           /\ outcome # "rejected" \/ ~ask.body \/ (ask.client = "ollama" /\ ask.attempt >= Retries)
    BY <1>2, <1>3, <1>11, PostMoves DEF Replied, Failed
  <2>3. /\ ask' \in Calls /\ ask'.client = ask.client /\ ask'.style = ask.style
        /\ ask'.tools = ask.tools /\ ask'.pieces = ask.pieces
    BY <2>1 DEF Keeps
  <2>4. CallTypes'
    <3>1. ask.pieces <= shown /\ shown \in Nat
          /\ (ask.style # "blocking" => ask.client \in {"ollama", "gateway"})
          /\ (ask.tier = "flex" => ask.client = "agent_gateway")
      BY <1>1, <1>2 DEF CallTypes
    <3> QED
      BY <1>2, <1>3, <1>6, <2>1, <2>3, <3>1 DEF CallTypes
  <2>5. CallStands'
    <3>1. n <= Spent(ask)
      BY <1>1, <1>2 DEF CallStands, n
    <3>2. Len(posts') \in 1..(Spent(ask') + 1)
      BY <1>6, <1>9, <2>1, <3>1
    <3> QED
      BY <2>1, <3>2 DEF CallStands
  <2>6. NoAnswerYet'
    <3>1. \A i \in 1..n : posts[i].outcome # "answer"
      BY <1>1, <1>2 DEF NoAnswerYet, n
    <3>2. Len(posts') - 1 = n
      BY <1>6
    <3>3. \A i \in 1..(Len(posts') - 1) : posts'[i].outcome # "answer"
      BY <1>6, <3>1, <3>2
    <3>4. posts'[Len(posts')].outcome = outcome
      BY <1>6, <1>7
    <3>5. outcome = "answer" => ask'.result = "reply"
      BY <2>2
    <3>6. ask'.result = "reply" /\ ask'.client # "ollama" => outcome \in {"answer", "hollow"}
      BY <2>2, <2>3
    <3> QED
      BY <2>1, <3>3, <3>4, <3>5, <3>6 DEF NoAnswerYet
  <2>7. ToolsGone'
    <3>1. \A i \in 1..n :
            posts[i].at = "post" /\ posts[i].outcome = "rejected" /\ posts[i].tier = ask.tier
            => ~ask.body
      BY <1>1, <1>2 DEF ToolsGone, n
    <3>2. \A i, j \in 1..n :
            /\ i < j /\ posts[i].at = "post" /\ posts[j].at = "post"
            /\ posts[i].outcome = "rejected" /\ posts[i].tier = posts[j].tier
            => ~posts[j].body
      BY <1>1 DEF ToolsGone, n
    <3>3. \A i, j \in 1..Len(posts') :
            /\ i < j /\ posts'[i].at = "post" /\ posts'[j].at = "post"
            /\ posts'[i].outcome = "rejected" /\ posts'[i].tier = posts'[j].tier
            => ~posts'[j].body
      BY <1>6, <1>7, <3>1, <3>2
    <3> QED
      BY <2>1, <3>3 DEF ToolsGone
  <2>8. ErrorsAccounted'
    <3> SUFFICES ASSUME Retries > 0, ask'.result = "error"
                 PROVE  \E i \in 1..Len(posts') : Blamed(posts'[i])
      BY <2>1 DEF ErrorsAccounted
    <3>1. n + 1 \in 1..Len(posts') /\ posts'[n + 1] = e
      BY <1>6
    <3>2. Blamed(e) \/ (ask.client = "ollama" /\ ask.attempt > 0 /\ ask.body)
      BY <1>4, <1>7, <2>2 DEF Blamed
    <3>3. ASSUME ask.client = "ollama", ask.attempt > 0, ask.body
          PROVE  \E i \in 1..n : Blamed(posts[i])
      BY <1>1, <1>2, <3>3 DEF ErrorsAccounted, n
    <3>4. \A i \in 1..n : i \in 1..Len(posts') /\ posts'[i] = posts[i]
      BY <1>6
    <3> QED
      BY <3>1, <3>2, <3>3, <3>4
  <2> QED
    BY <2>4, <2>5, <2>6, <2>7, <2>8 DEF LlmInv
<1> QED
  BY <1>8, <1>10, <1>11

-----------------------------------------------------------------------------
(* A stream, which is the first request of its call.                       *)

OneStream(s, out) ==
    s \in Seq(Requests) /\ Len(s) = 1 /\ s[1].at = "stream" /\ s[1].outcome = out

\* A call that streams has used no other attempt.
StreamsFirst ==
    /\ ask \in Calls /\ ask.attempt = 0 /\ ask.style # "blocking"
    /\ ask.client \in {"ollama", "gateway"} /\ ask.tier # "flex"
    /\ ask.body => ask.tools
    /\ ask.pieces <= shown /\ shown \in Nat

LEMMA StreamIsFirst ==
  ASSUME CallTypes, CallStands, ask.at \in {"stream", "reading"}
  PROVE  StreamsFirst
<1>1. ask.at # "idle" /\ ask.attempt = 0 /\ ask.style # "blocking"
  BY DEF CallStands
<1>2. ask \in Calls
  BY <1>1, Underway
<1>3. /\ ask.client \in {"ollama", "gateway"} /\ (ask.body => ask.tools)
      /\ (ask.tier = "flex" => ask.client = "agent_gateway")
      /\ ask.pieces <= shown /\ shown \in Nat
  BY <1>1 DEF CallTypes
<1> QED
  BY <1>1, <1>2, <1>3 DEF StreamsFirst

LEMMA OneSpent ==
  ASSUME NEW b \in Calls, b.style # "blocking"
  PROVE  Spent(b) \in Nat /\ 1 <= Spent(b)
<1>1. Retries \in Nat /\ b.attempt \in 0..Retries
      /\ b.client \in {"ollama", "gateway", "agent_ollama", "agent_gateway"}
  BY LlmAssumption DEF Calls, LlmClients
<1>2. Streamed(b) = 1
  BY DEF Streamed
<1>3. Behind(b) \in Nat
  <2>1. Behind(b) = CASE b.client = "ollama" -> 0
                      [] b.client = "gateway" -> IF b.body = b.tools THEN 0 ELSE Retries + 1
                      [] b.client = "agent_ollama" -> IF b.body = b.tools THEN 0 ELSE 1
                      [] b.client = "agent_gateway" ->
                           (IF b.body = b.tools THEN 0 ELSE Retries + 1)
                           + (IF b.tier = "flex" THEN 0 ELSE Retries + Retries + 2)
    BY DEF Behind
  <2> QED
    BY <1>1, <2>1
<1> QED
  BY <1>1, <1>2, <1>3 DEF Spent

LEMMA StreamGoes ==
  ASSUME StreamsFirst, NEW out, out # "answer", OneStream(posts', out), shown' = shown, FallBack
  PROVE  LlmInv'
<1>1. /\ ask' = [ask EXCEPT !.at = "post", !.pieces = 0, !.call = "none"]
      /\ ask \in Calls /\ 0 \in 0..MaxPieces
  BY LlmAssumption DEF FallBack, StreamsFirst
<1>2. /\ ask' \in Calls /\ ask'.at = "post" /\ ask'.pieces = 0 /\ ask'.client = ask.client
      /\ ask'.style = ask.style /\ ask'.body = ask.body /\ ask'.tools = ask.tools
      /\ ask'.tier = ask.tier /\ ask'.attempt = ask.attempt
  BY <1>1 DEF Calls
<1>3. /\ posts' \in Seq(Requests) /\ Len(posts') = 1 /\ posts'[1].at = "stream"
      /\ posts'[1].outcome = out
  BY DEF OneStream
<1>4. CallTypes'
  BY <1>2, <1>3 DEF StreamsFirst, CallTypes
<1>5. CallStands'
  <2>1. Spent(ask') \in Nat /\ 1 <= Spent(ask')
    BY <1>2, OneSpent DEF StreamsFirst
  <2> QED
    BY <1>2, <1>3, <2>1 DEF CallStands
<1>6. NoAnswerYet'
  BY <1>2, <1>3 DEF NoAnswerYet
<1>7. ToolsGone'
  BY <1>2, <1>3 DEF ToolsGone, StreamsFirst
<1>8. ErrorsAccounted'
  BY <1>2 DEF ErrorsAccounted, StreamsFirst
<1> QED
  BY <1>4, <1>5, <1>6, <1>7, <1>8 DEF LlmInv

LEMMA StreamIsOver ==
  ASSUME StreamsFirst, NEW out \in Outcomes, OneStream(posts', out), shown' = shown,
         NEW result \in {"reply", "error"}, Over(result),
         IF result = "reply" THEN out \in {"answer", "hollow"} ELSE out \notin {"answer", "rejected"}
  PROVE  LlmInv'
<1>1. ask' = [ask EXCEPT !.at = "over", !.result = result] /\ ask \in Calls
  BY DEF Over, StreamsFirst
<1>2. /\ ask' \in Calls /\ ask'.at = "over" /\ ask'.pieces = ask.pieces /\ ask'.client = ask.client
      /\ ask'.style = ask.style /\ ask'.body = ask.body /\ ask'.tools = ask.tools
      /\ ask'.tier = ask.tier /\ ask'.attempt = ask.attempt /\ ask'.result = result
  BY <1>1 DEF Calls
<1>3. /\ posts' \in Seq(Requests) /\ Len(posts') = 1 /\ posts'[1].at = "stream"
      /\ posts'[1].outcome = out
  BY DEF OneStream
<1>4. CallTypes'
  BY <1>2, <1>3 DEF StreamsFirst, CallTypes
<1>5. CallStands'
  <2>1. Spent(ask') \in Nat
    BY <1>2, SpentCounts
  <2> QED
    BY <1>2, <1>3, <2>1 DEF CallStands
<1>6. NoAnswerYet'
  BY <1>2, <1>3 DEF NoAnswerYet
<1>7. ToolsGone'
  BY <1>2, <1>3 DEF ToolsGone, StreamsFirst
<1>8. ErrorsAccounted'
  <2>1. result = "error" => Blamed(posts'[1])
    BY <1>3 DEF Blamed
  <2> QED
    BY <1>2, <1>3, <2>1 DEF ErrorsAccounted
<1> QED
  BY <1>4, <1>5, <1>6, <1>7, <1>8 DEF LlmInv

LEMMA LlmStreamPost ==
  ASSUME LlmInv, NEW outcome \in Outcomes, StreamPost(outcome)
  PROVE  LlmInv'
<1> DEFINE e == [body |-> ask.body, tier |-> ask.tier, at |-> ask.at, outcome |-> outcome]
<1>1. CallTypes /\ CallStands
  BY DEF LlmInv
<1>2. /\ ask.at = "stream" /\ posts' = Append(posts, e) /\ shown' = shown
      /\ outcome \notin {"garbage", "hollow"}
  BY DEF StreamPost, Posted
<1>3. StreamsFirst /\ posts = <<>>
  BY <1>1, <1>2, StreamIsFirst DEF CallStands
<1>4. e \in Requests /\ e.at = "stream" /\ e.outcome = outcome
  BY <1>2, <1>3 DEF StreamsFirst, Calls, Requests
<1> HIDE DEF e
<1>5. Len(posts) = 0
  BY <1>3, NoneLong, Zenon
<1>6. OneStream(posts', outcome)
  BY <1>1, <1>2, <1>4, <1>5, RequestAdded DEF OneStream
<1>7. CASE outcome = "answer"
  <2>1. ask' = [ask EXCEPT !.at = "reading"] /\ ask \in Calls
    BY <1>3, <1>7 DEF StreamPost, StreamsFirst
  <2>2. /\ ask' \in Calls /\ ask'.at = "reading" /\ ask'.pieces = ask.pieces
        /\ ask'.client = ask.client /\ ask'.style = ask.style /\ ask'.body = ask.body
        /\ ask'.tools = ask.tools /\ ask'.tier = ask.tier /\ ask'.attempt = ask.attempt
    BY <2>1 DEF Calls
  <2>3. CallTypes'
    BY <1>2, <1>3, <1>6, <2>2 DEF CallTypes, StreamsFirst, OneStream
  <2>4. CallStands' /\ NoAnswerYet' /\ ErrorsAccounted'
    BY <1>3, <1>6, <1>7, <2>2 DEF CallStands, NoAnswerYet, ErrorsAccounted, StreamsFirst, OneStream
  <2>5. ToolsGone'
    BY <1>6, <2>2 DEF ToolsGone, OneStream
  <2> QED
    BY <2>3, <2>4, <2>5 DEF LlmInv
<1>8. CASE outcome # "answer"
  <2>1. Unstreamed(outcome)
    BY <1>8 DEF StreamPost
  <2>2. CASE ask.style = "deltas" /\ outcome = "network"
    <3>1. Over("error")
      BY <2>1, <2>2 DEF Unstreamed
    <3> QED
      BY <1>2, <1>3, <1>6, <2>2, <3>1, StreamIsOver
  <2>3. CASE ~(ask.style = "deltas" /\ outcome = "network")
    <3>1. FallBack
      BY <2>1, <2>3 DEF Unstreamed
    <3> QED
      BY <1>2, <1>3, <1>6, <1>8, <3>1, StreamGoes
  <2> QED
    BY <2>2, <2>3
<1> QED
  BY <1>7, <1>8

\* What a stream that is read has brought.
LEMMA StreamIsRead ==
  ASSUME LlmInv, ask.at = "reading"
  PROVE  /\ StreamsFirst /\ OneStream(posts, "answer")
         /\ \A out \in Outcomes : OneStream([posts EXCEPT ![Len(posts)].outcome = out], out)
<1>1. CallTypes /\ CallStands
  BY DEF LlmInv
<1>2. posts \in Seq(Requests) /\ Len(posts) = 1 /\ posts[1].outcome = "answer" /\ posts[1].at = "stream"
  BY <1>1 DEF CallTypes, CallStands
<1>3. posts[1] \in Requests
  BY <1>1, <1>2, RequestAt
<1>4. ASSUME NEW out \in Outcomes
      PROVE  OneStream([posts EXCEPT ![Len(posts)].outcome = out], out)
  <2> DEFINE e == [posts[1] EXCEPT !.outcome = out]
  <2>1. e \in Requests /\ e.at = "stream" /\ e.outcome = out
    BY <1>2, <1>3 DEF Requests
  <2>2. [posts EXCEPT ![Len(posts)].outcome = out] = [posts EXCEPT ![1] = e]
    BY <1>2
  <2> HIDE DEF e
  <2>3. posts \in Seq(Requests) /\ 1 \in 1..Len(posts)
    BY <1>2
  <2>4. /\ [posts EXCEPT ![1] = e] \in Seq(Requests) /\ Len([posts EXCEPT ![1] = e]) = Len(posts)
        /\ \A j \in 1..Len(posts) :
             [posts EXCEPT ![1] = e][j] = IF j = 1 THEN e ELSE posts[j]
    BY <2>1, <2>3, ExceptSeq
  <2>5. [posts EXCEPT ![1] = e][1] = e
    BY <2>3, <2>4
  <2> QED
    BY <1>2, <2>1, <2>2, <2>4, <2>5 DEF OneStream
<1>5. StreamsFirst
  BY <1>1, StreamIsFirst
<1> QED
  BY <1>2, <1>4, <1>5 DEF OneStream

LEMMA LlmInterrupted ==
  ASSUME LlmInv, Interrupted
  PROVE  LlmInv'
<1>1. /\ ask.at = "reading" /\ shown' = shown
      /\ posts' = [posts EXCEPT ![Len(posts)].outcome = "network"]
  BY DEF Interrupted
<1>2. "network" \in Outcomes
  BY DEF Outcomes
<1>3. StreamsFirst /\ OneStream(posts', "network")
  BY <1>1, <1>2, StreamIsRead
<1>4. Over("error") \/ FallBack
  BY DEF Interrupted, Break
<1> QED
  BY <1>1, <1>2, <1>3, <1>4, StreamIsOver, StreamGoes

LEMMA LlmStreamEnds ==
  ASSUME LlmInv, StreamEnds
  PROVE  LlmInv'
<1>1. ask.at = "reading" /\ shown' = shown
  BY DEF StreamEnds
<1>2. "hollow" \in Outcomes /\ "answer" \in Outcomes
  BY DEF Outcomes
<1>3. StreamsFirst /\ OneStream(posts, "answer")
  BY <1>1, StreamIsRead
<1>4. CASE ask.pieces = 0 /\ ask.call # "parses"
  <2>1. posts' = [posts EXCEPT ![Len(posts)].outcome = "hollow"]
    BY <1>4 DEF StreamEnds
  <2>2. OneStream(posts', "hollow")
    BY <1>1, <1>2, <2>1, StreamIsRead
  <2>3. Over("reply") \/ FallBack
    BY <1>4 DEF StreamEnds
  <2> QED
    BY <1>1, <1>2, <1>3, <2>2, <2>3, StreamIsOver, StreamGoes
<1>5. CASE ~(ask.pieces = 0 /\ ask.call # "parses")
  <2>1. Over("reply") /\ posts' = posts
    BY <1>5 DEF StreamEnds
  <2>2. OneStream(posts', "answer")
    BY <1>3, <2>1
  <2> QED
    BY <1>1, <1>2, <1>3, <2>1, <2>2, StreamIsOver
<1> QED
  BY <1>4, <1>5

\* Text or a tool call comes with a stream that is read.
LEMMA StreamGoesOn ==
  ASSUME LlmInv, ask.at = "reading", UNCHANGED posts, ask' \in Calls, ask'.at = "reading",
         ask'.client = ask.client, ask'.style = ask.style, ask'.body = ask.body,
         ask'.tools = ask.tools, ask'.tier = ask.tier, ask'.attempt = ask.attempt,
         ask'.pieces <= shown', shown' \in Nat
  PROVE  LlmInv'
<1>1. StreamsFirst /\ OneStream(posts', "answer")
  BY StreamIsRead
<1>2. CallTypes'
  BY <1>1 DEF CallTypes, StreamsFirst, OneStream
<1>3. CallStands' /\ NoAnswerYet' /\ ErrorsAccounted'
  BY <1>1 DEF CallStands, NoAnswerYet, ErrorsAccounted, StreamsFirst, OneStream
<1>4. ToolsGone'
  BY <1>1 DEF ToolsGone, OneStream
<1> QED
  BY <1>2, <1>3, <1>4 DEF LlmInv

LEMMA LlmPiece ==
  ASSUME LlmInv, Piece
  PROVE  LlmInv'
<1>1. /\ ask.at = "reading" /\ ask.pieces < MaxPieces
      /\ ask' = [ask EXCEPT !.pieces = @ + 1] /\ shown' = shown + 1 /\ posts' = posts
  BY DEF Piece
<1>2. ask \in Calls /\ ask.pieces <= shown /\ shown \in Nat
  BY <1>1, StreamIsRead DEF StreamsFirst
<1>3. ask.pieces \in Nat /\ ask.pieces + 1 \in 0..MaxPieces
  BY <1>1, <1>2, LlmAssumption DEF Calls
<1>4. /\ ask' \in Calls /\ ask'.at = "reading" /\ ask'.client = ask.client
      /\ ask'.style = ask.style /\ ask'.body = ask.body /\ ask'.tools = ask.tools
      /\ ask'.tier = ask.tier /\ ask'.attempt = ask.attempt /\ ask'.pieces = ask.pieces + 1
  BY <1>1, <1>2, <1>3 DEF Calls
<1>5. ask'.pieces <= shown' /\ shown' \in Nat
  BY <1>1, <1>2, <1>3, <1>4
<1> QED
  BY <1>1, <1>4, <1>5, StreamGoesOn

LEMMA LlmToolCall ==
  ASSUME LlmInv, NEW arguments \in {"parses", "broken"}, ToolCall(arguments)
  PROVE  LlmInv'
<1>1. ask.at = "reading" /\ ask' = [ask EXCEPT !.call = arguments] /\ UNCHANGED <<posts, shown>>
  BY DEF ToolCall
<1>2. ask \in Calls /\ ask.pieces <= shown /\ shown \in Nat
  BY <1>1, StreamIsRead DEF StreamsFirst
<1>3. /\ ask' \in Calls /\ ask'.at = "reading" /\ ask'.client = ask.client
      /\ ask'.style = ask.style /\ ask'.body = ask.body /\ ask'.tools = ask.tools
      /\ ask'.tier = ask.tier /\ ask'.attempt = ask.attempt /\ ask'.pieces = ask.pieces
  BY <1>1, <1>2 DEF Calls
<1> QED
  BY <1>1, <1>2, <1>3, StreamGoesOn

LEMMA LlmInvNext == LlmInv /\ [LlmNext]_llmVars => LlmInv'
<1> SUFFICES ASSUME LlmInv, [LlmNext]_llmVars PROVE LlmInv'
  OBVIOUS
<1>1. CASE \E client \in LlmClients, style \in Styles, tools \in BOOLEAN, tier \in {"flex", "default"} :
             Ask(client, style, tools, tier)
  BY <1>1, LlmAsk
<1>2. CASE \E outcome \in Outcomes : Post(outcome) \/ StreamPost(outcome)
  BY <1>2, LlmPost, LlmStreamPost
<1>3. CASE Piece
  BY <1>3, LlmPiece
<1>4. CASE Interrupted
  BY <1>4, LlmInterrupted
<1>5. CASE StreamEnds
  BY <1>5, LlmStreamEnds
<1>6. CASE AnswerEnds
  <2>1. LlmInit'
    BY <1>6 DEF AnswerEnds, LlmInit
  <2> QED
    BY <2>1, LlmInvInit, PTL
<1>7. CASE \E arguments \in {"parses", "broken"} : ToolCall(arguments)
  BY <1>7, LlmToolCall
<1>8. CASE UNCHANGED llmVars
  BY <1>8 DEF llmVars, LlmInv, CallTypes, CallStands, NoAnswerYet, ToolsGone, ErrorsAccounted
<1> QED
  BY <1>1, <1>2, <1>3, <1>4, <1>5, <1>6, <1>7, <1>8 DEF LlmNext

\* For any number of retries and pieces, and whatever the server answers: the
\* requests of a call are bounded and its last one decides, in all four clients
\* (llm/client.py and agent/providers.py: complete and its helpers).
THEOREM RequestsStayBounded ==
  LlmSpec => [](LlmTypeOK /\ RequestsAreBounded /\ LastRequestDecides)
<1>1. LlmSpec => []LlmInv
  BY LlmInvInit, LlmInvNext, PTL DEF LlmSpec
<1> QED
  BY <1>1, LlmInvSafe, PTL

\* With a retry to spare a client moreover gives the tools up at the first
\* rejection and gets its answer; without one the Ollama client of the Bridge
\* does not (llm/client.py:206).
THEOREM LlmStaysSafe ==
  ASSUME Retries > 0
  PROVE  LlmSpec => []LlmSafe
<1>1. LlmSpec => []LlmInv
  BY LlmInvInit, LlmInvNext, PTL DEF LlmSpec
<1>2. LlmInv => LlmSafe
  BY LlmInvSafe, LlmInvTools DEF LlmSafe
<1> QED
  BY <1>1, <1>2, PTL

-----------------------------------------------------------------------------
(* The history of a session.                                               *)

Stored == MessageType \ {System}

\* A run that has a reply to come, or calls to do, has begun a turn.
HistoryTypes ==
    /\ TypeOK
    /\ \A r \in Runs : pc[r] \in {"model", "calls"} => turn[r] \in 1..MaxTurns

\* One run at a time is at work, and has its question in memory.
Alone ==
    /\ \A q, r \in Runs : ~Ended(q) /\ ~Ended(r) => q = r
    /\ \A r \in Runs : ~Ended(r) => Len(memory) >= 1

\* The reply at k of the list is the last message but for the results of its
\* calls, of which some are left.
Open(list, k, r, t, left) ==
    /\ list[k].role = "assistant" /\ list[k].run = r /\ list[k].turn = t
    /\ left <= list[k].calls
    /\ Len(list) = k + (list[k].calls - left)
    /\ \A n \in 1..(list[k].calls - left) :
         /\ list[k + n].role = "tool" /\ list[k + n].run = r /\ list[k + n].turn = t
         /\ list[k + n].left = list[k].calls - n + 1

CallsOpen ==
    \A r \in Runs : pc[r] = "calls" =>
        \E k \in 1..Len(memory) : Open(memory, k, r, turn[r], todo[r])

BeginsWithUser(list) == Len(list) >= 1 => list[1].role = "user"

\* As long as every save succeeds, each reply of a run that was not cut short
\* has its results, or is the one whose calls are under way.
AllAnswered ==
    failures = 0 =>
      /\ disk = memory
      /\ \A i \in 1..Len(memory) :
           memory[i].role = "assistant" /\ memory[i].run \notin cut =>
             \/ Answered(memory, i)
             \/ /\ pc[memory[i].run] = "calls"
                /\ Open(memory, i, memory[i].run, turn[memory[i].run], todo[memory[i].run])

CalmInv ==
    /\ HistoryTypes /\ Alone /\ CallsOpen /\ AllAnswered
    /\ WellFormed(memory) /\ WellFormed(disk)
    /\ BeginsWithUser(memory) /\ BeginsWithUser(disk)
    /\ ToolsFollowTheirCall /\ UncutCallsAreAnswered

-----------------------------------------------------------------------------

LEMMA MessageParts ==
  ASSUME NEW m \in Stored
  PROVE  /\ m \in MessageType /\ m.role \in {"user", "assistant", "tool"} /\ m.run \in Runs
         /\ m.role = "assistant" => m.calls \in 0..MaxCalls /\ m.turn \in 1..MaxTurns
         /\ m.role = "tool" => m.left \in 1..MaxCalls /\ m.turn \in 1..MaxTurns
  BY DEF Stored, MessageType, System

LEMMA NewMessages ==
  ASSUME NEW r \in Runs
  PROVE  /\ User(r) \in Stored /\ User(r).role = "user"
         /\ turn[r] \in 1..MaxTurns => \A n \in 0..MaxCalls :
              /\ Assistant(r, n) \in Stored
              /\ Assistant(r, n).role = "assistant" /\ Assistant(r, n).run = r
              /\ Assistant(r, n).turn = turn[r] /\ Assistant(r, n).calls = n
         /\ turn[r] \in 1..MaxTurns => \A n \in 1..MaxCalls :
              /\ ToolAnswer(r, n) \in Stored
              /\ ToolAnswer(r, n).role = "tool" /\ ToolAnswer(r, n).run = r
              /\ ToolAnswer(r, n).turn = turn[r] /\ ToolAnswer(r, n).left = n
<1>1. User(r) \in Stored /\ User(r).role = "user"
  <2>1. User(r).role = "user" /\ System.role = "system"
    BY DEF User, System
  <2>2. User(r) \in [role : {"user"}, run : Runs]
    BY DEF User
  <2> QED
    BY <2>1, <2>2 DEF Stored, MessageType
<1>2. ASSUME turn[r] \in 1..MaxTurns, NEW n \in 0..MaxCalls
      PROVE  /\ Assistant(r, n) \in Stored
             /\ Assistant(r, n).role = "assistant" /\ Assistant(r, n).run = r
             /\ Assistant(r, n).turn = turn[r] /\ Assistant(r, n).calls = n
  <2>1. /\ Assistant(r, n).role = "assistant" /\ Assistant(r, n).run = r
        /\ Assistant(r, n).turn = turn[r] /\ Assistant(r, n).calls = n /\ System.role = "system"
    BY DEF Assistant, System
  <2>2. Assistant(r, n) \in
          [role : {"assistant"}, run : Runs, turn : 1..MaxTurns, calls : 0..MaxCalls]
    BY <1>2 DEF Assistant
  <2> QED
    BY <2>1, <2>2 DEF Stored, MessageType
<1>3. ASSUME turn[r] \in 1..MaxTurns, NEW n \in 1..MaxCalls
      PROVE  /\ ToolAnswer(r, n) \in Stored
             /\ ToolAnswer(r, n).role = "tool" /\ ToolAnswer(r, n).run = r
             /\ ToolAnswer(r, n).turn = turn[r] /\ ToolAnswer(r, n).left = n
  <2>1. /\ ToolAnswer(r, n).role = "tool" /\ ToolAnswer(r, n).run = r
        /\ ToolAnswer(r, n).turn = turn[r] /\ ToolAnswer(r, n).left = n /\ System.role = "system"
    BY DEF ToolAnswer, System
  <2>2. ToolAnswer(r, n) \in
          [role : {"tool"}, run : Runs, turn : 1..MaxTurns, left : 1..MaxCalls]
    BY <1>3 DEF ToolAnswer
  <2> QED
    BY <2>1, <2>2 DEF Stored, MessageType
<1> QED
  BY <1>1, <1>2, <1>3

LEMMA Grown ==
  ASSUME NEW S, NEW s \in Seq(S), NEW m \in S
  PROVE  /\ Append(s, m) \in Seq(S)
         /\ Len(s) \in Nat /\ Len(Append(s, m)) = Len(s) + 1
         /\ DOMAIN s = 1..Len(s) /\ DOMAIN Append(s, m) = 1..(Len(s) + 1)
         /\ \A i \in 1..Len(s) : Append(s, m)[i] = s[i]
         /\ Append(s, m)[Len(s) + 1] = m
  BY AppendProperties, LenProperties

\* The list that is sent, before it is cut.
Listed == IF SystemPrompt THEN <<System>> \o memory ELSE memory

LEMMA ListedAt ==
  ASSUME memory \in Seq(Stored)
  PROVE  /\ Listed \in Seq(MessageType) /\ Len(Listed) \in Nat /\ Len(memory) \in Nat
         /\ ~SystemPrompt => Listed = memory
         /\ SystemPrompt =>
              /\ Len(Listed) = Len(memory) + 1 /\ Listed[1] = System
              /\ \A i \in 1..Len(memory) : Listed[i + 1] = memory[i]
<1>1. System \in MessageType /\ \A m \in Stored : m \in MessageType
  BY DEF MessageType, Stored
<1>2. memory \in Seq(MessageType) /\ Len(memory) \in Nat
  BY <1>1, LenProperties, SeqMonotonic
<1>3. /\ <<System>> \in Seq(MessageType) /\ Len(<<System>>) = 1 /\ <<System>>[1] = System
  BY <1>1
<1>4. /\ <<System>> \o memory \in Seq(MessageType)
      /\ Len(<<System>> \o memory) = 1 + Len(memory)
      /\ \A i \in 1..(1 + Len(memory)) :
           (<<System>> \o memory)[i] = IF i <= 1 THEN <<System>>[i] ELSE memory[i - 1]
  BY <1>2, <1>3, ConcatProperties
<1> QED
  BY <1>2, <1>3, <1>4, LenProperties DEF Listed

LEMMA WindowAt ==
  ASSUME NEW list \in Seq(MessageType), Len(list) > MaxContext
  PROVE  /\ Window(list) \in Seq(MessageType) /\ Len(Window(list)) = MaxContext
         /\ Window(list)[1] = list[1]
         /\ \A i \in 2..MaxContext : Window(list)[i] = list[Len(list) - MaxContext + i]
<1> DEFINE n == Len(list)
           tail == SubSeq(list, n - MaxContext + 2, n)
           head == <<Head(list)>>
<1>1. n \in Nat /\ MaxContext \in Nat /\ MaxContext >= 2
  BY LenProperties, HistoryAssumption
<1>2. \A i \in (n - MaxContext + 2)..n : list[i] \in MessageType
  <2>1. \A i \in 1..n : list[i] \in MessageType
    BY ElementOfSeq
  <2> QED
    BY <1>1, <2>1
<1>3. /\ tail \in Seq(MessageType)
      /\ Len(tail) = IF n - MaxContext + 2 <= n THEN n - (n - MaxContext + 2) + 1 ELSE 0
      /\ \A i \in 1..(n - (n - MaxContext + 2) + 1) : tail[i] = list[n - MaxContext + 2 + i - 1]
  <2>1. n - MaxContext + 2 \in Int /\ n \in Int
    BY <1>1
  <2> QED
    BY <1>2, <2>1, SubSeqProperties
<1>4. Len(tail) = MaxContext - 1 /\ \A i \in 1..(MaxContext - 1) : tail[i] = list[n - MaxContext + 1 + i]
  BY <1>1, <1>3
<1>5. list # <<>> /\ Head(list) = list[1]
  <2>1. list # <<>>
    BY <1>1, EmptySeq
  <2> QED
    BY <2>1
<1>6. list[1] \in MessageType
  BY <1>1, ElementOfSeq
<1>7. head \in Seq(MessageType) /\ Len(head) = 1 /\ head[1] = list[1]
  BY <1>5, <1>6
<1>8. Window(list) = head \o tail
  BY DEF Window
<1> HIDE DEF n, tail, head
<1>9. /\ Window(list) \in Seq(MessageType) /\ Len(Window(list)) = 1 + (MaxContext - 1)
      /\ \A i \in 1..(1 + (MaxContext - 1)) :
           Window(list)[i] = IF i <= 1 THEN head[i] ELSE tail[i - 1]
  <2>1. /\ head \o tail \in Seq(MessageType) /\ Len(head \o tail) = Len(head) + Len(tail)
        /\ \A i \in 1..(Len(head) + Len(tail)) :
             (head \o tail)[i] = IF i <= Len(head) THEN head[i] ELSE tail[i - Len(head)]
    BY <1>3, <1>7, ConcatProperties
  <2> QED
    BY <1>4, <1>7, <1>8, <2>1
<1>10. \A i \in 2..MaxContext : Window(list)[i] = list[n - MaxContext + i]
  <2> SUFFICES ASSUME NEW i \in 2..MaxContext PROVE Window(list)[i] = list[n - MaxContext + i]
    OBVIOUS
  <2>1. Window(list)[i] = tail[i - 1]
    BY <1>1, <1>9
  <2>2. i - 1 \in 1..(MaxContext - 1) /\ n - MaxContext + 1 + (i - 1) = n - MaxContext + i
    BY <1>1
  <2> QED
    BY <1>4, <2>1, <2>2
<1>11. Len(Window(list)) = MaxContext /\ Window(list)[1] = list[1]
  BY <1>1, <1>7, <1>9
<1> QED
  BY <1>9, <1>10, <1>11 DEF n

-----------------------------------------------------------------------------
(* Lists that a message is added to.                                       *)

LEMMA StaysWellFormed ==
  ASSUME NEW list \in Seq(Stored), NEW m \in Stored, WellFormed(list),
         m.role = "tool" => FollowsCall(Append(list, m), Len(list) + 1)
  PROVE  WellFormed(Append(list, m))
<1> DEFINE new == Append(list, m)
<1>1. /\ Len(list) \in Nat /\ DOMAIN list = 1..Len(list) /\ DOMAIN new = 1..(Len(list) + 1)
      /\ \A i \in 1..Len(list) : new[i] = list[i]
      /\ new[Len(list) + 1] = m
  BY Grown
<1> HIDE DEF new
<1> SUFFICES ASSUME NEW i \in 1..(Len(list) + 1), new[i].role = "tool" PROVE FollowsCall(new, i)
  BY <1>1 DEF WellFormed, new
<1>2. CASE i = Len(list) + 1
  BY <1>1, <1>2 DEF new
<1>3. CASE i \in 1..Len(list)
  <2>1. FollowsCall(list, i)
    BY <1>1, <1>3 DEF WellFormed
  <2>2. PICK k \in 1..(i - 1) :
          /\ Carries(list, k, i)
          /\ \A j \in (k + 1)..(i - 1) : list[j].role = "tool" /\ list[j].run = list[i].run
    BY <2>1 DEF FollowsCall
  <2>3. \A j \in 1..i : new[j] = list[j]
    BY <1>1, <1>3
  <2>4. k \in 1..i /\ i \in 1..i /\ \A j \in (k + 1)..(i - 1) : j \in 1..i
    BY <1>1, <1>3
  <2>5. Carries(new, k, i)
    BY <2>2, <2>3, <2>4 DEF Carries
  <2>6. \A j \in (k + 1)..(i - 1) : new[j].role = "tool" /\ new[j].run = new[i].run
    BY <2>2, <2>3, <2>4
  <2> QED
    BY <2>5, <2>6 DEF FollowsCall
<1> QED
  BY <1>1, <1>2, <1>3

LEMMA StaysAnswered ==
  ASSUME NEW list \in Seq(Stored), NEW m \in Stored, NEW i \in 1..Len(list),
         list[i].role = "assistant", Answered(list, i)
  PROVE  Answered(Append(list, m), i)
<1> DEFINE new == Append(list, m)
<1>1. /\ Len(list) \in Nat /\ Len(new) = Len(list) + 1
      /\ \A j \in 1..Len(list) : new[j] = list[j]
  BY Grown
<1>2. list[i].calls \in 0..MaxCalls /\ MaxCalls \in Nat
  <2>1. list[i] \in Stored
    BY ElementOfSeq
  <2> QED
    BY <2>1, MessageParts, HistoryAssumption
<1> HIDE DEF new
<1> SUFFICES ASSUME NEW n \in 1..list[i].calls
             PROVE  /\ i + n <= Len(new) /\ new[i + n].role = "tool"
                    /\ new[i + n].run = list[i].run /\ new[i + n].turn = list[i].turn
                    /\ new[i + n].left = list[i].calls - n + 1
  BY <1>1 DEF Answered, new
<1>3. /\ i + n <= Len(list) /\ list[i + n].role = "tool"
      /\ list[i + n].run = list[i].run /\ list[i + n].turn = list[i].turn
      /\ list[i + n].left = list[i].calls - n + 1
  BY DEF Answered
<1>4. i + n \in 1..Len(list)
  BY <1>1, <1>2, <1>3
<1> QED
  BY <1>1, <1>3, <1>4

\* A reply that is added is open with all its calls.
LEMMA Opens ==
  ASSUME NEW list \in Seq(Stored), NEW m \in Stored, m.role = "assistant"
  PROVE  Open(Append(list, m), Len(list) + 1, m.run, m.turn, m.calls)
<1>1. /\ Len(list) \in Nat /\ Len(Append(list, m)) = Len(list) + 1
      /\ Append(list, m)[Len(list) + 1] = m
  BY Grown
<1>2. m.calls \in 0..MaxCalls /\ MaxCalls \in Nat
  BY MessageParts, HistoryAssumption
<1>3. m.calls <= m.calls /\ m.calls - m.calls = 0 /\ Len(list) + 1 = Len(list) + 1 + 0
  BY <1>1, <1>2
<1> QED
  BY <1>1, <1>3 DEF Open

\* The next result follows its call, and leaves one call less.
LEMMA StaysOpen ==
  ASSUME NEW list \in Seq(Stored), NEW m \in Stored, NEW k \in 1..Len(list),
         NEW r, NEW t, NEW left \in Nat \ {0},
         Open(list, k, r, t, left),
         m.role = "tool", m.run = r, m.turn = t, m.left = left
  PROVE  /\ Open(Append(list, m), k, r, t, left - 1)
         /\ FollowsCall(Append(list, m), Len(list) + 1)
<1> DEFINE new == Append(list, m)
           done == list[k].calls - left
<1>1. /\ Len(list) \in Nat /\ Len(new) = Len(list) + 1
      /\ \A j \in 1..Len(list) : new[j] = list[j]
      /\ new[Len(list) + 1] = m
  BY Grown
<1>2. /\ list[k].role = "assistant" /\ list[k].run = r /\ list[k].turn = t
      /\ left <= list[k].calls /\ Len(list) = k + done
      /\ \A n \in 1..done :
           /\ list[k + n].role = "tool" /\ list[k + n].run = r /\ list[k + n].turn = t
           /\ list[k + n].left = list[k].calls - n + 1
  BY DEF Open
<1>3. list[k].calls \in Nat
  <2>1. list[k] \in Stored
    BY ElementOfSeq
  <2>2. list[k].calls \in 0..MaxCalls /\ MaxCalls \in Nat
    BY <1>2, <2>1, MessageParts, HistoryAssumption
  <2> QED
    BY <2>2
<1>4. done \in Nat /\ list[k].calls - (left - 1) = done + 1 /\ left = list[k].calls - (done + 1) + 1
      /\ left - 1 <= list[k].calls
  <2>1. ASSUME NEW c \in Nat, left <= c
        PROVE  /\ c - left \in Nat /\ c - (left - 1) = (c - left) + 1
               /\ left = c - ((c - left) + 1) + 1 /\ left - 1 <= c
    BY <2>1
  <2> QED
    BY <1>2, <1>3, <2>1
<1>5. new[k] = list[k]
  BY <1>1
<1> HIDE DEF new
<1>6. Open(new, k, r, t, left - 1)
  <2>1. ASSUME NEW n \in 1..(done + 1)
        PROVE  /\ new[k + n].role = "tool" /\ new[k + n].run = r /\ new[k + n].turn = t
               /\ new[k + n].left = list[k].calls - n + 1
    <3>1. CASE n = done + 1
      <4>1. k + n = Len(list) + 1 /\ left = list[k].calls - n + 1
        BY <1>2, <1>4, <3>1
      <4> QED
        BY <1>1, <4>1
    <3>2. CASE n \in 1..done
      <4>1. k + n \in 1..Len(list)
        BY <1>1, <1>2, <1>4, <3>2
      <4> QED
        BY <1>1, <1>2, <3>2, <4>1
    <3> QED
      BY <1>4, <3>1, <3>2
  <2>2. Len(new) = k + (done + 1)
    BY <1>1, <1>2, <1>4
  <2> QED
    BY <1>2, <1>4, <1>5, <2>1, <2>2 DEF Open
<1>7. FollowsCall(new, Len(list) + 1)
  <2>1. Carries(new, k, Len(list) + 1)
    BY <1>1, <1>2, <1>5 DEF Carries
  <2>2. ASSUME NEW j \in (k + 1)..((Len(list) + 1) - 1)
        PROVE  new[j].role = "tool" /\ new[j].run = new[Len(list) + 1].run
    <3> DEFINE n == j - k
    <3>1. n \in 1..done /\ k + n = j /\ j \in 1..Len(list)
      <4>1. ASSUME NEW l \in Nat, NEW d \in Nat, l = k + d, j \in (k + 1)..((l + 1) - 1)
            PROVE  j - k \in 1..d /\ k + (j - k) = j /\ j \in 1..l
        BY <4>1
      <4> QED
        BY <1>1, <1>2, <1>4, <4>1
    <3> HIDE DEF n
    <3>2. list[k + n].role = "tool" /\ list[k + n].run = r
      BY <1>2, <3>1
    <3>3. new[j] = list[k + n]
      BY <1>1, <3>1
    <3> QED
      BY <1>1, <3>2, <3>3
  <2>3. k \in 1..((Len(list) + 1) - 1)
    BY <1>1
  <2> QED
    BY <2>1, <2>2, <2>3 DEF FollowsCall
<1> QED
  BY <1>6, <1>7 DEF new

LEMMA OpenIsAnswered ==
  ASSUME NEW list \in Seq(Stored), NEW k \in 1..Len(list), NEW r, NEW t, Open(list, k, r, t, 0)
  PROVE  Answered(list, k)
<1>1. list[k].role = "assistant" /\ Len(list) \in Nat
  BY LenProperties DEF Open
<1>2. list[k].calls \in Nat
  <2>1. list[k] \in Stored
    BY ElementOfSeq
  <2>2. list[k].calls \in 0..MaxCalls /\ MaxCalls \in Nat
    BY <1>1, <2>1, MessageParts, HistoryAssumption
  <2> QED
    BY <2>2
<1>3. list[k].calls - 0 = list[k].calls
  BY <1>2
<1>4. /\ list[k].run = r /\ list[k].turn = t /\ Len(list) = k + list[k].calls
      /\ \A n \in 1..list[k].calls :
           /\ list[k + n].role = "tool" /\ list[k + n].run = r /\ list[k + n].turn = t
           /\ list[k + n].left = list[k].calls - n + 1
  BY <1>3 DEF Open
<1>5. \A n \in 1..list[k].calls : k + n <= Len(list)
  BY <1>1, <1>2, <1>4
<1> QED
  BY <1>4, <1>5 DEF Answered

-----------------------------------------------------------------------------
(* Types.                                                                  *)

LEMMA HistoryTypesInit == Init => HistoryTypes
<1>1. \A S : <<>> \in Seq(S)
  BY EmptySeq
<1>2. Len(<<>>) = 0
  BY NoneLong
<1> QED
  BY <1>1, <1>2, HistoryAssumption DEF Init, HistoryTypes, TypeOK, Stored

LEMMA MessageIsStored ==
  ASSUME HistoryTypes, NEW m \in Stored, AppendMessage(m)
  PROVE  /\ memory' = Append(memory, m) /\ memory' \in Seq(Stored) /\ disk' \in Seq(Stored)
         /\ clears' = clears /\ crashes' = crashes /\ failures' \in 0..MaxFailures
         /\ \/ disk' = memory' /\ failures' = failures
            \/ disk' = disk /\ failures' = failures + 1
<1>1. /\ memory \in Seq(Stored) /\ disk \in Seq(Stored) /\ failures \in 0..MaxFailures
  BY DEF HistoryTypes, TypeOK, Stored
<1>2. /\ memory' = Append(memory, m) /\ clears' = clears /\ crashes' = crashes
      /\ \/ disk' = memory' /\ failures' = failures
         \/ failures < MaxFailures /\ failures' = failures + 1 /\ disk' = disk
  BY DEF AppendMessage, Persist
<1>3. memory' \in Seq(Stored)
  BY <1>1, <1>2, Grown
<1>4. failures' \in 0..MaxFailures
  BY <1>1, <1>2, HistoryAssumption
<1> QED
  BY <1>1, <1>2, <1>3, <1>4

\* What a step leaves of the types when it moves only the run r.
LEMMA TypesOfRun ==
  ASSUME HistoryTypes, NEW r \in Runs, NEW label \in {"idle", "turn", "model", "calls", "done"},
         pc' = [pc EXCEPT ![r] = label],
         memory' \in Seq(Stored), disk' \in Seq(Stored), failures' \in 0..MaxFailures,
         UNCHANGED <<clears, crashes, stop>>, cut' \subseteq Runs,
         turn' \in [Runs -> 0..MaxTurns], todo' \in [Runs -> 0..MaxCalls],
         sent' \in Seq(MessageType), Len(sent') <= MaxContext,
         \A q \in Runs \ {r} : turn'[q] = turn[q],
         label \in {"model", "calls"} => turn'[r] \in 1..MaxTurns
  PROVE  HistoryTypes'
<1>1. /\ pc \in [Runs -> {"idle", "turn", "model", "calls", "done"}]
      /\ stop \in [Runs -> BOOLEAN] /\ clears \in 0..MaxClears /\ crashes \in 0..MaxCrashes
  BY DEF HistoryTypes, TypeOK
<1>2. /\ pc' \in [Runs -> {"idle", "turn", "model", "calls", "done"}]
      /\ pc'[r] = label /\ \A q \in Runs \ {r} : pc'[q] = pc[q]
  BY <1>1
<1>3. TypeOK'
  BY <1>1, <1>2 DEF TypeOK, Stored
<1>4. \A q \in Runs : pc'[q] \in {"model", "calls"} => turn'[q] \in 1..MaxTurns
  BY <1>2 DEF HistoryTypes
<1> QED
  BY <1>3, <1>4 DEF HistoryTypes

LEMMA RunTypes ==
  ASSUME HistoryTypes, NEW r \in Runs, Run(r)
  PROVE  HistoryTypes'
<1>1. /\ memory \in Seq(Stored) /\ disk \in Seq(Stored) /\ failures \in 0..MaxFailures
      /\ cut \subseteq Runs /\ turn \in [Runs -> 0..MaxTurns] /\ todo \in [Runs -> 0..MaxCalls]
      /\ sent \in Seq(MessageType) /\ Len(sent) <= MaxContext
      /\ (pc[r] \in {"model", "calls"} => turn[r] \in 1..MaxTurns)
      /\ MaxTurns \in Nat /\ MaxCalls \in Nat /\ MaxContext \in Nat
  BY HistoryAssumption DEF HistoryTypes, TypeOK, Stored
<1>2. CASE AskModel(r)
  <2>1. /\ AppendMessage(User(r)) /\ User(r) \in Stored /\ pc' = [pc EXCEPT ![r] = "turn"]
        /\ UNCHANGED <<turn, todo, stop, sent, cut>>
    BY <1>2, NewMessages DEF AskModel, Goto
  <2>2. /\ memory' \in Seq(Stored) /\ disk' \in Seq(Stored) /\ failures' \in 0..MaxFailures
        /\ clears' = clears /\ crashes' = crashes
    BY <2>1, MessageIsStored
  <2> QED
    BY <1>1, <2>1, <2>2, TypesOfRun
<1>3. CASE SendTurn(r)
  <2>1. /\ UNCHANGED <<memory, disk, todo, stop, cut, bounds>>
        /\ pc[r] = "turn"
    BY <1>3 DEF SendTurn
  <2>2. UNCHANGED <<clears, crashes, failures>>
    BY <2>1 DEF bounds
  <2>3. CASE turn[r] = MaxTurns \/ stop[r]
    <3>1. pc' = [pc EXCEPT ![r] = "done"] /\ UNCHANGED <<turn, sent>>
      BY <1>3, <2>3 DEF SendTurn, Goto
    <3> QED
      BY <1>1, <2>1, <2>2, <3>1, TypesOfRun
  <2>4. CASE ~(turn[r] = MaxTurns \/ stop[r])
    <3>1. /\ sent' = Messages /\ turn' = [turn EXCEPT ![r] = @ + 1]
          /\ pc' = [pc EXCEPT ![r] = "model"]
      BY <1>3, <2>4 DEF SendTurn, Goto
    <3>2. sent' = Window(Listed)
      BY <3>1 DEF Messages, Listed
    <3>3. Listed \in Seq(MessageType) /\ Len(Listed) \in Nat
      BY <1>1, ListedAt
    <3>4. sent' \in Seq(MessageType) /\ Len(sent') <= MaxContext
      <4>1. CASE Len(Listed) > MaxContext
        <5>1. Window(Listed) \in Seq(MessageType) /\ Len(Window(Listed)) = MaxContext
          BY <3>3, <4>1, WindowAt
        <5> QED
          BY <1>1, <3>2, <5>1
      <4>2. CASE ~(Len(Listed) > MaxContext)
        <5>1. sent' = Listed
          BY <3>2, <4>2 DEF Window
        <5> QED
          BY <1>1, <3>3, <4>2, <5>1
      <4> QED
        BY <4>1, <4>2
    <3>5. /\ turn' \in [Runs -> 0..MaxTurns] /\ turn'[r] \in 1..MaxTurns
          /\ \A q \in Runs \ {r} : turn'[q] = turn[q]
      <4>1. turn[r] \in 0..MaxTurns /\ turn[r] # MaxTurns
        BY <1>1, <2>4
      <4>2. turn[r] + 1 \in 0..MaxTurns /\ turn[r] + 1 \in 1..MaxTurns
        BY <1>1, <4>1
      <4> QED
        BY <1>1, <3>1, <4>2
    <3> QED
      BY <1>1, <2>1, <2>2, <3>1, <3>4, <3>5, TypesOfRun
  <2> QED
    BY <2>3, <2>4
<1>4. CASE FinalReply(r)
  <2>1. /\ AppendMessage(Assistant(r, 0)) /\ pc' = [pc EXCEPT ![r] = "done"]
        /\ UNCHANGED <<turn, todo, stop, sent, cut>> /\ turn[r] \in 1..MaxTurns
    BY <1>1, <1>4 DEF FinalReply, Goto
  <2>2. Assistant(r, 0) \in Stored
    <3>1. 0 \in 0..MaxCalls
      BY <1>1
    <3> QED
      BY <2>1, <3>1, NewMessages
  <2>3. /\ memory' \in Seq(Stored) /\ disk' \in Seq(Stored) /\ failures' \in 0..MaxFailures
        /\ clears' = clears /\ crashes' = crashes
    BY <2>1, <2>2, MessageIsStored
  <2> QED
    BY <1>1, <2>1, <2>3, TypesOfRun
<1>5. CASE NoReply(r)
  <2>1. /\ pc' = [pc EXCEPT ![r] = "done"]
        /\ UNCHANGED <<memory, disk, turn, todo, stop, sent, cut, clears, crashes, failures>>
    BY <1>5 DEF NoReply, Goto, bounds
  <2> QED
    BY <1>1, <2>1, TypesOfRun
<1>6. CASE ToolReply(r)
  <2>1. PICK n \in 1..MaxCalls : AppendMessage(Assistant(r, n)) /\ todo' = [todo EXCEPT ![r] = n]
    BY <1>6 DEF ToolReply
  <2>2. /\ pc' = [pc EXCEPT ![r] = "calls"] /\ UNCHANGED <<turn, stop, sent, cut>>
        /\ turn[r] \in 1..MaxTurns
    BY <1>1, <1>6 DEF ToolReply, Goto
  <2>3. n \in 0..MaxCalls /\ todo' \in [Runs -> 0..MaxCalls]
    BY <1>1, <2>1
  <2>4. Assistant(r, n) \in Stored
    BY <2>2, <2>3, NewMessages
  <2>5. /\ memory' \in Seq(Stored) /\ disk' \in Seq(Stored) /\ failures' \in 0..MaxFailures
        /\ clears' = clears /\ crashes' = crashes
    BY <2>1, <2>4, MessageIsStored
  <2> QED
    BY <1>1, <2>2, <2>3, <2>5, TypesOfRun
<1>7. CASE CallTool(r)
  <2>1. /\ pc[r] = "calls" /\ todo[r] > 0 /\ todo' = [todo EXCEPT ![r] = @ - 1]
        /\ AppendMessage(ToolAnswer(r, todo[r])) /\ UNCHANGED <<pc, turn, stop, sent, cut>>
    BY <1>7 DEF CallTool
  <2>2. todo[r] \in 1..MaxCalls /\ todo[r] - 1 \in 0..MaxCalls /\ turn[r] \in 1..MaxTurns
    BY <1>1, <2>1
  <2>3. todo' \in [Runs -> 0..MaxCalls]
    BY <1>1, <2>1, <2>2
  <2>4. ToolAnswer(r, todo[r]) \in Stored
    BY <2>2, NewMessages
  <2>5. /\ memory' \in Seq(Stored) /\ disk' \in Seq(Stored) /\ failures' \in 0..MaxFailures
        /\ clears' = clears /\ crashes' = crashes
    BY <2>1, <2>4, MessageIsStored
  <2>6. pc' = [pc EXCEPT ![r] = "calls"]
    BY <2>1 DEF HistoryTypes, TypeOK
  <2> QED
    BY <1>1, <2>1, <2>2, <2>3, <2>5, <2>6, TypesOfRun
<1>8. CASE EndOfCalls(r)
  <2>1. /\ pc' = [pc EXCEPT ![r] = "turn"]
        /\ UNCHANGED <<memory, disk, turn, todo, stop, sent, cut, clears, crashes, failures>>
    BY <1>8 DEF EndOfCalls, Goto, bounds
  <2> QED
    BY <1>1, <2>1, TypesOfRun
<1>9. CASE AbandonCalls(r)
  <2>1. /\ pc' = [pc EXCEPT ![r] = "done"] /\ cut' = cut \cup {r}
        /\ UNCHANGED <<memory, disk, turn, todo, stop, sent, clears, crashes, failures>>
    BY <1>9 DEF AbandonCalls, Goto, bounds
  <2> QED
    BY <1>1, <2>1, TypesOfRun
<1> QED
  BY <1>2, <1>3, <1>4, <1>5, <1>6, <1>7, <1>8, <1>9 DEF Run

LEMMA HistoryTypesNext == HistoryTypes /\ [Next]_vars => HistoryTypes'
<1> SUFFICES ASSUME HistoryTypes, [Next]_vars PROVE HistoryTypes'
  OBVIOUS
<1>1. CASE \E r \in Runs : Run(r)
  BY <1>1, RunTypes
<1>2. CASE \E r \in Runs : Interrupt(r)
  BY <1>2 DEF Interrupt, HistoryTypes, TypeOK, bounds
<1>3. CASE Clear
  <2>1. <<>> \in Seq(Stored)
    BY EmptySeq
  <2>2. /\ clears < MaxClears /\ clears' = clears + 1 /\ memory' = <<>>
        /\ UNCHANGED <<pc, turn, todo, stop, sent, cut, crashes>>
        /\ \/ disk' = memory' /\ failures' = failures
           \/ failures < MaxFailures /\ failures' = failures + 1 /\ disk' = disk
    BY <1>3 DEF Clear, Persist
  <2>3. /\ clears \in 0..MaxClears /\ failures \in 0..MaxFailures /\ disk \in Seq(Stored)
        /\ MaxClears \in Nat /\ MaxFailures \in Nat
    BY HistoryAssumption DEF HistoryTypes, TypeOK, Stored
  <2>4. clears' \in 0..MaxClears /\ failures' \in 0..MaxFailures
    BY <2>2, <2>3
  <2>5. memory' \in Seq(Stored) /\ disk' \in Seq(Stored)
    BY <2>1, <2>2, <2>3
  <2> QED
    BY <2>2, <2>4, <2>5 DEF HistoryTypes, TypeOK, Stored
<1>4. CASE Restart
  <2>1. crashes \in 0..MaxCrashes /\ crashes < MaxCrashes /\ crashes' = crashes + 1 /\ MaxCrashes \in Nat
    BY <1>4, HistoryAssumption DEF Restart, HistoryTypes, TypeOK
  <2>2. crashes' \in 0..MaxCrashes
    BY <2>1
  <2> QED
    BY <1>4, <2>2 DEF Restart, HistoryTypes, TypeOK, Stored, Ended
<1>5. CASE UNCHANGED vars
  BY <1>5 DEF vars, bounds, HistoryTypes, TypeOK
<1> QED
  BY <1>1, <1>2, <1>3, <1>4, <1>5 DEF Next

-----------------------------------------------------------------------------
(* What is sent.                                                           *)

LEMMA ListedWellFormed ==
  ASSUME memory \in Seq(Stored), WellFormed(memory)
  PROVE  WellFormed(Listed)
<1>1. CASE ~SystemPrompt
  BY <1>1, ListedAt
<1>2. CASE SystemPrompt
  <2>1. /\ Len(memory) \in Nat /\ Len(Listed) = Len(memory) + 1 /\ Listed[1] = System
        /\ \A i \in 1..Len(memory) : Listed[i + 1] = memory[i]
        /\ Listed \in Seq(MessageType)
    BY <1>2, ListedAt
  <2>2. DOMAIN Listed = 1..(Len(memory) + 1) /\ DOMAIN memory = 1..Len(memory)
    BY <2>1, LenProperties
  <2> SUFFICES ASSUME NEW j \in 1..(Len(memory) + 1), Listed[j].role = "tool"
               PROVE  FollowsCall(Listed, j)
    BY <2>2 DEF WellFormed
  <2>3. j # 1
    BY <2>1 DEF System
  <2> DEFINE i == j - 1
  <2>4. i \in 1..Len(memory) /\ j = i + 1 /\ Listed[j] = memory[i]
    BY <2>1, <2>3
  <2> HIDE DEF i
  <2>5. FollowsCall(memory, i)
    BY <2>2, <2>4 DEF WellFormed
  <2>6. PICK k \in 1..(i - 1) :
          /\ Carries(memory, k, i)
          /\ \A m \in (k + 1)..(i - 1) : memory[m].role = "tool" /\ memory[m].run = memory[i].run
    BY <2>5 DEF FollowsCall
  <2>7. k \in 1..Len(memory) /\ k + 1 \in 1..(j - 1) /\ Listed[k + 1] = memory[k]
    BY <2>1, <2>4, <2>6
  <2>8. Carries(Listed, k + 1, j)
    BY <2>4, <2>6, <2>7 DEF Carries
  <2>9. ASSUME NEW m \in ((k + 1) + 1)..(j - 1)
        PROVE  Listed[m].role = "tool" /\ Listed[m].run = Listed[j].run
    <3> DEFINE l == m - 1
    <3>1. l \in (k + 1)..(i - 1) /\ l \in 1..Len(memory) /\ l + 1 = m
      BY <2>1, <2>4, <2>6, <2>7
    <3> HIDE DEF l
    <3>2. Listed[m] = memory[l]
      BY <2>1, <3>1
    <3> QED
      BY <2>4, <2>6, <3>1, <3>2
  <2> QED
    BY <2>7, <2>8, <2>9 DEF FollowsCall
<1> QED
  BY <1>1, <1>2

LEMMA ListedAnswered ==
  ASSUME memory \in Seq(Stored), BeginsWithUser(memory), Len(memory) >= 1,
         \A i \in 1..Len(memory) :
           memory[i].role = "assistant" /\ memory[i].run \notin cut => Answered(memory, i)
  PROVE  /\ Len(Listed) >= 1 /\ Listed[1].role # "assistant"
         /\ \A i \in 1..Len(Listed) :
              Listed[i].role = "assistant" /\ Listed[i].run \notin cut =>
                Listed[i].calls \in Nat /\ Answered(Listed, i)
<1>0. ASSUME NEW i \in 1..Len(memory), memory[i].role = "assistant" PROVE memory[i].calls \in Nat
  <2>1. memory[i] \in Stored
    BY ElementOfSeq
  <2>2. memory[i].calls \in 0..MaxCalls /\ MaxCalls \in Nat
    BY <1>0, <2>1, MessageParts, HistoryAssumption
  <2> QED
    BY <2>2
<1>1. CASE ~SystemPrompt
  BY <1>0, <1>1, ListedAt DEF BeginsWithUser
<1>2. CASE SystemPrompt
  <2>1. /\ Len(memory) \in Nat /\ Len(Listed) = Len(memory) + 1 /\ Listed[1] = System
        /\ \A i \in 1..Len(memory) : Listed[i + 1] = memory[i]
    BY <1>2, ListedAt
  <2>2. Listed[1].role # "assistant"
    BY <2>1 DEF System
  <2>3. ASSUME NEW j \in 1..Len(Listed), Listed[j].role = "assistant", Listed[j].run \notin cut
        PROVE  Listed[j].calls \in Nat /\ Answered(Listed, j)
    <3> DEFINE i == j - 1
    <3>1. i \in 1..Len(memory) /\ j = i + 1 /\ Listed[j] = memory[i]
      <4>1. j # 1
        BY <2>2, <2>3
      <4> QED
        BY <2>1, <4>1
    <3> HIDE DEF i
    <3>2. memory[i].calls \in Nat /\ Answered(memory, i)
      BY <1>0, <2>3, <3>1
    <3>3. ASSUME NEW n \in 1..Listed[j].calls
          PROVE  j + n <= Len(Listed) /\ Listed[j + n] = memory[i + n]
      <4>1. n \in 1..memory[i].calls
        BY <3>1
      <4>2. i + n <= Len(memory)
        BY <3>2, <4>1 DEF Answered
      <4>3. i + n \in 1..Len(memory) /\ (i + n) + 1 = j + n
        <5>1. n \in Nat /\ n >= 1 /\ i \in Nat /\ i >= 1 /\ Len(memory) \in Nat
          BY <2>1, <3>1, <3>2, <4>1
        <5>2. (i + n) + 1 = (i + 1) + n
          BY <5>1
        <5> QED
          BY <3>1, <4>2, <5>1, <5>2
      <4>4. Listed[(i + n) + 1] = memory[i + n] /\ j + n <= Len(Listed)
        BY <2>1, <4>3
      <4> QED
        BY <4>3, <4>4
    <3>4. \A n \in 1..Listed[j].calls :
            /\ j + n <= Len(Listed) /\ Listed[j + n].role = "tool"
            /\ Listed[j + n].run = Listed[j].run /\ Listed[j + n].turn = Listed[j].turn
            /\ Listed[j + n].left = Listed[j].calls - n + 1
      BY <3>1, <3>2, <3>3 DEF Answered
    <3> QED
      BY <3>1, <3>2, <3>4 DEF Answered
  <2> QED
    BY <2>1, <2>2, <2>3
<1> QED
  BY <1>1, <1>2

\* The window takes the first message and the newest, so that a reply whose
\* results are in the list has them in the window.
LEMMA WindowAnswered ==
  ASSUME NEW list \in Seq(MessageType), NEW i \in 1..Len(Window(list)),
         Len(list) >= 1, list[1].role # "assistant",
         Window(list)[i].role = "assistant",
         \A j \in 1..Len(list) :
           list[j].role = "assistant" /\ list[j].run = Window(list)[i].run =>
             list[j].calls \in Nat /\ Answered(list, j)
  PROVE  Answered(Window(list), i)
<1>1. CASE ~(Len(list) > MaxContext)
  <2>1. Window(list) = list
    BY <1>1 DEF Window
  <2> QED
    BY <2>1
<1>2. CASE Len(list) > MaxContext
  <2> DEFINE w == Window(list)
  <2>1. /\ Len(w) = MaxContext /\ w[1] = list[1]
        /\ \A j \in 2..MaxContext : w[j] = list[Len(list) - MaxContext + j]
    BY <1>2, WindowAt
  <2>2. Len(list) \in Nat /\ MaxContext \in Nat /\ MaxContext >= 2
    BY LenProperties, HistoryAssumption
  <2> HIDE DEF w
  <2> DEFINE at == Len(list) - MaxContext + i
  <2>3. i \in 2..MaxContext
    <3>1. i # 1
      BY <2>1 DEF w
    <3> QED
      BY <2>1, <2>2, <3>1 DEF w
  <2>4. at \in 1..Len(list) /\ w[i] = list[at]
    BY <1>2, <2>1, <2>2, <2>3
  <2>5. list[at].calls \in Nat /\ Answered(list, at)
    BY <2>4 DEF w
  <2>6. ASSUME NEW n \in 1..w[i].calls
        PROVE  i + n <= Len(w) /\ w[i + n] = list[at + n]
    <3>1. n \in 1..list[at].calls
      BY <2>4
    <3>2. at + n <= Len(list)
      BY <2>5, <3>1 DEF Answered
    <3>3. i + n \in 2..MaxContext /\ Len(list) - MaxContext + (i + n) = at + n
      <4>1. n \in Nat
        BY <2>5, <3>1
      <4>2. ASSUME NEW l \in Nat, l - MaxContext + i + n <= l
            PROVE  i + n \in 2..MaxContext /\ l - MaxContext + (i + n) = l - MaxContext + i + n
        BY <2>2, <2>3, <4>1, <4>2
      <4> QED
        BY <2>2, <3>2, <4>2
    <3> QED
      BY <2>1, <2>2, <3>3
  <2>7. \A n \in 1..w[i].calls :
          /\ i + n <= Len(w) /\ w[i + n].role = "tool"
          /\ w[i + n].run = w[i].run /\ w[i + n].turn = w[i].turn
          /\ w[i + n].left = w[i].calls - n + 1
    <3> HIDE DEF at
    <3> QED
      BY <2>4, <2>5, <2>6 DEF Answered
  <2> QED
    BY <2>7 DEF Answered, w
<1> QED
  BY <1>1, <1>2

-----------------------------------------------------------------------------
(* One run after the other.                                                *)

LEMMA CalmFacts ==
  ASSUME CalmInv
  PROVE  /\ HistoryTypes
         /\ memory \in Seq(Stored) /\ disk \in Seq(Stored) /\ sent \in Seq(MessageType)
         /\ Len(memory) \in Nat /\ DOMAIN memory = 1..Len(memory)
         /\ pc \in [Runs -> {"idle", "turn", "model", "calls", "done"}]
         /\ turn \in [Runs -> 0..MaxTurns] /\ todo \in [Runs -> 0..MaxCalls]
         /\ failures \in 0..MaxFailures /\ MaxFailures \in Nat /\ cut \subseteq Runs
         /\ \A i \in 1..Len(memory) : memory[i] \in Stored
<1>1. memory \in Seq(Stored)
  BY DEF CalmInv, HistoryTypes, TypeOK, Stored
<1>2. Len(memory) \in Nat /\ DOMAIN memory = 1..Len(memory) /\ \A i \in 1..Len(memory) : memory[i] \in Stored
  BY <1>1, LenProperties, ElementOfSeq
<1> QED
  BY <1>1, <1>2, HistoryAssumption DEF CalmInv, HistoryTypes, TypeOK, Stored

LEMMA CalmInit == Init => CalmInv
<1> SUFFICES ASSUME Init PROVE CalmInv
  OBVIOUS
<1>1. HistoryTypes
  BY HistoryTypesInit
<1>2. Len(memory) = 0 /\ Len(disk) = 0 /\ Len(sent) = 0
  BY NoneLong DEF Init
<1>3. DOMAIN memory = {} /\ DOMAIN disk = {} /\ DOMAIN sent = {}
  <2>1. memory \in Seq(Stored) /\ disk \in Seq(Stored) /\ sent \in Seq(MessageType)
    BY <1>1 DEF HistoryTypes, TypeOK, Stored
  <2>2. DOMAIN memory = 1..Len(memory) /\ DOMAIN disk = 1..Len(disk) /\ DOMAIN sent = 1..Len(sent)
    BY <2>1, LenProperties
  <2> QED
    BY <1>2, <2>2
<1>4. WellFormed(memory) /\ WellFormed(disk) /\ WellFormed(sent)
  BY <1>3 DEF WellFormed
<1>5. Alone /\ CallsOpen
  BY DEF Init, Alone, CallsOpen, Ended
<1>6. AllAnswered
  BY <1>2 DEF Init, AllAnswered
<1> QED
  BY <1>1, <1>2, <1>3, <1>4, <1>5, <1>6
    DEF CalmInv, BeginsWithUser, ToolsFollowTheirCall, UncutCallsAreAnswered

LEMMA OthersRest ==
  ASSUME Alone, NEW r \in Runs, ~Ended(r), NEW q \in Runs, q # r
  PROVE  pc[q] \in {"idle", "done"}
BY DEF Alone, Ended

\* What appending a message in its place keeps.
LEMMA AppendKeeps ==
  ASSUME CalmInv, NEW m \in Stored, AppendMessage(m), sent' = sent, cut' = cut,
         m.role = "tool" => FollowsCall(Append(memory, m), Len(memory) + 1),
         m.role # "user" => Len(memory) >= 1
  PROVE  /\ memory' = Append(memory, m) /\ Len(memory') = Len(memory) + 1
         /\ memory'[Len(memory) + 1] = m
         /\ \A i \in 1..Len(memory) : memory'[i] = memory[i]
         /\ WellFormed(memory') /\ WellFormed(disk')
         /\ BeginsWithUser(memory') /\ BeginsWithUser(disk')
         /\ ToolsFollowTheirCall' /\ UncutCallsAreAnswered'
         /\ failures' = 0 => failures = 0 /\ disk' = memory'
         /\ \A i \in 1..Len(memory) :
              memory[i].role = "assistant" /\ Answered(memory, i) => Answered(memory', i)
<1>1. /\ memory \in Seq(Stored) /\ Len(memory) \in Nat /\ failures \in Nat
      /\ WellFormed(memory) /\ WellFormed(disk) /\ BeginsWithUser(memory) /\ BeginsWithUser(disk)
      /\ ToolsFollowTheirCall /\ UncutCallsAreAnswered
  BY CalmFacts DEF CalmInv
<1>2. /\ memory' = Append(memory, m)
      /\ \/ disk' = memory' /\ failures' = failures
         \/ failures' = failures + 1 /\ disk' = disk
  BY DEF AppendMessage, Persist
<1>3. /\ Len(memory') = Len(memory) + 1 /\ memory'[Len(memory) + 1] = m
      /\ \A i \in 1..Len(memory) : memory'[i] = memory[i]
  BY <1>1, <1>2, Grown
<1>4. WellFormed(memory')
  BY <1>1, <1>2, StaysWellFormed
<1>5. BeginsWithUser(memory')
  BY <1>1, <1>3 DEF BeginsWithUser
<1>6. WellFormed(disk') /\ BeginsWithUser(disk')
  BY <1>1, <1>2, <1>4, <1>5
<1>7. failures' = 0 => failures = 0 /\ disk' = memory'
  BY <1>1, <1>2
<1>8. ToolsFollowTheirCall' /\ UncutCallsAreAnswered'
  BY <1>1, <1>7 DEF ToolsFollowTheirCall, UncutCallsAreAnswered
<1>9. \A i \in 1..Len(memory) :
        memory[i].role = "assistant" /\ Answered(memory, i) => Answered(memory', i)
  BY <1>1, <1>2, StaysAnswered
<1> QED
  BY <1>2, <1>3, <1>4, <1>5, <1>6, <1>7, <1>8, <1>9

\* What a step that leaves the history and the request alone keeps.
LEMMA RestKeeps ==
  ASSUME CalmInv, UNCHANGED <<memory, disk, sent, failures>>, cut \subseteq cut'
  PROVE  /\ WellFormed(memory') /\ WellFormed(disk')
         /\ BeginsWithUser(memory') /\ BeginsWithUser(disk')
         /\ ToolsFollowTheirCall' /\ UncutCallsAreAnswered'
<1>1. /\ WellFormed(memory) /\ WellFormed(disk) /\ BeginsWithUser(memory) /\ BeginsWithUser(disk)
      /\ ToolsFollowTheirCall /\ UncutCallsAreAnswered
  BY DEF CalmInv
<1> QED
  BY <1>1 DEF ToolsFollowTheirCall, UncutCallsAreAnswered

LEMMA AskKeepsCalm ==
  ASSUME CalmInv, NEW r \in Runs, AskModel(r), OneAtATime, HistoryTypes'
  PROVE  CalmInv'
<1>1. /\ AppendMessage(User(r)) /\ User(r) \in Stored /\ User(r).role = "user"
      /\ pc[r] = "idle" /\ pc' = [pc EXCEPT ![r] = "turn"]
      /\ UNCHANGED <<turn, todo, stop, sent, cut>>
  BY NewMessages DEF AskModel, Goto
<1>2. /\ memory' = Append(memory, User(r)) /\ Len(memory') = Len(memory) + 1
      /\ memory'[Len(memory) + 1] = User(r)
      /\ \A i \in 1..Len(memory) : memory'[i] = memory[i]
      /\ WellFormed(memory') /\ WellFormed(disk')
      /\ BeginsWithUser(memory') /\ BeginsWithUser(disk')
      /\ ToolsFollowTheirCall' /\ UncutCallsAreAnswered'
      /\ failures' = 0 => failures = 0 /\ disk' = memory'
      /\ \A i \in 1..Len(memory) :
           memory[i].role = "assistant" /\ Answered(memory, i) => Answered(memory', i)
  BY <1>1, AppendKeeps
<1>3. pc \in [Runs -> {"idle", "turn", "model", "calls", "done"}] /\ Len(memory) \in Nat
  BY CalmFacts
<1>4. /\ pc'[r] = "turn" /\ \A q \in Runs \ {r} : pc'[q] = pc[q]
  BY <1>1, <1>3
<1>5. \A q \in Runs : pc[q] \in {"idle", "done"}
  BY <1>1, <1>4 DEF OneAtATime, Ended
<1>6. Alone'
  BY <1>2, <1>3, <1>4, <1>5 DEF Alone, Ended
<1>7. CallsOpen'
  BY <1>4, <1>5 DEF CallsOpen
<1>8. AllAnswered'
  <2> SUFFICES ASSUME failures' = 0, NEW i \in 1..(Len(memory) + 1),
                      memory'[i].role = "assistant", memory'[i].run \notin cut
               PROVE  Answered(memory', i)
    BY <1>1, <1>2 DEF AllAnswered
  <2>1. i \in 1..Len(memory)
    BY <1>1, <1>2, <1>3
  <2>2. memory[i].run \in Runs
    BY <1>2, <2>1, CalmFacts, MessageParts
  <2>3. Answered(memory, i)
    BY <1>2, <1>5, <2>1, <2>2 DEF CalmInv, AllAnswered
  <2> QED
    BY <1>2, <2>1, <2>3
<1> QED
  BY <1>2, <1>6, <1>7, <1>8 DEF CalmInv

\* The first message of what is sent is the system prompt or a user's; the
\* list is complete, since nothing of a run that is asking is left to do.
LEMMA SendKeepsCalm ==
  ASSUME CalmInv, NEW r \in Runs, SendTurn(r), HistoryTypes'
  PROVE  CalmInv'
<1>1. /\ pc[r] = "turn" /\ UNCHANGED <<memory, disk, todo, stop, cut, failures>>
      /\ \/ UNCHANGED <<turn, sent>> /\ pc' = [pc EXCEPT ![r] = "done"]
         \/ /\ sent' = Window(Listed) /\ pc' = [pc EXCEPT ![r] = "model"]
            /\ turn' = [turn EXCEPT ![r] = @ + 1]
  BY DEF SendTurn, Goto, bounds, Messages, Listed
<1>2. /\ pc \in [Runs -> {"idle", "turn", "model", "calls", "done"}]
      /\ turn \in [Runs -> 0..MaxTurns] /\ memory \in Seq(Stored) /\ Len(memory) \in Nat
      /\ \A i \in 1..Len(memory) : memory[i] \in Stored
  BY CalmFacts
<1>3. /\ pc'[r] \in {"done", "model"} /\ \A q \in Runs \ {r} : pc'[q] = pc[q]
      /\ \A q \in Runs \ {r} : turn'[q] = turn[q]
  BY <1>1, <1>2
<1>4. ~Ended(r) /\ \A q \in Runs \ {r} : pc[q] \in {"idle", "done"}
  BY <1>1, OthersRest DEF Ended, CalmInv
<1>5. Len(memory) >= 1
  BY <1>4 DEF CalmInv, Alone
<1>6. Alone' /\ CallsOpen'
  BY <1>1, <1>3, <1>4, <1>5 DEF Alone, CallsOpen, Ended
<1>7. failures = 0 => \A i \in 1..Len(memory) :
        memory[i].role = "assistant" /\ memory[i].run \notin cut => Answered(memory, i)
  <2> SUFFICES ASSUME failures = 0, NEW i \in 1..Len(memory),
                      memory[i].role = "assistant", memory[i].run \notin cut
               PROVE  Answered(memory, i)
    OBVIOUS
  <2>1. memory[i].run \in Runs
    BY <1>2, MessageParts
  <2>2. pc[memory[i].run] # "calls"
    BY <1>1, <1>4, <2>1
  <2> QED
    BY <2>2 DEF CalmInv, AllAnswered
<1>8. AllAnswered'
  BY <1>1, <1>7 DEF AllAnswered, CalmInv
<1>9. WellFormed(memory') /\ WellFormed(disk') /\ BeginsWithUser(memory') /\ BeginsWithUser(disk')
  BY <1>1 DEF CalmInv
<1>10. CASE sent' = sent
  BY <1>1, <1>6, <1>8, <1>10, RestKeeps DEF CalmInv
<1>11. CASE sent' = Window(Listed)
  <2>1. Listed \in Seq(MessageType) /\ Len(Listed) \in Nat /\ MaxContext \in Nat
    BY <1>2, ListedAt, HistoryAssumption
  <2>2. ToolsFollowTheirCall'
    <3>1. CASE Len(Listed) > MaxContext
      <4>1. Len(sent') = MaxContext
        BY <1>11, <2>1, <3>1, WindowAt
      <4> QED
        BY <2>1, <4>1 DEF ToolsFollowTheirCall
    <3>2. CASE ~(Len(Listed) > MaxContext)
      <4>1. sent' = Listed
        BY <1>11, <3>2 DEF Window
      <4>2. WellFormed(sent')
        BY <1>2, <4>1, ListedWellFormed DEF CalmInv
      <4> QED
        BY <4>2 DEF ToolsFollowTheirCall
    <3> QED
      BY <3>1, <3>2
  <2>3. UncutCallsAreAnswered'
    <3>1. sent' \in Seq(MessageType)
      BY DEF HistoryTypes, TypeOK
    <3>2. DOMAIN sent' = 1..Len(sent')
      BY <3>1, LenProperties
    <3> SUFFICES ASSUME failures = 0, NEW i \in 1..Len(sent'),
                        sent'[i].role = "assistant", sent'[i].run \notin cut
                 PROVE  Answered(sent', i)
      BY <1>1, <3>2 DEF UncutCallsAreAnswered
    <3>3. /\ Len(Listed) >= 1 /\ Listed[1].role # "assistant"
          /\ \A j \in 1..Len(Listed) :
               Listed[j].role = "assistant" /\ Listed[j].run \notin cut =>
                 Listed[j].calls \in Nat /\ Answered(Listed, j)
      BY <1>2, <1>5, <1>7, ListedAnswered DEF CalmInv
    <3>4. \A j \in 1..Len(Listed) :
            Listed[j].role = "assistant" /\ Listed[j].run = Window(Listed)[i].run =>
              Listed[j].calls \in Nat /\ Answered(Listed, j)
      BY <1>11, <3>3
    <3>5. i \in 1..Len(Window(Listed)) /\ Window(Listed)[i].role = "assistant"
      BY <1>11
    <3>6. Answered(Window(Listed), i)
      BY <2>1, <3>3, <3>4, <3>5, WindowAnswered
    <3> QED
      BY <1>11, <3>6
  <2> QED
    BY <1>6, <1>8, <1>9, <2>2, <2>3 DEF CalmInv
<1> QED
  BY <1>1, <1>10, <1>11

\* With or without calls, a reply is answered but for the calls to come.
LEMMA ReplyKeepsCalm ==
  ASSUME CalmInv, NEW r \in Runs, FinalReply(r) \/ ToolReply(r), HistoryTypes'
  PROVE  CalmInv'
<1>1. PICK n \in 0..MaxCalls :
        /\ AppendMessage(Assistant(r, n)) /\ pc[r] = "model"
        /\ UNCHANGED <<turn, stop, sent, cut>>
        /\ \/ n = 0 /\ pc' = [pc EXCEPT ![r] = "done"] /\ todo' = todo
           \/ pc' = [pc EXCEPT ![r] = "calls"] /\ todo' = [todo EXCEPT ![r] = n]
  <2>1. MaxCalls \in Nat
    BY HistoryAssumption
  <2>2. CASE FinalReply(r)
    <3>1. 0 \in 0..MaxCalls
      BY <2>1
    <3> QED
      BY <2>2, <3>1 DEF FinalReply, Goto
  <2>3. CASE ToolReply(r)
    <3>1. \A n \in 1..MaxCalls : n \in 0..MaxCalls
      BY <2>1
    <3> QED
      BY <2>3, <3>1 DEF ToolReply, Goto
  <2> QED
    BY <2>2, <2>3
<1>2. /\ pc \in [Runs -> {"idle", "turn", "model", "calls", "done"}] /\ turn[r] \in 1..MaxTurns
      /\ todo \in [Runs -> 0..MaxCalls] /\ memory \in Seq(Stored) /\ Len(memory) \in Nat
      /\ MaxCalls \in Nat
      /\ \A i \in 1..Len(memory) : memory[i] \in Stored
  BY <1>1, CalmFacts, HistoryAssumption DEF HistoryTypes
<1> DEFINE m == Assistant(r, n)
<1>3. /\ m \in Stored /\ m.role = "assistant" /\ m.run = r /\ m.turn = turn[r] /\ m.calls = n
  BY <1>2, NewMessages
<1>4. ~Ended(r) /\ \A q \in Runs \ {r} : pc[q] \in {"idle", "done"}
  BY <1>1, OthersRest DEF Ended, CalmInv
<1>5. Len(memory) >= 1
  BY <1>4 DEF CalmInv, Alone
<1>6. AppendMessage(m) /\ sent' = sent /\ cut' = cut
  BY <1>1
<1> HIDE DEF m
<1>7. /\ memory' = Append(memory, m) /\ Len(memory') = Len(memory) + 1
      /\ memory'[Len(memory) + 1] = m
      /\ \A i \in 1..Len(memory) : memory'[i] = memory[i]
      /\ WellFormed(memory') /\ WellFormed(disk')
      /\ BeginsWithUser(memory') /\ BeginsWithUser(disk')
      /\ ToolsFollowTheirCall' /\ UncutCallsAreAnswered'
      /\ failures' = 0 => failures = 0 /\ disk' = memory'
      /\ \A i \in 1..Len(memory) :
           memory[i].role = "assistant" /\ Answered(memory, i) => Answered(memory', i)
  BY <1>3, <1>5, <1>6, AppendKeeps
<1>8. /\ \A q \in Runs \ {r} : pc'[q] = pc[q]
      /\ \/ n = 0 /\ pc'[r] = "done"
         \/ pc'[r] = "calls" /\ todo'[r] = n
  BY <1>1, <1>2
<1>9. Alone'
  <2>1. \A q \in Runs : ~Ended(q)' => q = r
    BY <1>4, <1>8 DEF Ended
  <2>2. Len(memory') >= 1
    BY <1>2, <1>7
  <2> QED
    BY <2>1, <2>2 DEF Alone
<1>10. Open(memory', Len(memory) + 1, r, turn[r], n)
  BY <1>2, <1>3, <1>7, Opens
<1>11. CallsOpen'
  <2> SUFFICES ASSUME NEW q \in Runs, pc'[q] = "calls"
               PROVE  \E k \in 1..Len(memory') : Open(memory', k, q, turn'[q], todo'[q])
    BY DEF CallsOpen
  <2>1. q = r
    BY <1>4, <1>8
  <2>2. todo'[q] = n /\ turn'[q] = turn[r] /\ Len(memory) + 1 \in 1..Len(memory')
    BY <1>1, <1>2, <1>7, <1>8, <2>1
  <2> QED
    BY <1>10, <2>1, <2>2
<1>12. AllAnswered'
  <2>1. ASSUME failures' = 0, NEW i \in 1..(Len(memory) + 1),
               memory'[i].role = "assistant", memory'[i].run \notin cut
        PROVE  \/ Answered(memory', i)
               \/ /\ pc'[memory'[i].run] = "calls"
                  /\ Open(memory', i, memory'[i].run, turn'[memory'[i].run], todo'[memory'[i].run])
    <3>1. CASE i \in 1..Len(memory)
      <4>1. memory[i].run \in Runs /\ memory[i].role = "assistant"
        BY <1>2, <1>7, <2>1, <3>1, MessageParts
      <4>2. pc[memory[i].run] # "calls"
        BY <1>1, <1>4, <4>1
      <4>3. Answered(memory, i)
        BY <1>7, <2>1, <3>1, <4>1, <4>2 DEF CalmInv, AllAnswered
      <4> QED
        BY <1>7, <3>1, <4>1, <4>3
    <3>2. CASE i = Len(memory) + 1
      <4>1. memory'[i] = m
        BY <1>7, <3>2
      <4>2. CASE n = 0
        <5>1. \A l \in 1..memory'[i].calls : FALSE
          BY <1>3, <4>1, <4>2
        <5> QED
          BY <5>1 DEF Answered
      <4>3. CASE pc'[r] = "calls" /\ todo'[r] = n
        BY <1>1, <1>3, <1>10, <3>2, <4>1, <4>3
      <4> QED
        BY <1>8, <4>2, <4>3
    <3> QED
      BY <1>2, <3>1, <3>2
  <2> QED
    BY <1>6, <1>7, <2>1 DEF AllAnswered
<1> QED
  BY <1>7, <1>9, <1>11, <1>12 DEF CalmInv

\* The result of a call follows the reply, and the calls that are done before it.
LEMMA ResultKeepsCalm ==
  ASSUME CalmInv, NEW r \in Runs, CallTool(r), HistoryTypes'
  PROVE  CalmInv'
<1>1. /\ pc[r] = "calls" /\ todo[r] > 0 /\ todo' = [todo EXCEPT ![r] = @ - 1]
      /\ AppendMessage(ToolAnswer(r, todo[r])) /\ UNCHANGED <<pc, turn, stop, sent, cut>>
  BY DEF CallTool
<1>2. /\ pc \in [Runs -> {"idle", "turn", "model", "calls", "done"}] /\ turn[r] \in 1..MaxTurns
      /\ todo \in [Runs -> 0..MaxCalls] /\ memory \in Seq(Stored) /\ Len(memory) \in Nat
      /\ MaxCalls \in Nat
      /\ \A i \in 1..Len(memory) : memory[i] \in Stored
  BY <1>1, CalmFacts, HistoryAssumption DEF HistoryTypes
<1> DEFINE m == ToolAnswer(r, todo[r])
<1>3. todo[r] \in 1..MaxCalls /\ todo[r] \in Nat \ {0}
  BY <1>1, <1>2
<1>4. /\ m \in Stored /\ m.role = "tool" /\ m.run = r /\ m.turn = turn[r] /\ m.left = todo[r]
  BY <1>2, <1>3, NewMessages
<1>5. /\ todo'[r] = todo[r] - 1 /\ \A q \in Runs \ {r} : pc[q] \in {"idle", "done"}
  BY <1>1, <1>2, OthersRest DEF Ended, CalmInv
<1>6. AppendMessage(m) /\ sent' = sent /\ cut' = cut
  BY <1>1
<1> HIDE DEF m
<1>7. PICK k \in 1..Len(memory) : Open(memory, k, r, turn[r], todo[r])
  BY <1>1 DEF CalmInv, CallsOpen
<1>8. /\ FollowsCall(Append(memory, m), Len(memory) + 1)
      /\ \A j \in 1..Len(memory) : Open(memory, j, r, turn[r], todo[r]) =>
           Open(Append(memory, m), j, r, turn[r], todo[r] - 1)
  BY <1>2, <1>3, <1>4, <1>7, StaysOpen
<1>9. Len(memory) >= 1
  BY <1>2, <1>7
<1>10. /\ memory' = Append(memory, m) /\ Len(memory') = Len(memory) + 1
       /\ memory'[Len(memory) + 1] = m
       /\ \A i \in 1..Len(memory) : memory'[i] = memory[i]
       /\ WellFormed(memory') /\ WellFormed(disk')
       /\ BeginsWithUser(memory') /\ BeginsWithUser(disk')
       /\ ToolsFollowTheirCall' /\ UncutCallsAreAnswered'
       /\ failures' = 0 => failures = 0 /\ disk' = memory'
       /\ \A i \in 1..Len(memory) :
            memory[i].role = "assistant" /\ Answered(memory, i) => Answered(memory', i)
  BY <1>4, <1>6, <1>8, <1>9, AppendKeeps
<1>11. Alone'
  BY <1>1, <1>2, <1>5, <1>9, <1>10 DEF Alone, Ended
<1>12. CallsOpen'
  <2> SUFFICES ASSUME NEW q \in Runs, pc'[q] = "calls"
               PROVE  \E j \in 1..Len(memory') : Open(memory', j, q, turn'[q], todo'[q])
    BY DEF CallsOpen
  <2>1. q = r
    BY <1>1, <1>5
  <2>2. k \in 1..Len(memory') /\ Open(memory', k, r, turn'[r], todo'[r])
    BY <1>1, <1>2, <1>5, <1>7, <1>8, <1>10
  <2> QED
    BY <2>1, <2>2
<1>13. AllAnswered'
  <2>1. ASSUME failures' = 0, NEW i \in 1..(Len(memory) + 1),
               memory'[i].role = "assistant", memory'[i].run \notin cut
        PROVE  \/ Answered(memory', i)
               \/ /\ pc'[memory'[i].run] = "calls"
                  /\ Open(memory', i, memory'[i].run, turn'[memory'[i].run], todo'[memory'[i].run])
    <3>1. i \in 1..Len(memory)
      BY <1>2, <1>4, <1>10, <2>1
    <3>2. memory[i].run \in Runs /\ memory[i].role = "assistant" /\ memory'[i] = memory[i]
      BY <1>2, <1>10, <2>1, <3>1, MessageParts
    <3>3. CASE Answered(memory, i)
      BY <1>10, <3>1, <3>2, <3>3
    <3>4. CASE ~Answered(memory, i)
      <4>1. /\ pc[memory[i].run] = "calls"
            /\ Open(memory, i, memory[i].run, turn[memory[i].run], todo[memory[i].run])
        BY <1>10, <2>1, <3>1, <3>2, <3>4 DEF CalmInv, AllAnswered
      <4>2. memory[i].run = r
        BY <1>5, <3>2, <4>1
      <4>3. Open(memory', i, r, turn[r], todo[r] - 1)
        BY <1>8, <1>10, <3>1, <4>1, <4>2
      <4> QED
        BY <1>1, <1>5, <3>2, <4>2, <4>3
    <3> QED
      BY <3>3, <3>4
  <2> QED
    BY <1>6, <1>10, <2>1 DEF AllAnswered
<1> QED
  BY <1>10, <1>11, <1>12, <1>13 DEF CalmInv

\* A run that leaves its calls, or has none: those that are left are cut.
LEMMA LeaveKeepsCalm ==
  ASSUME CalmInv, NEW r \in Runs, NoReply(r) \/ EndOfCalls(r) \/ AbandonCalls(r), HistoryTypes'
  PROVE  CalmInv'
<1>1. /\ UNCHANGED <<memory, disk, turn, todo, stop, sent, failures>>
      /\ pc[r] \in {"model", "calls"} /\ cut \subseteq cut'
      /\ pc' = [pc EXCEPT ![r] = "turn"] \/ pc' = [pc EXCEPT ![r] = "done"]
      /\ pc[r] = "calls" => todo[r] = 0 \/ r \in cut'
  BY DEF NoReply, EndOfCalls, AbandonCalls, Goto, bounds
<1>2. /\ pc \in [Runs -> {"idle", "turn", "model", "calls", "done"}]
      /\ memory \in Seq(Stored) /\ \A i \in 1..Len(memory) : memory[i] \in Stored
  BY CalmFacts
<1>3. /\ pc'[r] \in {"turn", "done"} /\ \A q \in Runs \ {r} : pc'[q] = pc[q]
  BY <1>1, <1>2
<1>4. ~Ended(r) /\ \A q \in Runs \ {r} : pc[q] \in {"idle", "done"}
  BY <1>1, OthersRest DEF Ended, CalmInv
<1>5. Alone' /\ CallsOpen'
  BY <1>1, <1>3, <1>4 DEF CalmInv, Alone, CallsOpen, Ended
<1>6. AllAnswered'
  <2>1. ASSUME failures = 0, NEW i \in 1..Len(memory),
               memory[i].role = "assistant", memory[i].run \notin cut'
        PROVE  Answered(memory, i)
    <3>1. memory[i].run \in Runs
      BY <1>2, MessageParts
    <3>2. CASE ~Answered(memory, i)
      <4>1. /\ pc[memory[i].run] = "calls"
            /\ Open(memory, i, memory[i].run, turn[memory[i].run], todo[memory[i].run])
        BY <1>1, <2>1, <3>2 DEF CalmInv, AllAnswered
      <4>2. memory[i].run = r /\ todo[r] = 0
        BY <1>1, <1>4, <2>1, <3>1, <4>1
      <4>3. Open(memory, i, r, turn[r], 0)
        BY <4>1, <4>2
      <4> QED
        BY <1>2, <4>3, OpenIsAnswered
    <3> QED
      BY <3>2
  <2> QED
    BY <1>1, <2>1 DEF CalmInv, AllAnswered
<1> QED
  BY <1>1, <1>5, <1>6, RestKeeps DEF CalmInv

\* Nobody is at work when the history is cleared.
LEMMA ClearKeepsCalm ==
  ASSUME CalmInv, Clear, OneAtATime, HistoryTypes'
  PROVE  CalmInv'
<1>1. /\ memory' = <<>> /\ UNCHANGED <<pc, turn, todo, stop, sent, cut>>
      /\ clears \in Nat /\ clears' = clears + 1
      /\ \/ disk' = memory' /\ failures' = failures
         \/ failures' = failures + 1 /\ disk' = disk
  BY DEF Clear, Persist, CalmInv, HistoryTypes, TypeOK
<1>2. \A q \in Runs : pc[q] \in {"idle", "done"}
  BY <1>1 DEF OneAtATime, Ended
<1>3. Len(memory') = 0 /\ DOMAIN memory' = 1..Len(memory')
  <2>1. memory' \in Seq(Stored)
    BY DEF HistoryTypes, TypeOK, Stored
  <2> QED
    BY <1>1, <2>1, NoneLong, LenProperties
<1>4. WellFormed(memory') /\ BeginsWithUser(memory')
  BY <1>3 DEF WellFormed, BeginsWithUser
<1>5. WellFormed(disk') /\ BeginsWithUser(disk')
  BY <1>1, <1>4 DEF CalmInv
<1>6. failures' = 0 => failures = 0 /\ disk' = memory'
  BY <1>1, CalmFacts
<1>7. Alone' /\ CallsOpen'
  BY <1>1, <1>2 DEF Alone, CallsOpen, Ended
<1>8. AllAnswered'
  BY <1>3, <1>6 DEF AllAnswered
<1>9. ToolsFollowTheirCall' /\ UncutCallsAreAnswered'
  BY <1>1, <1>6 DEF CalmInv, ToolsFollowTheirCall, UncutCallsAreAnswered
<1> QED
  BY <1>4, <1>5, <1>7, <1>8, <1>9 DEF CalmInv

\* A process that starts again finds the file, which no save that failed has
\* left behind, and ends what was at work.
LEMMA RestartKeepsCalm ==
  ASSUME CalmInv, Restart, HistoryTypes'
  PROVE  CalmInv'
<1>1. /\ memory' = disk /\ UNCHANGED <<disk, turn, todo, stop, sent, failures>>
      /\ cut' = cut \cup {r \in Runs : ~Ended(r)}
      /\ pc' = [r \in Runs |-> IF Ended(r) THEN pc[r] ELSE "done"]
  BY DEF Restart
<1>2. \A q \in Runs : pc'[q] \in {"idle", "done"}
  BY <1>1 DEF Ended
<1>3. Alone' /\ CallsOpen'
  BY <1>2 DEF Alone, CallsOpen, Ended
<1>4. AllAnswered'
  <2>1. ASSUME failures = 0, NEW i \in 1..Len(memory),
               memory[i].role = "assistant", memory[i].run \notin cut'
        PROVE  Answered(memory, i)
    <3>1. memory[i].run \in Runs
      BY CalmFacts, <2>1, MessageParts
    <3>2. Ended(memory[i].run) /\ memory[i].run \notin cut
      BY <1>1, <2>1, <3>1
    <3>3. pc[memory[i].run] # "calls"
      BY <3>2 DEF Ended
    <3> QED
      BY <2>1, <3>2, <3>3 DEF CalmInv, AllAnswered
  <2>2. failures = 0 => memory' = memory /\ disk' = memory'
    BY <1>1 DEF CalmInv, AllAnswered
  <2> QED
    BY <1>1, <2>1, <2>2 DEF AllAnswered
<1>5. /\ WellFormed(memory') /\ WellFormed(disk')
      /\ BeginsWithUser(memory') /\ BeginsWithUser(disk')
  BY <1>1 DEF CalmInv
<1>6. ToolsFollowTheirCall' /\ UncutCallsAreAnswered'
  BY <1>1 DEF CalmInv, ToolsFollowTheirCall, UncutCallsAreAnswered
<1> QED
  BY <1>3, <1>4, <1>5, <1>6 DEF CalmInv

LEMMA CalmNext == CalmInv /\ [Next /\ OneAtATime]_vars => CalmInv'
<1> SUFFICES ASSUME CalmInv, [Next /\ OneAtATime]_vars PROVE CalmInv'
  OBVIOUS
<1>1. HistoryTypes'
  BY HistoryTypesNext DEF CalmInv
<1>2. CASE UNCHANGED vars
  BY <1>1, <1>2, RestKeeps
    DEF vars, bounds, CalmInv, Alone, CallsOpen, AllAnswered, Ended
<1>3. ASSUME NEW r \in Runs, Interrupt(r) PROVE CalmInv'
  BY <1>1, <1>3, RestKeeps
    DEF Interrupt, bounds, CalmInv, Alone, CallsOpen, AllAnswered, Ended
<1>4. ASSUME NEW r \in Runs, Run(r), OneAtATime PROVE CalmInv'
  BY <1>1, <1>4, AskKeepsCalm, SendKeepsCalm, ReplyKeepsCalm, ResultKeepsCalm, LeaveKeepsCalm
    DEF Run
<1> QED
  BY <1>1, <1>2, <1>3, <1>4, ClearKeepsCalm, RestartKeepsCalm DEF Next

-----------------------------------------------------------------------------
(* What a run finds of itself, among any number of runs.                   *)

InOrder(list, r) == \A i, j \in Own(list, r) : i < j => Precedes(list[i], list[j])

OfTurn(said, t) == {m \in said : m.role # "user" /\ m.turn = t}

\* An exchange of which the last results are left.
Part(r, t, n, left) ==
    {[role |-> "assistant", run |-> r, turn |-> t, calls |-> n]}
    \cup [role : {"tool"}, run : {r}, turn : {t}, left : (left + 1)..n]

\* The turn t of the run r is over, has begun, or is at its calls.
Stands(r, t) ==
    LET of == OfTurn(Said(memory, r), t) IN
    \/ (t < turn[r] \/ pc[r] = "turn") /\ \E n \in 1..MaxCalls : of = Exchange(r, t, n)
    \/ t = turn[r] /\ pc[r] = "model" /\ of = {}
    \/ t = turn[r] /\ pc[r] = "calls" /\ \E n \in todo[r]..MaxCalls : n >= 1 /\ of = Part(r, t, n, todo[r])

Seen(r) ==
    /\ pc[r] = "idle" => turn[r] = 0 /\ Said(memory, r) = {} /\ Said(disk, r) = {}
    /\ pc[r] \in {"turn", "model", "calls"} =>
         /\ InOrder(memory, r) /\ User(r) \in Said(memory, r)
         /\ \A t \in 1..turn[r] : Stands(r, t)
         /\ \A m \in Said(memory, r) : m.role # "user" => m.turn <= turn[r]

CrowdInv == HistoryTypes /\ (clears = 0 => \A r \in Runs : Seen(r))

LEMMA MessagesSaid ==
  ASSUME NEW list \in Seq(Stored), NEW r
  PROVE  /\ Own(list, r) = {i \in 1..Len(list) : list[i].run = r}
         /\ \A m \in Said(list, r) : m \in Stored /\ m.run = r
<1>1. DOMAIN list = 1..Len(list) /\ \A i \in 1..Len(list) : list[i] \in Stored
  BY LenProperties, ElementOfSeq
<1>2. \A i \in 1..Len(list) : list[i].role # "system"
  BY <1>1, MessageParts
<1>3. Own(list, r) = {i \in 1..Len(list) : list[i].run = r}
  BY <1>1, <1>2 DEF Own
<1> QED
  BY <1>1, <1>3 DEF Said

LEMMA SaidGrows ==
  ASSUME NEW list \in Seq(Stored), NEW m \in Stored, NEW r
  PROVE  /\ m.run = r => Said(Append(list, m), r) = Said(list, r) \cup {m}
         /\ m.run # r => Said(Append(list, m), r) = Said(list, r)
         /\ InOrder(list, r) /\ (m.run = r => \A x \in Said(list, r) : Precedes(x, m))
              => InOrder(Append(list, m), r)
<1> DEFINE new == Append(list, m)
           last == Len(list) + 1
<1>1. /\ new \in Seq(Stored) /\ Len(list) \in Nat /\ Len(new) = last
      /\ \A i \in 1..Len(list) : new[i] = list[i]
      /\ new[last] = m
  BY Grown
<1>2. /\ Own(list, r) = {i \in 1..Len(list) : list[i].run = r}
      /\ Own(new, r) = {i \in 1..Len(new) : new[i].run = r}
  BY <1>1, MessagesSaid
<1> HIDE DEF new
<1>3. \A i : i \in 1..Len(new) <=> i \in 1..Len(list) \/ i = last
  BY <1>1
<1>4. \A i : i \in Own(new, r) <=> i \in Own(list, r) \/ (i = last /\ m.run = r)
  BY <1>1, <1>2, <1>3
<1>5. \A i \in Own(list, r) : i \in 1..Len(list) /\ new[i] = list[i] /\ list[i] \in Said(list, r)
  BY <1>1, <1>2 DEF Said
<1>6. ASSUME m.run = r PROVE Said(new, r) = Said(list, r) \cup {m}
  BY <1>1, <1>4, <1>5, <1>6 DEF Said
<1>7. ASSUME m.run # r PROVE Said(new, r) = Said(list, r)
  BY <1>1, <1>4, <1>5, <1>7 DEF Said
<1>8. ASSUME InOrder(list, r), m.run = r => \A x \in Said(list, r) : Precedes(x, m)
      PROVE  InOrder(new, r)
  <2> SUFFICES ASSUME NEW i \in Own(new, r), NEW j \in Own(new, r), i < j
               PROVE  Precedes(new[i], new[j])
    BY DEF InOrder
  <2>1. i \in Own(list, r)
    <3>1. ~(i = last)
      BY <1>1, <1>4, <1>5
    <3> QED
      BY <1>4, <3>1
  <2>2. CASE j \in Own(list, r)
    BY <1>5, <1>8, <2>1, <2>2 DEF InOrder
  <2>3. CASE j = last /\ m.run = r
    BY <1>1, <1>5, <1>8, <2>1, <2>3
  <2> QED
    BY <1>4, <2>2, <2>3
<1> QED
  BY <1>6, <1>7, <1>8 DEF new

\* A run that does not move sees what it saw.
LEMMA StillSeen ==
  ASSUME NEW r \in Runs, Seen(r), pc'[r] = pc[r], turn'[r] = turn[r], todo'[r] = todo[r],
         Said(memory', r) = Said(memory, r), InOrder(memory, r) => InOrder(memory', r),
         disk' = disk \/ disk' = memory'
  PROVE  Seen(r)'
<1>1. \A t \in 1..turn[r] : Stands(r, t) => Stands(r, t)'
  BY DEF Stands
<1>2. pc[r] = "idle" => Said(disk', r) = {}
  BY DEF Seen
<1>3. User(r)' = User(r)
  BY DEF User
<1> QED
  BY <1>1, <1>2, <1>3 DEF Seen

LEMMA PartGrows ==
  ASSUME NEW r, NEW t, NEW n \in Nat, NEW left \in 1..n
  PROVE  Part(r, t, n, left - 1) =
           Part(r, t, n, left) \cup {[role |-> "tool", run |-> r, turn |-> t, left |-> left]}
<1>1. ((left - 1) + 1)..n = ((left + 1)..n) \cup {left}
  OBVIOUS
<1> DEFINE Results(S) == [role : {"tool"}, run : {r}, turn : {t}, left : S]
           m == [role |-> "tool", run |-> r, turn |-> t, left |-> left]
<1>2. ASSUME NEW S PROVE Results(S \cup {left}) = Results(S) \cup {m}
  <2>1. m \in Results(S \cup {left}) /\ Results(S) \subseteq Results(S \cup {left})
    OBVIOUS
  <2>2. ASSUME NEW x \in Results(S \cup {left}) PROVE x = m \/ x \in Results(S)
    <3>1. x = [role |-> "tool", run |-> r, turn |-> t, left |-> x.left] /\ x.left \in S \cup {left}
      OBVIOUS
    <3> DEFINE l == x.left
    <3> HIDE DEF l
    <3>2. x = [role |-> "tool", run |-> r, turn |-> t, left |-> l] /\ l \in S \cup {left}
      BY <3>1 DEF l
    <3> QED
      BY <3>2
  <2> QED
    BY <2>1, <2>2
<1>3. Results(((left - 1) + 1)..n) = Results((left + 1)..n) \cup {m}
  BY <1>1, <1>2
<1> QED
  BY <1>3 DEF Part

LEMMA PartEnds ==
  ASSUME NEW r, NEW t, NEW n \in Nat
  PROVE  /\ Part(r, t, n, 0) = Exchange(r, t, n)
         /\ Part(r, t, n, n) = {[role |-> "assistant", run |-> r, turn |-> t, calls |-> n]}
<1>1. (0 + 1)..n = 1..n /\ (n + 1)..n = {}
  OBVIOUS
<1>2. [role : {"tool"}, run : {r}, turn : {t}, left : {}] = {}
  OBVIOUS
<1> QED
  BY <1>1, <1>2 DEF Part, Exchange

LEMMA CrowdInit == Init => CrowdInv
<1> SUFFICES ASSUME Init PROVE CrowdInv
  OBVIOUS
<1>1. memory \in Seq(Stored) /\ disk \in Seq(Stored) /\ Len(memory) = 0 /\ Len(disk) = 0
  BY HistoryTypesInit, NoneLong DEF Init, HistoryTypes, TypeOK, Stored
<1>2. \A r \in Runs : Own(memory, r) = {} /\ Own(disk, r) = {}
  <2>1. /\ \A r \in Runs : Own(memory, r) = {i \in 1..0 : memory[i].run = r}
        /\ \A r \in Runs : Own(disk, r) = {i \in 1..0 : disk[i].run = r}
    BY <1>1, MessagesSaid
  <2>2. 1..0 = {}
    OBVIOUS
  <2> QED
    BY <2>1, <2>2
<1>3. \A r \in Runs : Said(memory, r) = {} /\ Said(disk, r) = {}
  BY <1>2 DEF Said
<1> QED
  BY <1>3, HistoryTypesInit DEF Init, CrowdInv, Seen

\* What a message of the run r changes of what the runs see.
LEMMA MessageSeen ==
  ASSUME CrowdInv, clears = 0, NEW r \in Runs, NEW m \in Stored, m.run = r, AppendMessage(m),
         \A q \in Runs \ {r} : pc'[q] = pc[q] /\ turn'[q] = turn[q] /\ todo'[q] = todo[q]
  PROVE  /\ \A q \in Runs \ {r} : Seen(q)'
         /\ Said(memory', r) = Said(memory, r) \cup {m}
         /\ InOrder(memory, r) /\ (\A x \in Said(memory, r) : Precedes(x, m)) => InOrder(memory', r)
<1>1. memory \in Seq(Stored) /\ \A q \in Runs : Seen(q)
  BY DEF CrowdInv, HistoryTypes, TypeOK, Stored
<1>2. memory' = Append(memory, m) /\ (disk' = disk \/ disk' = memory')
  BY DEF AppendMessage, Persist
<1>3. ASSUME NEW q \in Runs \ {r} PROVE Seen(q)'
  <2>1. Said(memory', q) = Said(memory, q) /\ (InOrder(memory, q) => InOrder(memory', q))
    BY <1>1, <1>2, SaidGrows
  <2> QED
    BY <1>1, <1>2, <2>1, StillSeen
<1>4. /\ Said(Append(memory, m), r) = Said(memory, r) \cup {m}
      /\ InOrder(memory, r) /\ (\A x \in Said(memory, r) : Precedes(x, m))
           => InOrder(Append(memory, m), r)
  BY <1>1, SaidGrows
<1> QED
  BY <1>2, <1>3, <1>4

LEMMA CrowdNext == CrowdInv /\ [Next]_vars => CrowdInv'
<1> SUFFICES ASSUME CrowdInv, [Next]_vars, clears' = 0 PROVE \A r \in Runs : Seen(r)'
  BY HistoryTypesNext DEF CrowdInv
<1>1. /\ memory \in Seq(Stored) /\ disk \in Seq(Stored) /\ clears \in Nat
      /\ pc \in [Runs -> {"idle", "turn", "model", "calls", "done"}]
      /\ turn \in [Runs -> 0..MaxTurns] /\ todo \in [Runs -> 0..MaxCalls]
      /\ MaxTurns \in Nat /\ MaxCalls \in Nat
      /\ \A r \in Runs : pc[r] \in {"model", "calls"} => turn[r] \in 1..MaxTurns
  BY HistoryAssumption DEF CrowdInv, HistoryTypes, TypeOK, Stored
<1>2. ASSUME clears = 0, NEW r \in Runs
      PROVE  Seen(r) /\ \A m \in Said(memory, r) :
               m.run = r /\ (m.role # "user" => m.turn \in Nat)
  <2>1. \A m \in Said(memory, r) : m \in Stored /\ m.run = r
    BY <1>1, MessagesSaid
  <2>2. \A m \in Said(memory, r) : m.role # "user" => m.turn \in 1..MaxTurns
    BY <2>1, MessageParts
  <2> QED
    BY <1>1, <1>2, <2>1, <2>2 DEF CrowdInv
<1>3. ASSUME clears = 0, UNCHANGED <<memory, disk, pc, turn, todo>>
      PROVE  \A r \in Runs : Seen(r)'
  BY <1>2, <1>3, StillSeen
<1>4. ASSUME NEW r \in Runs, AskModel(r) PROVE \A q \in Runs : Seen(q)'
  <2>1. /\ AppendMessage(User(r)) /\ User(r) \in Stored /\ pc[r] = "idle" /\ clears = 0
        /\ pc' = [pc EXCEPT ![r] = "turn"] /\ UNCHANGED <<turn, todo>>
    BY <1>4, NewMessages DEF AskModel, Goto, AppendMessage
  <2>2. pc'[r] = "turn" /\ turn'[r] = 0 /\ User(r).run = r /\ User(r).role = "user" /\ User(r)' = User(r)
    BY <1>1, <1>2, <2>1 DEF User, Seen
  <2>3. \A q \in Runs \ {r} : pc'[q] = pc[q] /\ turn'[q] = turn[q] /\ todo'[q] = todo[q]
    BY <1>1, <2>1
  <2>4. Said(memory, r) = {} /\ InOrder(memory, r)
    BY <1>2, <2>1 DEF Seen, InOrder, Said
  <2>5. /\ \A q \in Runs \ {r} : Seen(q)'
        /\ Said(memory', r) = {User(r)} /\ InOrder(memory', r)
    BY <2>1, <2>2, <2>3, <2>4, MessageSeen
  <2>6. Seen(r)'
    BY <2>2, <2>5 DEF Seen
  <2> QED
    BY <2>5, <2>6
<1>5. ASSUME NEW r \in Runs, SendTurn(r) PROVE \A q \in Runs : Seen(q)'
  <2>1. /\ UNCHANGED <<memory, disk, todo>> /\ clears = 0 /\ pc[r] = "turn"
        /\ \/ turn' = turn /\ pc' = [pc EXCEPT ![r] = "done"]
           \/ turn' = [turn EXCEPT ![r] = @ + 1] /\ pc' = [pc EXCEPT ![r] = "model"]
    BY <1>5 DEF SendTurn, Goto, bounds
  <2>2. \A q \in Runs \ {r} : pc'[q] = pc[q] /\ turn'[q] = turn[q]
    BY <1>1, <2>1
  <2>3. \A q \in Runs \ {r} : Seen(q)'
    BY <1>2, <2>1, <2>2, StillSeen
  <2>4. CASE pc' = [pc EXCEPT ![r] = "done"]
    <3>1. pc'[r] = "done"
      BY <1>1, <2>4
    <3> QED
      BY <2>3, <3>1 DEF Seen
  <2>5. CASE turn' = [turn EXCEPT ![r] = @ + 1] /\ pc' = [pc EXCEPT ![r] = "model"]
    <3>1. pc'[r] = "model" /\ turn'[r] = turn[r] + 1 /\ turn[r] \in Nat /\ User(r)' = User(r)
      BY <1>1, <2>5 DEF User
    <3>2. /\ InOrder(memory, r) /\ User(r) \in Said(memory, r)
          /\ \A t \in 1..turn[r] : Stands(r, t)
          /\ \A m \in Said(memory, r) : m.role # "user" => m.turn \in Nat /\ m.turn <= turn[r]
      BY <1>2, <2>1 DEF Seen
    <3>3. OfTurn(Said(memory, r), turn[r] + 1) = {}
      BY <3>1, <3>2 DEF OfTurn
    <3>4. ASSUME NEW t \in 1..turn'[r] PROVE Stands(r, t)'
      <4>1. CASE t \in 1..turn[r]
        BY <2>1, <3>1, <3>2, <4>1 DEF Stands
      <4>2. CASE t = turn[r] + 1
        BY <2>1, <3>1, <3>3, <4>2 DEF Stands
      <4> QED
        BY <3>1, <4>1, <4>2
    <3>5. \A m \in Said(memory, r) : m.role # "user" => m.turn <= turn'[r]
      BY <3>1, <3>2
    <3> QED
      BY <2>1, <2>3, <3>1, <3>2, <3>4, <3>5 DEF Seen
  <2> QED
    BY <2>1, <2>4, <2>5
<1>6. ASSUME NEW r \in Runs, FinalReply(r) PROVE \A q \in Runs : Seen(q)'
  <2>1. /\ AppendMessage(Assistant(r, 0)) /\ clears = 0 /\ pc[r] = "model"
        /\ pc' = [pc EXCEPT ![r] = "done"] /\ UNCHANGED <<turn, todo>>
    BY <1>6 DEF FinalReply, Goto, AppendMessage
  <2>2. Assistant(r, 0) \in Stored /\ Assistant(r, 0).run = r
    <3>1. 0 \in 0..MaxCalls
      BY <1>1
    <3> QED
      BY <1>1, <2>1, <3>1, NewMessages
  <2>3. pc'[r] = "done" /\ \A q \in Runs \ {r} : pc'[q] = pc[q] /\ turn'[q] = turn[q] /\ todo'[q] = todo[q]
    BY <1>1, <2>1
  <2>4. \A q \in Runs \ {r} : Seen(q)'
    BY <2>1, <2>2, <2>3, MessageSeen
  <2> QED
    BY <2>3, <2>4 DEF Seen
<1>7. ASSUME NEW r \in Runs, NoReply(r) \/ AbandonCalls(r) PROVE \A q \in Runs : Seen(q)'
  <2>1. /\ UNCHANGED <<memory, disk, turn, todo>> /\ clears = 0 /\ pc' = [pc EXCEPT ![r] = "done"]
    BY <1>7 DEF NoReply, AbandonCalls, Goto, bounds
  <2>2. pc'[r] = "done" /\ \A q \in Runs \ {r} : pc'[q] = pc[q]
    BY <1>1, <2>1
  <2>3. \A q \in Runs \ {r} : Seen(q)'
    BY <1>2, <2>1, <2>2, StillSeen
  <2> QED
    BY <2>2, <2>3 DEF Seen
<1>8. ASSUME NEW r \in Runs, ToolReply(r) PROVE \A q \in Runs : Seen(q)'
  <2>1. PICK n \in 1..MaxCalls :
          /\ AppendMessage(Assistant(r, n)) /\ todo' = [todo EXCEPT ![r] = n]
          /\ clears = 0 /\ pc[r] = "model" /\ pc' = [pc EXCEPT ![r] = "calls"] /\ turn' = turn
    BY <1>8 DEF ToolReply, Goto, AppendMessage
  <2> DEFINE m == Assistant(r, n)
  <2>2. /\ m \in Stored /\ m.run = r /\ m.role = "assistant" /\ m.turn = turn[r]
        /\ m = [role |-> "assistant", run |-> r, turn |-> turn[r], calls |-> n]
    <3>1. n \in 0..MaxCalls
      BY <1>1
    <3> QED
      BY <1>1, <2>1, <3>1, NewMessages DEF Assistant
  <2>3. /\ pc'[r] = "calls" /\ todo'[r] = n /\ turn[r] \in Nat /\ User(r)' = User(r)
        /\ \A q \in Runs \ {r} : pc'[q] = pc[q] /\ turn'[q] = turn[q] /\ todo'[q] = todo[q]
    BY <1>1, <2>1 DEF User
  <2>4. AppendMessage(m)
    BY <2>1
  <2> HIDE DEF m
  <2>5. /\ InOrder(memory, r) /\ User(r) \in Said(memory, r)
        /\ \A t \in 1..turn[r] : Stands(r, t)
        /\ \A x \in Said(memory, r) : x.role # "user" => x.turn \in Nat /\ x.turn <= turn[r]
    BY <1>2, <2>1 DEF Seen
  <2>6. OfTurn(Said(memory, r), turn[r]) = {}
    <3>1. turn[r] \in 1..turn[r]
      BY <1>1, <2>1
    <3>2. Stands(r, turn[r])
      BY <2>5, <3>1
    <3> QED
      BY <2>1, <2>3, <3>2 DEF Stands
  <2>7. \A x \in Said(memory, r) : Precedes(x, m)
    <3> SUFFICES ASSUME NEW x \in Said(memory, r), x.role # "user" PROVE x.turn < m.turn
      BY <2>2 DEF Precedes
    <3>1. x.turn # turn[r]
      BY <2>6 DEF OfTurn
    <3> QED
      BY <2>2, <2>3, <2>5, <3>1
  <2>8. /\ \A q \in Runs \ {r} : Seen(q)'
        /\ Said(memory', r) = Said(memory, r) \cup {m} /\ InOrder(memory', r)
    BY <2>1, <2>2, <2>3, <2>4, <2>5, <2>7, MessageSeen
  <2>9. ASSUME NEW t \in 1..turn'[r] PROVE Stands(r, t)'
    <3>1. CASE t < turn[r]
      <4>1. Stands(r, t)
        BY <2>1, <2>5
      <4>2. OfTurn(Said(memory', r), t) = OfTurn(Said(memory, r), t)
        BY <2>2, <2>3, <2>8, <3>1 DEF OfTurn
      <4> QED
        BY <2>1, <2>3, <3>1, <4>1, <4>2 DEF Stands
    <3>2. CASE t = turn[r]
      <4>1. OfTurn(Said(memory', r), t) = {m}
        BY <2>2, <2>6, <2>8, <3>2 DEF OfTurn
      <4>2. OfTurn(Said(memory', r), t) = Part(r, t, n, n)
        BY <2>2, <3>2, <4>1, PartEnds
      <4>3. n \in n..MaxCalls /\ n >= 1
        BY <1>1
      <4> QED
        BY <2>1, <2>3, <3>2, <4>2, <4>3 DEF Stands
    <3> QED
      BY <2>1, <2>3, <3>1, <3>2
  <2>10. \A x \in Said(memory', r) : x.role # "user" => x.turn <= turn'[r]
    BY <2>1, <2>2, <2>3, <2>5, <2>8
  <2> QED
    BY <2>3, <2>5, <2>8, <2>9, <2>10 DEF Seen
<1>9. ASSUME NEW r \in Runs, CallTool(r) PROVE \A q \in Runs : Seen(q)'
  <2>1. /\ AppendMessage(ToolAnswer(r, todo[r])) /\ todo' = [todo EXCEPT ![r] = @ - 1]
        /\ clears = 0 /\ pc[r] = "calls" /\ todo[r] > 0 /\ pc' = pc /\ turn' = turn
    BY <1>9 DEF CallTool, AppendMessage
  <2> DEFINE m == ToolAnswer(r, todo[r])
  <2>2. /\ m \in Stored /\ m.run = r /\ m.role = "tool" /\ m.turn = turn[r] /\ m.left = todo[r]
        /\ m = [role |-> "tool", run |-> r, turn |-> turn[r], left |-> todo[r]]
    <3>1. todo[r] \in 1..MaxCalls
      BY <1>1, <2>1
    <3> QED
      BY <1>1, <2>1, <3>1, NewMessages DEF ToolAnswer
  <2>3. /\ todo'[r] = todo[r] - 1 /\ turn[r] \in Nat /\ todo[r] \in Nat /\ User(r)' = User(r)
        /\ \A q \in Runs \ {r} : pc'[q] = pc[q] /\ turn'[q] = turn[q] /\ todo'[q] = todo[q]
    BY <1>1, <2>1 DEF User
  <2>4. AppendMessage(m)
    BY <2>1
  <2> HIDE DEF m
  <2>5. /\ InOrder(memory, r) /\ User(r) \in Said(memory, r)
        /\ \A t \in 1..turn[r] : Stands(r, t)
        /\ \A x \in Said(memory, r) : x.role # "user" => x.turn \in Nat /\ x.turn <= turn[r]
    BY <1>2, <2>1 DEF Seen
  <2>6. PICK n \in todo[r]..MaxCalls :
          n >= 1 /\ OfTurn(Said(memory, r), turn[r]) = Part(r, turn[r], n, todo[r])
    <3>1. turn[r] \in 1..turn[r]
      BY <1>1, <2>1
    <3>2. Stands(r, turn[r])
      BY <2>5, <3>1
    <3> QED
      BY <2>1, <2>3, <3>2 DEF Stands
  <2>7. \A x \in Said(memory, r) : Precedes(x, m)
    <3> SUFFICES ASSUME NEW x \in Said(memory, r), x.role # "user", ~(x.turn < m.turn)
                 PROVE  x.turn = m.turn /\ (x.role = "assistant" \/ m.left < x.left)
      BY <2>2 DEF Precedes
    <3>1. x.turn = turn[r]
      BY <2>2, <2>3, <2>5
    <3>2. x \in Part(r, turn[r], n, todo[r])
      BY <2>6, <3>1 DEF OfTurn
    <3>3. x.role = "assistant" \/ x.left \in (todo[r] + 1)..n
      BY <3>2 DEF Part
    <3> QED
      BY <2>2, <2>3, <2>6, <3>1, <3>3
  <2>8. /\ \A q \in Runs \ {r} : Seen(q)'
        /\ Said(memory', r) = Said(memory, r) \cup {m} /\ InOrder(memory', r)
    BY <2>1, <2>2, <2>3, <2>4, <2>5, <2>7, MessageSeen
  <2>9. ASSUME NEW t \in 1..turn'[r] PROVE Stands(r, t)'
    <3>1. CASE t < turn[r]
      <4>1. Stands(r, t)
        BY <2>1, <2>5
      <4>2. OfTurn(Said(memory', r), t) = OfTurn(Said(memory, r), t)
        BY <2>2, <2>3, <2>8, <3>1 DEF OfTurn
      <4> QED
        BY <2>1, <2>3, <3>1, <4>1, <4>2 DEF Stands
    <3>2. CASE t = turn[r]
      <4>1. OfTurn(Said(memory', r), t) = OfTurn(Said(memory, r), t) \cup {m}
        BY <2>2, <2>8, <3>2 DEF OfTurn
      <4>2. n \in Nat /\ todo[r] \in 1..n /\ n \in (todo[r] - 1)..MaxCalls
        BY <1>1, <2>1, <2>3, <2>6
      <4>3. OfTurn(Said(memory', r), t) = Part(r, t, n, todo[r] - 1)
        BY <2>2, <2>6, <3>2, <4>1, <4>2, PartGrows
      <4> QED
        BY <2>1, <2>3, <2>6, <3>2, <4>2, <4>3 DEF Stands
    <3> QED
      BY <2>1, <2>3, <3>1, <3>2
  <2>10. \A x \in Said(memory', r) : x.role # "user" => x.turn <= turn'[r]
    BY <2>1, <2>2, <2>3, <2>5, <2>8
  <2> QED
    BY <2>1, <2>3, <2>5, <2>8, <2>9, <2>10 DEF Seen
<1>10. ASSUME NEW r \in Runs, EndOfCalls(r) PROVE \A q \in Runs : Seen(q)'
  <2>1. /\ UNCHANGED <<memory, disk, turn, todo>> /\ clears = 0 /\ pc[r] = "calls" /\ todo[r] = 0
        /\ pc' = [pc EXCEPT ![r] = "turn"]
    BY <1>10 DEF EndOfCalls, Goto, bounds
  <2>2. pc'[r] = "turn" /\ User(r)' = User(r) /\ \A q \in Runs \ {r} : pc'[q] = pc[q]
    BY <1>1, <2>1 DEF User
  <2>3. \A q \in Runs \ {r} : Seen(q)'
    BY <1>2, <2>1, <2>2, StillSeen
  <2>4. ASSUME NEW t \in 1..turn[r] PROVE Stands(r, t)'
    <3>1. Stands(r, t)
      BY <1>2, <2>1 DEF Seen
    <3>2. \E n \in 1..MaxCalls : OfTurn(Said(memory, r), t) = Exchange(r, t, n)
      <4>1. CASE \E n \in todo[r]..MaxCalls : n >= 1 /\ OfTurn(Said(memory, r), t) = Part(r, t, n, todo[r])
        <5>1. PICK n \in 0..MaxCalls : n >= 1 /\ OfTurn(Said(memory, r), t) = Part(r, t, n, 0)
          BY <2>1, <4>1
        <5>2. n \in 1..MaxCalls /\ n \in Nat
          BY <1>1, <5>1
        <5> QED
          BY <5>1, <5>2, PartEnds
      <4> QED
        BY <2>1, <3>1, <4>1 DEF Stands
    <3> QED
      BY <2>1, <2>2, <3>2 DEF Stands
  <2>5. Seen(r)'
    BY <1>2, <2>1, <2>2, <2>4 DEF Seen
  <2> QED
    BY <2>3, <2>5
<1>11. CASE \E r \in Runs : Interrupt(r)
  BY <1>3, <1>11 DEF Interrupt, bounds
<1>12. CASE Clear
  BY <1>1, <1>12 DEF Clear
<1>13. CASE Restart
  <2>1. /\ memory' = disk /\ UNCHANGED <<disk, turn>> /\ clears = 0
        /\ pc' = [r \in Runs |-> IF Ended(r) THEN pc[r] ELSE "done"]
    BY <1>13 DEF Restart
  <2>2. \A r \in Runs : pc'[r] \in {"idle", "done"} /\ (pc'[r] = "idle" => pc[r] = "idle")
    BY <2>1 DEF Ended
  <2> QED
    BY <1>2, <2>1, <2>2 DEF Seen
<1>14. CASE UNCHANGED vars
  BY <1>3, <1>14 DEF vars, bounds
<1> QED
  BY <1>4, <1>5, <1>6, <1>7, <1>8, <1>9, <1>10, <1>11, <1>12, <1>13, <1>14 DEF Next, Run

LEMMA CrowdSees == CrowdInv => RunSeesItself
<1> SUFFICES ASSUME CrowdInv, NEW r \in Runs, pc[r] = "model", clears = 0
             PROVE  /\ InOrder(memory, r) /\ User(r) \in Said(memory, r)
                    /\ \A t \in 1..(turn[r] - 1) : \E n \in 1..MaxCalls :
                         OfTurn(Said(memory, r), t) = Exchange(r, t, n)
  BY DEF RunSeesItself, InOrder, OfTurn
<1>1. turn[r] \in Nat
  BY HistoryAssumption DEF CrowdInv, HistoryTypes, TypeOK
<1>2. Seen(r)
  BY DEF CrowdInv
<1>3. \A t \in 1..(turn[r] - 1) : t \in 1..turn[r] /\ t # turn[r]
  BY <1>1
<1> QED
  BY <1>1, <1>2, <1>3 DEF Seen, Stands

-----------------------------------------------------------------------------
(* The theorems about the history.                                         *)

\* One run after the other, whatever dies and fails: what is sent is well
\* formed, so is what a process that starts again would send, and no call of
\* a run that was not cut short goes without its result.
THEOREM CalmHistoryIsSafe ==
  CalmSpec => [](ToolsFollowTheirCall /\ FileIsWellFormed /\ UncutCallsAreAnswered)
<1>1. CalmInv => ToolsFollowTheirCall /\ FileIsWellFormed /\ UncutCallsAreAnswered
  BY DEF CalmInv, FileIsWellFormed
<1> QED
  BY <1>1, CalmInit, CalmNext, PTL DEF CalmSpec

\* However many runs use the history at once, a request keeps to the window's
\* size, and a run that goes on finds there what it has said, in order.
THEOREM RunsSeeThemselves == Spec => [](TypeOK /\ RunSeesItself)
<1>1. CrowdInv => TypeOK /\ RunSeesItself
  BY CrowdSees DEF CrowdInv, HistoryTypes
<1> QED
  BY <1>1, CrowdInit, CrowdNext, PTL DEF Spec

LEMMA HistoryPart ==
  /\ MCInit => Init
  /\ [MCNext]_<<vars, llmVars, workspaceVars, focus>> =>
       [Next]_vars /\ focus' = focus /\ (focus = "calm" => [Next /\ OneAtATime]_vars)
<1>1. ASSUME MCNext
      PROVE  [Next]_vars /\ focus' = focus /\ (focus = "calm" => [Next /\ OneAtATime]_vars)
  BY <1>1 DEF MCNext, HistoryMoves
<1> QED
  BY <1>1 DEF MCInit

\* The first of the two in the conversation that the runs check.
THEOREM HistoryStaysSafe == MCSpec => []HistoryIsSafe
<1> DEFINE IInv == focus = "calm" => CalmInv
<1>1. MCInit => IInv
  BY HistoryPart, CalmInit
<1>2. IInv /\ [MCNext]_<<vars, llmVars, workspaceVars, focus>> => IInv'
  <2> SUFFICES ASSUME IInv, [MCNext]_<<vars, llmVars, workspaceVars, focus>>, focus' = "calm"
               PROVE  CalmInv'
    OBVIOUS
  <2>1. focus = "calm" /\ [Next /\ OneAtATime]_vars
    BY HistoryPart
  <2> QED
    BY <2>1, CalmNext
<1>3. IInv => HistoryIsSafe
  BY DEF HistoryIsSafe, CalmInv, FileIsWellFormed
<1> QED
  BY <1>1, <1>2, <1>3, PTL DEF MCSpec

\* The second.
THEOREM ContextStaysKept == MCSpec => []ContextIsKept
<1>1. MCInit => CrowdInv
  BY HistoryPart, CrowdInit
<1>2. CrowdInv /\ [MCNext]_<<vars, llmVars, workspaceVars, focus>> => CrowdInv'
  BY HistoryPart, CrowdNext
<1>3. CrowdInv => ContextIsKept
  BY CrowdSees DEF CrowdInv, HistoryTypes, ContextIsKept
<1> QED
  BY <1>1, <1>2, <1>3, PTL DEF MCSpec
=============================================================================
