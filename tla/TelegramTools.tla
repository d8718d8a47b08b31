---------------------------- MODULE TelegramTools ----------------------------
(***************************************************************************)
(* The telegram.* tools: how a call is confirmed, which account it goes    *)
(* through, which peer a written target means, and what arrives.           *)
(* (actions/telegram_actions.py, the directory half of telegram/client.py, *)
(* the paged lists of web/app.py.)  The directory -- dialogs, newest       *)
(* first, and contacts -- is Telegram's and changes at any time; it is     *)
(* read anew for every target, the dialogs first and then the contacts.    *)
(*                                                                         *)
(* One call of the agent goes on at a time, beside a user who changes the  *)
(* active account or pages through a list.  Texts are model values with a  *)
(* relation "occurs in".  Login and the loop are TelegramLogin's subject.  *)
(***************************************************************************)
EXTENDS Naturals, FiniteSets, Sequences, SequencesExt, FiniteSetsExt, Functions

CONSTANTS
    Peers,       \* users, groups and channels
    Words,       \* texts that occur as names, usernames and targets
    OccursIn,    \* the pairs of different words, the first part of the second
    Username,    \* [some of the peers -> Words], which nobody else has
    Directories, \* what the account may have to begin with: records of dialogs,
                 \* contacts, title and unread
    Accounts,    \* configured accounts
    NoAccount,   \* the tool's argument is left out
    MaxBulk,     \* the targets that a call may have (20 in the code)
    MaxTexts,    \* bound: texts that a call is given
    MaxChanges,  \* bound: changes of the directory and of settings
    PageSize     \* chats on a page of the web's list

ASSUME ToolsAssumption ==
    /\ OccursIn \subseteq Words \X Words
    /\ IsFiniteSet(Peers) /\ IsInjective(Username)
    /\ \A d \in Directories :
         /\ d.dialogs \in Seq(Peers) /\ IsInjective(d.dialogs) /\ d.contacts \subseteq Peers
         /\ d.title \in [Peers -> Words] /\ d.unread \in [Peers -> {0, 1}]
    /\ NoAccount \notin Accounts
    /\ MaxBulk \in Nat \ {0} /\ MaxTexts \in Nat /\ PageSize \in Nat \ {0}

VARIABLES
    dialogs,  \* Telegram's: the peers with a dialog, newest first
    contacts, \* Telegram's: the contact list
    title,    \* Telegram's: [Peers -> Words]
    unread,   \* Telegram's: [Peers -> unread messages]
    active,   \* settings.telegram.active_account
    confirm,  \* [Accounts -> confirm_send]
    tool,     \* the call that the agent performs
    acts,     \* what Telegram did for it
    pages,    \* the user's walk through a paged list
    changes   \* directory and settings changes so far

toolsVars == <<dialogs, contacts, title, unread, active, confirm, tool, acts, pages, changes>>
directory == <<dialogs, contacts, title, unread>>
accountSettings == <<active, confirm>>

Targets == [form : {"name"}, key : Words] \cup [form : {"username"}, key : Range(Username)]
NoTool == [at |-> "idle"]
NoPages == [at |-> "idle"]

ToolsInit ==
    /\ \E d \in Directories : /\ dialogs = d.dialogs /\ contacts = d.contacts
                              /\ title = d.title /\ unread = d.unread
    /\ active \in Accounts
    /\ confirm \in [Accounts -> BOOLEAN]
    /\ tool = NoTool
    /\ acts = <<>>
    /\ pages = NoPages
    /\ changes = 0

\* The given places of a list, from the first to the last, and what is there.
Ascending(places) ==
    CHOOSE order \in [1..Cardinality(places) -> places] :
        \A i, j \in 1..Cardinality(places) : i < j => order[i] < order[j]

Picked(list, places) == [k \in 1..Cardinality(places) |-> list[Ascending(places)[k]]]

-----------------------------------------------------------------------------
(* Which peer a text means.                                                *)

Within(w, text) == <<w, text>> \in OccursIn

HasUsername(p, w) == p \in DOMAIN Username /\ Username[p] = w
UsernameHas(p, w) == p \in DOMAIN Username /\ Within(w, Username[p])

\* How well a peer fits a name: 0 is its username, 1 its title, 2 and 3 a part
\* of them, 4 nothing.  A better fit is looked for first.
Rank(w, p) ==
    Min({4} \cup {r \in 0..3 : <<HasUsername(p, w), w = title[p],
                                UsernameHas(p, w), Within(w, title[p])>>[r + 1]})

\* The candidates that a scan of the given peers adds, with their ranks.
Found(w, ps) == {c \in (0..3) \X ps : c[1] = Rank(w, c[2])}

\* The candidates that fit best; a peer found twice counts with its better fit.
BestFit(candidates) ==
    LET best == Min({c[1] : c \in candidates}) IN
    {c[2] : c \in {d \in candidates : d[1] = best}}

\* Telethon's get_entity with a text that is not in the directory: a public
\* username is found, another text is not.
GetEntity(w) == {p \in Peers : HasUsername(p, w)}

\* Mutation: of several that fit best one is taken.
ResolvedAnyway(w, candidates) ==
    IF candidates = {} THEN GetEntity(w) ELSE BestFit(candidates)

\* The end of _resolve_entity: a peer, or nobody and an error.
Resolved(w, candidates) ==
    IF candidates = {} THEN GetEntity(w)
    ELSE IF Cardinality(BestFit(candidates)) = 1 THEN BestFit(candidates) ELSE {}

\* _resolve_contact: whoever has the text as a name or a username, else
\* whoever contains it, if there is just one.
Contact(w) ==
    LET exact == {p \in contacts : Rank(w, p) \in {0, 1}}
        partial == {p \in contacts : Rank(w, p) \in {2, 3}}
        fit == IF exact # {} THEN exact ELSE partial
    IN IF Cardinality(fit) = 1 THEN fit ELSE {}

-----------------------------------------------------------------------------
(* A call of a tool.                                                       *)

\* Sending tools register with the account's confirm_send, as an override and
\* as a skip; the others go by their risk.
ToolKinds == {"send", "contact", "read"}

AccountOf(name) == IF name = NoAccount THEN active ELSE name

\* Action.needs_confirmation under the default policy.
Asks(kind, name) ==
    CASE kind = "send" -> confirm[AccountOf(name)]
      [] kind = "contact" -> TRUE
      [] kind = "read" -> FALSE

\* _validated_bulk_targets: every target once, in the order given.
ValidatedTargets(texts) ==
    Picked(texts, {i \in DOMAIN texts : \A j \in 1..(i - 1) : texts[j] # texts[i]})

\* run_action up to the question: the call asks, or goes on.  Only sending
\* takes several targets.
Invoke(kind, name, texts) ==
    /\ tool = NoTool /\ pages = NoPages
    /\ kind = "send" \/ Len(texts) = 1
    /\ kind = "contact" => texts[1].form = "name"
    /\ tool' = [at |-> IF Asks(kind, name) THEN "asking" ELSE "open", kind |-> kind,
                name |-> name, asked |-> Asks(kind, name), texts |-> texts,
                through |-> NoAccount, next |-> 1, found |-> {}, seen |-> {},
                report |-> <<>>]
    /\ UNCHANGED <<directory, accountSettings, acts, pages, changes>>

\* The user's answer to the question.
AnswerTool(yes) ==
    /\ tool.at = "asking"
    /\ tool' = IF yes THEN [tool EXCEPT !.at = "open"] ELSE NoTool
    /\ UNCHANGED <<directory, accountSettings, acts, pages, changes>>

\* _client: the account is looked up when the function runs, once for all the
\* targets of a bulk; too many of them are refused.
OpenClient ==
    /\ tool.at = "open"
    /\ LET texts == ValidatedTargets(tool.texts) IN
       tool' = IF Len(texts) > MaxBulk THEN NoTool
               ELSE [tool EXCEPT !.at = "scan", !.through = AccountOf(tool.name),
                                 !.texts = texts]
    /\ UNCHANGED <<directory, accountSettings, acts, pages, changes>>

Target == tool.texts[tool.next]

\* The next target of the call, or its report.
NextTarget(outcome) ==
    [tool EXCEPT !.report = Append(@, outcome), !.next = @ + 1,
                 !.found = {}, !.seen = {},
                 !.at = IF tool.next = Len(tool.texts) THEN "report" ELSE "scan"]

\* Every dialog is compared with the name.  An id or a username is asked of
\* Telegram; a contact tool looks at the contacts only.
ScanDialogs ==
    /\ tool.at = "scan"
    /\ tool' = [tool EXCEPT !.at = "contacts",
                  !.found = IF Target.form = "name" /\ tool.kind # "contact"
                            THEN Found(Target.key, ToSet(dialogs)) ELSE {},
                  !.seen = IF tool.kind # "contact" THEN ToSet(dialogs) ELSE {}]
    /\ UNCHANGED <<directory, accountSettings, acts, pages, changes>>

\* Then every contact; one target is chosen or the call fails for it.
ScanContacts ==
    LET who == CASE Target.form = "username" -> GetEntity(Target.key)
                 [] Target.form = "name" /\ tool.kind = "contact" -> Contact(Target.key)
                 [] Target.form = "name" /\ tool.kind # "contact" ->
                      Resolved(Target.key, tool.found \cup Found(Target.key, contacts))
    IN /\ tool.at = "contacts"
       /\ IF who = {}
          THEN tool' = NextTarget("failed")
          ELSE \E p \in who :
               tool' = [tool EXCEPT !.at = "request", !.found = {<<Rank(Target.key, p), p>>},
                                    !.seen = @ \cup contacts]
       /\ UNCHANGED <<directory, accountSettings, acts, pages, changes>>

\* Sends are not repeated: they may have arrived.
Repeats(outcome, arrived) == FALSE

\* The request: it arrives or not, and its answer comes back or not.  A failed
\* target does not stop a bulk.
SendRequest ==
    \E outcome \in {"done", "failed"}, arrived \in BOOLEAN :
      /\ tool.at = "request"
      /\ outcome = "done" => arrived
      /\ acts' = IF arrived /\ tool.kind # "read"
                 THEN Append(acts, [n |-> tool.next, target |-> Target, kind |-> tool.kind,
                                    peer |-> (CHOOSE c \in tool.found : TRUE)[2],
                                    seen |-> tool.seen, through |-> tool.through,
                                    asked |-> tool.asked])
                 ELSE acts
      /\ tool' = IF Repeats(outcome, arrived) THEN tool ELSE NextTarget(outcome)
      /\ UNCHANGED <<directory, accountSettings, pages, changes>>

\* The tool returns its report.
Report ==
    /\ tool.at = "report"
    /\ tool' = NoTool
    /\ acts' = <<>>
    /\ UNCHANGED <<directory, accountSettings, pages, changes>>

-----------------------------------------------------------------------------
(* Paged lists: the web asks for one chat more than a page holds.          *)

\* The chats that _list_chats collects, newest first, or those with unread
\* messages first.
Chats(sort, unreadOnly) ==
    LET where(counts) == {i \in DOMAIN dialogs : unread[dialogs[i]] \in counts}
        matching == IF unreadOnly THEN {1} ELSE {0, 1}
    IN IF sort = "unread" THEN Picked(dialogs, where({1})) \o Picked(dialogs, where(matching \ {1}))
       ELSE Picked(dialogs, where(matching))

\* The limit and the offset apply to what is collected and sorted.
ListChats(sort, unreadOnly, limit, offset) ==
    LET all == Chats(sort, unreadOnly) IN
    SubSeq(all, offset + 1, Min({offset + limit, Len(all)}))

Fetch(sort, unreadOnly, offset) == ListChats(sort, unreadOnly, PageSize + 1, offset)

OpenList(sort, unreadOnly) ==
    /\ pages = NoPages /\ tool = NoTool
    /\ pages' = [at |-> "more", sort |-> sort, only |-> unreadOnly, shown |-> <<>>,
                 offset |-> 0, since |-> changes]
    /\ UNCHANGED <<directory, accountSettings, tool, acts, changes>>

\* telegram_chats: one page.
NextPage ==
    /\ pages.at = "more"
    /\ LET items == Fetch(pages.sort, pages.only, pages.offset)
           shown == SubSeq(items, 1, Min({PageSize, Len(items)}))
       IN pages' = [pages EXCEPT !.shown = @ \o shown, !.offset = @ + Len(shown),
                                 !.at = IF Len(items) > PageSize THEN "more" ELSE "end"]
    /\ UNCHANGED <<directory, accountSettings, tool, acts, changes>>

CloseList ==
    /\ pages.at = "end"
    /\ pages' = NoPages
    /\ UNCHANGED <<directory, accountSettings, tool, acts, changes>>

-----------------------------------------------------------------------------
(* What happens meanwhile.                                                 *)

Change == changes < MaxChanges /\ changes' = changes + 1

\* A message from a peer: its dialog comes to the front.
MessageArrives(p) ==
    /\ Change
    /\ dialogs' = <<p>> \o Picked(dialogs, {i \in DOMAIN dialogs : dialogs[i] # p})
    /\ unread' = [unread EXCEPT ![p] = 1]
    /\ UNCHANGED <<contacts, title, accountSettings, tool, acts, pages>>

\* A peer takes another name.
Renames(p, w) ==
    /\ Change
    /\ w # title[p]
    /\ title' = [title EXCEPT ![p] = w]
    /\ UNCHANGED <<dialogs, contacts, unread, accountSettings, tool, acts, pages>>

SwitchActive(a) ==
    /\ Change
    /\ active' = a
    /\ UNCHANGED <<directory, confirm, tool, acts, pages>>

ToolsNext ==
    \/ \E kind \in ToolKinds, name \in Accounts \cup {NoAccount},
          n \in 1..MaxTexts : \E texts \in [1..n -> Targets] : Invoke(kind, name, texts)
    \/ AnswerTool(TRUE) \/ AnswerTool(FALSE)
    \/ OpenClient \/ ScanDialogs \/ ScanContacts \/ SendRequest \/ Report
    \/ OpenList("", FALSE) \/ OpenList("unread", FALSE) \/ OpenList("", TRUE)
    \/ NextPage \/ CloseList
    \/ \E p \in Peers : MessageArrives(p) \/ \E w \in Words : Renames(p, w)
    \/ \E a \in Accounts \ {active} : SwitchActive(a)

ToolsSpec == ToolsInit /\ [][ToolsNext]_toolsVars

-----------------------------------------------------------------------------
(* Properties.                                                             *)

ToolsTypeOK ==
    /\ IsInjective(dialogs) /\ ToSet(dialogs) \subseteq Peers
    /\ tool.at \in {"idle", "asking", "open", "scan", "contacts", "request",
                  "report"}
    /\ tool.at \in {"scan", "contacts", "request"} => tool.next \in 1..Len(tool.texts)
    /\ Len(acts) <= MaxBulk

\* Is the peer whom the target means, among the peers that are known?  Whoever
\* has a name for a username, or else is the only one with it as a title.
Meant(target, peer, known) ==
    LET named == {p \in known : HasUsername(p, target.key)}
        titled == {p \in known : title[p] = target.key}
    IN /\ named # {} => peer \in named
       /\ target.form = "name" /\ named = {} /\ titled # {} => titled = {peer}

\* "never silently chooses an ambiguous recipient" (client.py:813): while
\* nothing changes, a message for a name reaches nobody else when somebody
\* known has that very username, or when just one has that very title.
RecipientIsMeant ==
    changes = 0 => \A i \in DOMAIN acts : Meant(acts[i].target, acts[i].peer, acts[i].seen)

\* A bulk reports on every target, does nothing twice for one, and what it
\* reports as done is done, in spite of answers that never come.
ReportIsTrue ==
    tool.at = "report" =>
      /\ Len(tool.report) = Len(tool.texts)
      /\ IsInjective([i \in DOMAIN acts |-> acts[i].target])
      /\ tool.kind # "read" => \A n \in DOMAIN tool.report :
           tool.report[n] = "done" => \E i \in DOMAIN acts : acts[i].n = n

\* While the list does not change, its pages show every chat once and in order.
PagesShowAll ==
    pages.at = "end" /\ pages.since = changes =>
      pages.shown = Chats(pages.sort, pages.only)

\* What a user relies on when the agent sends in the user's name.
ToolsSafe == ToolsTypeOK /\ RecipientIsMeant /\ ReportIsTrue /\ PagesShowAll

\* "each account honours its own confirm_send flag" (telegram_actions.py:6).
\* Not so in the code: a call that names no account is checked for the one
\* that is active then, and goes through the one that is active when it runs.
SendsAskForTheirAccount ==
    \A i \in DOMAIN acts :
      acts[i].kind = "send" /\ ~acts[i].asked => ~confirm[acts[i].through]
=============================================================================
