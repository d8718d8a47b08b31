# Verification of the local agent, its Bridge and the workflow agent

TLA+ models of the concurrent and stateful parts of this repository, model-checked
with TLC on small instances and, where marked, proved with TLAPS for every value of
the constants. The source is the reference: every definition is a translation of
the code named in the module headers and, line by line, in `PROJECT.json` (`map`).

- [1. The system](#1-the-system)
- [2. What is hard](#2-what-is-hard)
- [3. Modules](#3-modules)
- [4. Runs](#4-runs)
- [5. Fairness](#5-fairness)
- [6. Proofs](#6-proofs)
- [7. Where the code departs from its documentation](#7-where-the-code-departs-from-its-documentation)
- [8. What is not modelled](#8-what-is-not-modelled)
- [9. What is left](#9-what-is-left)

## 1. The system

Two programs live in the repository.

**`local_agent/`** is a desktop assistant. One process holds the *Bridge*
(`bridge/api/handlers.py`), which every frontend talks to: the web page and its
WebSocket (`web/app.py`), HTTP clients and server-sent events
(`bridge/server/server.py`), the in-process client (`bridge/api/client.py`, used by
the command line), and a Telegram or Bale bot (`bridge/telegram_bot/bot.py`). The
desktop program (`desktop/`) wraps the web server in a window with a tray icon.

**`agent/`** is an older, separate program: a *workflow agent* behind a Telegram or
Bale bot, with its state in SQLite.

| Component | State | Operations | Talks to |
|---|---|---|---|
| Action gate and registry (`actions/registry.py`, `handlers._invoke_action_sync`) | `handlers._lock`, the gate's temporary approval, two references to the current gate, the safety settings | invoke an action, ask the gate, save settings | called by chat runs, RPC and the scheduler |
| Chat runs (`handlers._start_chat_run` … `resolve_confirmation`) | one worker thread per run, `_active_runs`, `_pending_confirms`, the stop event | start, model turn, tool call, request a confirmation, answer it, interrupt | action gate, history, event bus, LLM client |
| LLM clients (`llm/client.py`, `agent/providers.py`) | none between calls; attempts, tools and tier within one | complete, stream | chat runs, workflow agent |
| Conversation history (`core/context.py`, `_build_messages`) | messages in memory, the history file | append, clear, load, cut a window for the model | chat runs, sessions |
| Chat sessions (`_runtime_for`, `_close_stale_sessions`) | session id → runtime, last use, one history file per session | look up or make, time out, evict | chat runs, history |
| Event bus and streams (`EventBus`, the WebSocket, `_stream_events`, `stream_request`) | listeners, a queue per run, the consumer's own queues | subscribe, publish, forward, yield, time out, close | chat runs publish, frontends consume |
| Page and command line (`web/app.py` socket, `cli/app.py`) | a socket's reader and forwarders, the cards on the page, the run the terminal shows | chat, confirm, interrupt, Ctrl-C, plain request | event bus, confirmations |
| Bridge bot (`bridge/telegram_bot/bot.py`) | pending approvals, buttons on the screen, one event loop | handle a text, render an event, handle a press | Bridge client, confirmations |
| Scheduler (`core/scheduler.py`) | jobs in memory and in `scheduled.json`, a daemon thread | add, cancel, tick, notify, load | calls back into the Bridge |
| Configuration and purge (`core/config.py`, `handlers._persist_settings`, `core/cleanup.py`) | settings in memory, up to three `config.json`, its temporary file | start with migration, change, save, purge, exit | everything |
| Telegram accounts (`handlers.py`, account operations) | the settings that list accounts, a table of clients, session files | add, remove, switch, enable, log in, auto-connect, restart | configuration, login |
| Telegram login (`telegram/client.py`) | login state, client, lock, coroutines on a loop thread | log in, submit code or password, connect, disconnect, read, send | accounts, actions |
| Telegram actions (`actions/telegram_actions.py`, the directory in `client.py`) | Telegram's dialogs and contacts, the active account | find a recipient, send, bulk send, page through lists | gate, accounts |
| Gmail (`gmail/client.py`, `gmail_actions.py`) | client objects, one IMAP connection under a lock, an OAuth token | connect, list, read, send, reply, settings changes | gate, web |
| File actions (`actions/file_ops.py`) | files, temporary files | write, append, copy, move, delete, zip, unzip, download | gate |
| Desktop shell and single instance (`desktop/`) | the lock's port and PID file, window, tray, hotkey, server | launch, second launch, show, hide, quit, crash | web server |
| Workflow agent (`agent/bot.py`, `brain.py`, `storage.py`) | SQLite: thread, messages, one pending action, preference; memory: the key dialogue and session keys | updates of the messenger, model turns, tools, approval cards, restart | messenger, model provider |
| Workspace tools (`agent/tools.py`) | the files of a folder that all chats and both bots share | write, patch, organize, walk, read, command | workflow agent |
| Workspace, shell and artifacts (`actions/system.py`, `_collect_artifacts`, `resolve_artifact_path`, `screen_capture`) | the workspace in the settings, the context and the web server; the shell's folder; cards | run a command, capture, collect, open, upload, change the workspace | gate, configuration, page |
| GUI automation, updater, diagnostics, setup | see section 8 | | |

What makes each of the modelled components correct:

- *gate*: an approval counts for the one invocation it was given for;
- *chat runs*: a run ends with exactly one terminal event, whatever happens to it, and
  leaves no request that can be answered but is not waited for;
- *LLM clients*: a bounded number of requests, and the last one decides;
- *history*: what goes to the model and what is read back after a restart keeps calls
  and results together;
- *sessions*: no message lands in another tab's history or gets lost when its session
  is dropped from memory;
- *streams*: a consumer sees its run without gaps and in order, ends, and leaves no queue behind, and no
  listener if its run was started;
- *page, bot*: an answer reaches the request it is about, once, or comes too late;
- *scheduler*: once, not twice, and not after a cancellation, across restarts;
- *configuration*: the file is whole, and a start reads what was saved;
- *accounts and login*: the clients are those that the settings list, a connected account is
  remembered, and what the login state says is so;
- *Telegram actions, Gmail, files*: an action acts on what it names, does it once and tells the truth;
- *desktop*: one process serves, a second launch shows the first's window, and quitting ends it;
- *workflow agent*: an action runs once and only on its own approval; a card that looks
  open is open, unless the card that took its row was never shown; a key never reaches the database; files are
  torn only by those who write them together and by screenshots, which are drawn in place.

## 2. What is hard

`PROJECT.json` lists each hazard with its line and the properties that watch it. In short:

- *interleaving*: worker threads, HTTP threads, the daemon thread, the tray's and the hotkey's
  thread and two event loops share objects; only some operations take a lock, and reads of the
  gate, the settings, the session table and the listeners are used after the lock is released;
- *failure*: the process may die between a save and the effect it announces, a save may
  fail and is swallowed, a write is cut short, a listing fails and counts as empty, a messenger delivers an update again, a connection breaks in an action;
- *ordering*: the events of a run go through two or three queues, each closed by a
  different party; results of tool calls must follow their calls in a history that
  several runs may append to;
- *timeouts*: 120 s for a confirmation, 300 s of silence on a stream, the wait for a coroutine
  of Telegram's loop, all racing the answer that they wait for;
- *stale values*: a recipient, an account, a mail's place in the inbox or a free file name is
  looked up, and used after a question to the user, a reconnection or another run's action.

## 3. Modules

```
ActionGate <-- ChatRuns <-- ChatRunsProofs      RunFeed <== EventStreams <-- EventStreamsProofs
ChatHistory      <-+                            Scheduler     <-+
LlmCalls         <-+- ConversationProofs        TelegramLogin <-+- ServicesProofs
Workspace        <-+                            Desktop       <-+
Sessions         <-+                            FileActions   <-+
Configuration    <-+- StorageProofs             AgentTools    <-+- ActionsProofs
TelegramAccounts <-+                            Gmail         <-+
BridgeBot        <-+- FrontendsProofs           TelegramTools <-+
Frontends        <-+                            AgentWorkflow <-- AgentWorkflowProofs
```

`<--` extends, `<==` is implemented by. A definition marked "Mutation" in a module is a
plausible bug of the definition that follows it. No specification uses it; put in its place it
breaks a property, which shows that the property depends on that line of the code.

**ActionGate** — `_invoke_action_sync`, `ConfirmationGate.ask`, `run_action` and the gate swap
in `_apply_settings`. `pc[t]` is where thread `t` stands between taking and releasing
`handlers._lock` (`holder`); `approveAll[g]` is `_auto_approve_all` of gate `g`; `selfGate`
and `ctxGate` are the two references `_apply_settings` writes one after the other.
Actions are abstracted to "safe", "risky" (the policy asks) and "unknown".

**ChatRuns** — extends ActionGate by the worker thread of a run: turns, tool calls, the
confirmation request, its timeout, the interrupt, the crash handler of `_chat_worker`, and
`resolve_confirmation` in four steps (find, write the answer, set the event, publish), because
only the first is under the lock. `request[r]` is the `PendingConfirmation`; `given` remembers
which answers users have submitted, and `verdict` what the worker made of them.

**ChatHistory** — the message list of one session as a sequence, the file, and `_build_messages`.
A message is a record of its role, run, turn and, for an assistant message, how many calls it
carries. A save rewrites the file or fails; a restart reads the file back.

**LlmCalls** — one call of one of four clients: `posts` are its requests with their outcomes, `ask`
the request that is made next (with tools or without, streaming or not, which tier, which
attempt), `shown` the pieces of text that the user has seen arrive.

**Sessions** — `_runtime_for` and `_close_stale_sessions`, including the order in which the cap is
enforced and `_last_used` is set. A history is a set of messages; `kept` remembers what was
appended and not cleared.

**EventStreams** — `EventBus.publish` (snapshot under the lock, delivery after it), `end_run`, and
the three consumers: WebSocket with forwarder, server-sent events, in-process generator. An SSE request may
fail after it has subscribed and before its run is started (`SseFails`: the headers cannot be written, or the
message is empty); it then leaves its listener.
**RunFeed** is the abstract promise to a frontend: events once each, in order, ending with the
last one, unless the frontend leaves. `WebSocketIsFeed` is the refinement, with the number of
the run's own events received for `delivered`.

**Frontends** — the browser's page and its socket: frames on the `wire`, the reader that moves them
to `incoming`, the forwarder of each run, the loop that serves both, the cards on the page;
`/api/confirm` for a page whose socket has gone; the command line; requests whose queue has
no reader. The command line talks to a daemon or has the Bridge in its own process (`bridge`). `streams` are the
runs with a stream that holds a queue: a daemon's stream reads it to the run's end or gives up after 300
quiet seconds, and goes on when the command line is gone; a generator in the process ends with the end
of *any* run it hears of, with a silence, or with the process on Ctrl-C.

**BridgeBot** — the bot's event loop and its inbox of updates. `loop` is the text's run in whose blocking
generator the loop stands; presses wait behind it. In process the generator hears every run and ends with the
first that ends; over HTTP it hears them too, but the daemon ends it only with its own run or after 300 silent
seconds, and the connection may break. `buttons[m]` is what stands on the status message `m`: an older message
keeps its buttons, and an edit that shows or removes them may fail. `pending` and `answer` follow a request through
the bot, other frontends and the run.

**Scheduler** — `add` (check, then insert), `cancel`, the tick (mark, save, release the lock, then
call back one by one), crash, restart from the file, failing saves.

**Configuration** — three folders that can hold a `config.json`; a start finds its target, migrates
older files and writes a template. A change swaps `settings`; a save opens the temporary file,
writes it and replaces the file, each a step, on Windows or not. The purge deletes entry by
entry while threads save.

**TelegramAccounts** — an operation of a thread reads the settings and swaps in new ones; then, with no lock,
it dumps what the settings are by now, writes the temporary file that all threads share and renames it, each a step
that another thread may come between; then it looks at the settings and the table and takes out and disconnects, or
looks up and creates, one client at a time. `_set_model` is such an operation too, as it puts the Telegram settings
that it has read back. `_account_client` looks, makes and takes in three steps. A login is one step some time after
it began. `savesMet` and `syncsMet` record that two saves, or two syncs, have met, or that a save has put older
settings back.
**TelegramLogin** is the inside of a client: callers, `PersonalTelegram`'s lock, and the coroutines
on its loop from await to await, with timeouts, cancellation and failures.
**TelegramTools** is what a call does with a connected account: `_client`, `_resolve_entity` with
its ranks, bulks with their report, pages of a list, while names and settings change.

**Gmail** — client objects with at most one open IMAP session under a lock, or OAuth; settings and
the web that make, connect and drop them; actions from the lock to the answer; mails and
connections that come and go.

**FileActions**, **AgentTools** — actions on files in the steps in which they reach the disk, by
several processes at once (a Bridge lets one action run at a time, and a bot handles one update at a
time), each of which can fail half-way. Contents are named by where they came from. In **FileActions** the
temporary file of a path is a path of the workspace (`TempName`), which may be the user's own; an append opens the
file, and so creates it, before it writes; an archive is extracted member by member over what is there. `aimed` are the
places that an action's arguments name for it to overwrite, and `besides` those that it overwrites unnamed. In
**AgentTools** a walk lists directory by directory while files come and go, a listing may fail, which a search takes
for an empty one, and a walk may stop at its cap; a screenshot is drawn in the file itself and may be cut short
(`halfDrawn`).

**Workspace** — where actions work and what their answers show: the settings' workspace and the one in the
shared context, which follows a step later; the folder that `run_shell` remembers; the files that
an answer names, which become cards after the lock was released; and the lookup of a card's path in
the web server's own roots. A file holds the number of the write that made it.

**Desktop** — processes from launch to exit with the lock's port, the PID file and the threads that
show, hide and tear down. `doing` is what each of these threads is about; `quit` is how far the
teardown has come and in which thread. The tray may quit before the main loop has begun. (`destroy` and `show` of
pywebview wait until the window is shown; here they act at once.)

**AgentWorkflow** — one chat of the workflow agent: updates in a queue, the menu and key dialogue,
the model loop, approval cards with a database row, messages that cannot be sent, and the
death of the process at any point with or without redelivery of the update in progress.
`decision` follows what the user sees of a card, independently of the rows, so that the properties compare the
two: a card is replaced when a newer one is on the screen, while its row goes when the newer one is
proposed. `missed` records the cards whose successor was never shown, because its message failed or the process died.

**MC modules.** `MCConversation`, `MCStorage`, `MCServices`, `MCFrontends` and `MCActions` check several
components in one run. Components that share no state are put side by side, and a variable
`focus`, chosen in the initial state, names the one that moves; the others stay in one initial
state. The state graph is the disjoint union of the components' graphs, so that an invariant
of one is checked in all of its states and in one state of the others. `MCAgentWorkflow` has a
`scene` of the same kind, which says what the user does. Components that do interact are
modelled together (ChatRuns with its gate, the streams with the bus, the accounts with
settings, file and clients).

## 4. Runs

| Run | Component and instance | Shows |
|---|---|---|
| `chat_gate` | ChatRuns: 1 run of 1 turn and 1 call, 1 direct invocation, 2 settings saves, 1 frontend | the approval stays with its invocation; nothing risky starts unasked outside a swap; invocations return |
| `chat_runs` | ChatRuns: 2 runs of 1 turn and 1 call, 1 frontend, no saves | one terminal event; no dead request; nobody uses another's approval; runs end |
| `conversation` | ChatHistory: 2 runs of 2 turns of up to 2 calls, one after the other ("calm") or at once ("crowd"), 1 clear, crash, failed save | requests and file well-formed and calls answered (calm); window within its limit, a run finds all it has said (both) |
| | LlmCalls: every client, style and tier, 1 retry, streams of 2 pieces, 7 outcomes of a request | bounded requests; the last one decides; tools given up once |
| | Workspace: 2 folders, 2 screenshot names, 2 chats; 4 events of the shell alone or of files and cards alone, 3 of all | a restricted command stays inside; cards open their file; pictures stay |
| `storage` | Sessions: 3 sessions, cap 2, timeout 1, 4 runtimes, 2 runs of 2 messages | separate histories; nothing lost; drops only for a reason |
| | Configuration: 2 writers, 2 changes, 2 starts, any files to begin with | a whole file; saved settings read again |
| | TelegramAccounts: 2 accounts, 2 threads and the connecting ones, 2 operations, 3 clients, 1 restart | table, file, accessor and connections agree at rest |
| `services` | Scheduler: 2 jobs, clock to 3, 2 crashes, 1 failed save | at most once; cancelled stays cancelled; file not behind; due jobs taken, batches finished |
| | TelegramLogin: 2 callers, 3 coroutines, every kind of call | login state is true; sends at most once; calls return |
| | Desktop: 2 processes, 1 act of a user | one server; quitting ends; a second launch shows the window |
| `streams_pair` | EventStreams: 2 runs of 2 events, consumers of any kind | complete streams; no queue left behind, and no listener of a run that was started; WebSocket implements RunFeed |
| `frontends` | EventStreams: 1 run of 3 events, 2 frontends publishing to it | order; streams end |
| | BridgeBot: 2 of the runs, of which 2 are the bot's and 1 another frontend's, 2 presses (1 when both are the bot's), in process or over HTTP | approvals once and of this request; no button that nobody knows; every update is reached |
| | Frontends: 1 tab, 2 runs, 4 frames, the command line with either Bridge | answers reach waiting runs; queues have readers |
| `agent` | AgentWorkflow: 2 cards, 5 updates (2 waiting), 2 turns, 2 crashes, failing messages; or every button of the key dialogue, 6 updates, no crash | once; only when approved; open cards answerable; other threads kept; key not stored; updates handled |
| `actions` | TelegramTools: 3 peers with names that contain each other, 2 accounts, bulks of 2 | the recipient is meant; the report is true; pages show all |
| | Gmail: 3 mails, 2 runs that take turns, 4 actions, 2 events outside, both backends | ids name their mail; a send is told truly |
| | FileActions: 3 paths inside, of which one is the next one's temporary name, and 1 outside, 2 processes, 3 actions | nothing lost but where an action aimed or overwrites unnamed; `write_file` whole |
| | AgentTools: 2 files in 2 places, 2 bots, 2 calls, 1 edit outside, a cap of 2 | torn only if shared or drawn in place; no temporary file left; plans and walks keep to what there is |
| `sessions_oldest` | Sessions | violated: the newest session is evicted |
| `streams_foreign` | EventStreams: 2 in-process consumers | violated: another run's end ends a stream |
| `settings_survive` | Configuration: 1 writer | violated: settings are saved to a file that is not read |

Each property in these runs has a mutation of the code that it catches (`PROJECT.json`, `mutants`).
Properties with several parts (`LlmSafe`, `AccountsSafe`, `GmailSafe`, …) name each part in the
module; their type part is the module's type invariant.

**Why the bounds are enough.** The protocols are between pairs: two threads at one lock, a run
and an answer, a session and the one that evicts it, a card and the card that replaces it, two
writers of one file, a mail and the one before it. Two
of each kind give every pair, and a third session, mail, peer or path gives a choice. Histories of
two turns with two calls contain every adjacency of message kinds; three events
have a first, a middle and a last one; one crash is enough where recovery reads a file, and two allow one
after a recovery. Three coroutines of a login are one that is cancelled, one that replaces it and one that
uses the result. The proofs of section 6 remove these bounds from the safety
properties of every component (with the restrictions of the environment that follow where the theorem says so); liveness
is checked within the bounds only.

**Restrictions of the environment**, each part of a specification, an MC module or a constant, not of a property:
- Workspace: folders are not inside one another, and outside the "shell" part `restrict_shell_to_workdir` is on
  (with full access on or off), which the other steps do not read;
- the calm part of `conversation`: one run at a time per session, and of the requests only those that the
  window does not cut. Without either the property does not hold (section 7).
- the sessions of `storage`: nobody asks again for a session that has lost its runtime while a
  run still holds it. Without it two runtimes rewrite one file (section 7). Runs are started over
  the WebSocket or RPC, not over a stream, which drops the session id.
- the keys of `agent`: no restart, and one update waits; with a restart the property fails (section 7).
- the accounts of `storage` begin in one of three ways: the one account there is is connected; those there are are
  listed and enabled and nobody has logged in; or the feature is off. While an account is connected in the background at the
  start, users begin one operation at most (`OneUpdateWhileConnecting`).
- the files of `actions`: once two actions have met (`raced`) nothing is promised, and no more is looked at; of two calls
  of the tools one at a time looks at files (`OneLooks`), since looking changes nothing.
- the bot of `frontends`: two runs are started, and the first of the bot's own is one of them if any is; when both are
  the bot's, one button is pressed (`TwoRuns`).

Some properties say under which circumstance the code breaks them, in a variable that only records it:
`overlap` and `astray` (Configuration), `late` (TelegramLogin), `lost`, `orphaned`, `savesMet`, `syncsMet` and `unsaved`
(TelegramAccounts), `besides` and `raced` (FileActions), `shared`, `halfDrawn` and `ended` (AgentTools), `since` (AgentTools,
pages of TelegramTools), `missed` (AgentWorkflow), `moved` (Gmail's listings). Where a
reader of the code or of its comments would expect more, section 7 has the definition that fails.

`CHECK_DEADLOCK FALSE` stands in the configurations of models that really stop: all runs over,
all updates handled, a bound reached. `ChatRuns` keeps deadlock checking: its only
idle state is `AllQuiet`, so TLC shows that no thread waits for ever on the lock.

## 5. Fairness

- *Chat runs*: worker threads keep running; model requests have timeouts and action
  functions return. Weak fairness per thread suffices for the lock because there are finitely
  many invocations. Nobody has to answer, interrupt or start anything: `RunsEnd` rests on the
  confirmation timeout and the turn cap.
- *Scheduler*: the daemon thread ticks and time passes. No fairness on restart: `DueJobsAreServed`
  says what happens if the program stays up.
- *Streams*: a publish that has begun is finished, a run goes on (that is `RunsEnd`), a consumer
  takes what there is, and silence runs into its timeout. Nobody has to start a stream.
- *Page and bot*: reader, forwarders, loops and runs go on. A card that nobody answers may wait for ever on
  the page (`AnswersAreHeard` assumes no timeout); the bot's `UpdatesAreReached` rests on the timeout of questions and,
  where another run's events or none at all keep the loop waiting, on the 300 silent seconds of the stream. No connection has to break.
- *Telegram login*: a caller goes on when its coroutine is done or its own timeout is up (the wait has one), and
  gets the lock although others take it in between (strong fairness: a released lock is taken by some waiter,
  and calls in the model are few). Telegram need not answer and nobody need answer a prompt.
- *Desktop*: the main thread, the thread in `quit()`, the lock's server and the threads that move the window go on.
- *Workflow agent*: the process runs (`WF(Bot)`), with no assumption about the user or the model.

## 6. Proofs

All are safety properties; each module `…Proofs` extends the module it is about.

**ChatRunsProofs**, from `ThreadAssumption` and `BoundAssumption` (runs and callers are different,
bounds are positive): `TypeCorrect`, `ApprovalScoped`, `AskedBeforeRunning`, `UnconfirmedNever`
(for no savers), `OneTerminal`, `RequestsLive`. `ApprovalIsScoped` is not inductive; `GateInv` adds
that the lock is held exactly by the thread inside the locked labels (`LockInv`), that this thread
found the flag off (`FlagInv`, so putting back `previous` closes the gate), that a gate not yet
installed is off (`SwapInv`, so a finally clause that meets a new gate finds it closed), and that
whatever approval a run acts on was submitted by a frontend to that very request (`RequestInv`,
`FrontInv`, across the unlocked steps of `resolve_confirmation`). The two properties about the end
of runs come from `EndInv`, which counts terminal events at each label.

**EventStreamsProofs**, from `StreamsAssumption`: `StreamsAlwaysSafe`, `OwnEventsAlwaysInOrder`, and the refinement
`WebSocketImplementsFeed`. The events of a run are numbered, with the sentinel of `end_run` after the
last, and a *stretch* is a piece of that line without gap or repetition. `StreamsInv` says of each station on
the way to a consumer (the run's queue, the consumer's own queue, what it has received) that it holds the
next stretch, of the numbers up to which each has come that they fit together, and of the bus who is being
called with what: a publisher that took its snapshot before a consumer came or left still calls by the old one,
which is why the order is not obvious; and an SSE consumer that has failed before its run began is still called,
but owns no queue and has received nothing. The lemmas about stretches (a step takes from the front, or puts at the
end, or neither because the item is of another run) carry the steps. For the refinement, each step of the
WebSocket consumer of a run maps to the arrival of an event, the end or the leaving of RunFeed, or a stutter.

**StorageProofs**, part 1, Sessions, from `SessionsAssumption`: `RecentStay` for every transport; `TabsKeepApart` for
WebSockets and RPC (`Transports = {"ws"}`: over a stream the session id is dropped, section 7); `MessagesStay` when
nobody asks again for a session whose dropped runtime a run still holds (`CalmSpec`; else section 7);
`SessionsStaySafe` for both. `TableInv` says that a live session has a runtime made for it, with a bound on the number
of live sessions that the finite set of keys makes hold; `WorkInv` that runs hold runtimes that exist; `TabsInv` that what a
runtime has in memory and a file on disk is of its session's runs; `CalmInv` that each runtime that can still write has
all that is kept of its session, and no session has two of them.
Part 2, Configuration, from `ConfigurationAssumption`: `ConfigStaysSafe`, for any number of threads, changes, starts and
any files at the first start. `ConfigInv` adds to the types, while saves have not met (`overlap`), that a thread that saves has
`config.json.tmp` to itself (`SavesAlone`) and, while moreover no save went to another file (`astray`), that the file it will
replace is the one that a start will read, and what a start reads is what was saved last (`SavesWhereRead`).
The hard part is that a thread fixes the file's place before it writes, and the purge and the migration of older
files may change in between which place a start looks at first.

Part 3, TelegramAccounts, from `AccountsAssumption` (finitely many accounts, and room in the model for a client of each):
`AccountsStaySafe`, for any number of accounts, threads, operations, clients and restarts. The property speaks of moments
when no operation is under way; `AccountsInv` says what holds between the steps of operations. *ClientsInv*: a client is of the
account that its place in the table, or the thread that holds it, names (`OwnClient`, `JobGoes`); one that is in no place is being
removed or disconnected by a thread (`Holds`), or was dropped under a login or replaced (`orphaned`), or has neither a connection nor a
login that could make one (`InPlace`). *FileInv*: as long as no two saves have met, the thread that saves carries the settings of
now in its dump or in the temporary file, or somebody is still to dump them, or the file has them. *SyncInv*: as long as no two
syncs have met, there is one at most; and when no thread is still to come to its sync (`NonePending`), that one works with the
settings of now and is short of agreement by exactly what it has left to do (`SyncGoes`: the names to drop, then the names to
create), or there is none and table, accessor and connections agree with the settings (`Agrees`). `NonePending` is what makes
this inductive: an operation that has changed the settings is itself pending until its own sync takes them up. The lemmas on `NewClients`
say that the clients of a start are new, each its own.

**ServicesProofs**. *Scheduler*, from `SchedulerAssumption` (finitely many jobs): `TypeCorrect`, `FiresOnce`,
`AnnouncedSaved`, `CancelledStays`. `SavedInv` says, while no save has failed: file and memory
agree; a job waiting in the batch is fired and unannounced; an announced job is fired, announced
once and out of the batch; a revoked job is cancelled; the job being added is in no list. The batch
lemmas say that a batch names each due job once and that its tail never names its head again.
*Desktop*, from `NobodyAssumption`: `OneServes`. `HoldsPort` says that a process has the port from the moment it has
bound it until its `quit()`, in whatever thread, closes it or the process ends, and that its server has been told
to stop by then; with it, who serves follows from who owns the port.
*TelegramLogin*, from `LoginAssumption`: `LoginStaysSafe`, for any number of callers and coroutines. `CallsInv` says that
the lock is held by the one thread that waits for a coroutine of the login, or prompts, and that each thread waits for a coroutine
of its own kind; `SendInv` that a send is one coroutine and was taken at most once. The rest holds until a disconnect has
outlasted its wait (`late`), since that wait, unlike the others, does not cancel its coroutine: then (`InOrderOfLogin`) of the login's
coroutines that are not done at most the first has started and all but the last are cancelled, which the
loop does before it starts the next, and they come in the order begin, code, password, disconnect; (`WorkIsReady`) each of them,
and each prompt, finds the account in the state that it was made for; (`StateInv`, `ClientInv`) `connected` and
`login_state` agree with account and client, and no open client but the current one comes from a login that went well. A timeout
leaves a cancelled coroutine behind that may still run to its next await while the next call has scheduled its own: this
is what the order is for, and the property is not inductive without it.

**AgentWorkflowProofs**, from `CardsAssumption` and `BoundsAssumption`: `RunsAtMostOnce`, `OpenAnswerable`, `OnlyApproved`, `TypesHold`,
`OthersKept`, `KeysStayOut`. `CardInv` says that only an open card has its row; that an open card without one was missed, or
lost it to the card that is about to be shown, which then has the only row; that only approved actions have
run, once; and that a handler about to run one holds an approved action that has not run. What
is on the screen, waiting or lost in a restart does not occur in it: a button counts only when it
finds its row, and the row goes first. `TypeInv` bounds threads and messages by the updates that were sent,
because both count them; `BegunInv` ties each step of a handler to the kind of update that began it. `KeysStayOut` is under
`OneAtATime` (a user who waits for each answer, a process that lives): `KeyInv` follows a key from the dialogue to the session,
and says that none is in a message, waits as a task or is under way as one. With one crash the property fails (section 7).

**FrontendsProofs**. *BridgeBot*, from `BotAssumption` (the bot's runs are not other frontends' runs): `BotIsSafe`, for
any number of runs and presses, in process and over HTTP. `InboxInv` says that a text that waits is about a run that has
not begun, and waits once; that a press that approves was made by somebody. `ScreenInv` says that a button, on whichever
status message, stands for a request that the bot can resolve or has tried to, and `AskInv` that a question is in the
stream at most once until the bot shows it, then pending until the bot resolves it, and only then
has `resolved` moved: a question is pending before the edit that shows it, which may fail, and forgotten before the edit that
takes the button away.
*Frontends*, from `FrontendsAssumption` (the words for "no run" and "no tab" name none): `QueuesAlwaysHaveReaders`, for any
number of tabs, runs and frames. `ReaderInv` adds that a tab serves only runs that it has started (`ServesItsOwn`): therefore a
socket that closes takes away exactly the queues of the runs it served, and no run served elsewhere loses its own. A queue
of the command line's run outlives the command line as long as the daemon's stream has it.
`EventsStayKept` puts this together with the order of each stream's events for the composition in MCFrontends.

**ConversationProofs**. *Workspace*, from `WorkspaceAssumption` (data_dir is no workspace): `WorkspaceIsSafe`. `ShellInv` says that a
command under way has seen the workspace of now. `PictureInv` says that the file of a picture that a
card shows, or that an answer still waiting for its card names, is in data_dir and is there: a capture
takes only names that are free. `PlaceInv` says that a card has its file's path; from it, `CardsOpen` follows the
search of the web server through its three candidates.
*LlmCalls*, from `LlmAssumption`: `RequestsStayBounded`, for any number of retries and pieces; `LlmStaysSafe` for at least one
retry (with none, the Ollama client of the Bridge has no request left to make without tools: section 7). `LlmInv` says what the
requests so far have cost (`Spent`: a request is paid for by an attempt, or by a round that is over because its tools were
rejected or its tier failed), that none of them was answered as long as another is to be made, that after a
rejection no request of the tier is made with tools, and that a call which has used attempts with its tools
has a request to blame for it.
*ChatHistory*, from `HistoryAssumption` (positive bounds, a window of at least two): `CalmHistoryIsSafe` for one run after the
other, `RunsSeeThemselves` for any number at once, and both again for the composition in MCConversation (`HistoryStaysSafe`,
`ContextStaysKept`). `CalmInv` says that the reply whose calls are under way is the last message but for the results so far,
in order (`CallsOpen`); the next result then follows its call, and a new reply finds nothing open. As long as every
save succeeds, the file is the memory and a reply not answered is the open one or of a run that was cut (`AllAnswered`), so a request goes
out with every call answered; and a window, whose first message is no reply, takes with a reply the results behind it
(`WindowAnswered`). `CrowdInv` says of each run, apart from the others, which of its turns are over and which results of
the current one are left (`Stands`), and that all it has said is of its turns so far: so what it adds comes last.

**ActionsProofs**, where an action looks first and acts later. *FileActions*, from `FileAssumption`: `FilesStaySafe`.
`raced` is set when an action begins on a path that another is at work on; until then `FileInv` says that actions use
different paths (`Apart`) and that each finds its paths as it left them (`OnItsWay`): an original in the area of an action that
overwrites was given up when it began, as its target or beside it (`GivenUp`), the destination of a copy or a move is free, a filled
temporary file is whole. `FileAssumption` says that the words for "no file" and for what actions write are no paths, since
contents are named by paths, and that a file is not its own temporary file.
*AgentTools*, from `AgentToolsAssumption`: `AgentToolsStaySafe`. `ToolInv` says who has which temporary file open, that two
calls on one file were noted (`SharingIsNoted`), and that a call alone on its file has its temporary file to itself, empty while it
fills it and with its own text when it replaces (`WritesAlone`); with this a file that is not whole needs two writers, or a screenshot
that draws it, alone (`DrawnBy`), or was cut short (`Explained`). A call under way still knows the places it has planned
(`FindsPlaces`), and a walk the directories it has yet to list and the files it has yet to see (`MissesNothing`), but for what
came `since`.
*Gmail*, from no assumption that matters: `GmailStaysSafe`. `MailInv` says that a listed id is its mail's
place in the inbox as long as no mail before it went (`IdsArePlaces`), and that an inbox selected by an action is the
beginning of the one that is there now, or one of its mails is gone (`SelectedIsKnown`): so an id listed from it is a
place also in the inbox of now, across mails that came meanwhile and connections made again. `ClientTypes` is the type
invariant, with the fact that an action goes through a client that was made.
*TelegramTools*, from `ToolsAssumption` (finitely many peers, usernames that differ, a directory that lists a dialog once):
`TelegramStaysSafe`. `ToolsInv` says where a call stands among its targets (`AtItsTarget`), that what was done is for targets
reported on, in their order (`ActsAreReported`), and, as long as nothing has changed, that what a scan found in the dialogs is still
what is there when it comes to the contacts, so that both together rank everybody who is known (`FindsTheMeant`): whoever fits
best is then the one with that username, or the only one with that title. `PagesAreFirst` says that what a walk has shown is the
beginning of its list, up to its offset. That every set of numbers has a least one, which the ranks need, and that the
places of a list can be put in order (`AscendingIs`) come from the library's theorem that inclusion of finite sets is well-founded.

**Only model-checked**: liveness (`RunsEnd`, `InvocationsReturn`, `DueJobsAreServed`, `StreamsEnd`,
`UpdatesAreReached`, `AnswersAreHeard`, `LoginCallsReturn`, `DesktopServesUsers`, `UpdatesAreHandled`),
which needs fairness and ENABLED, out of this prover's reach. Every safety property that a passing run
checks is the subject of a theorem.

## 7. Where the code departs from its documentation

Three have a run with a counterexample:

- **`sessions_oldest`**: past the cap, `_runtime_for` evicts the session it has just created
  (`handlers.py:966`: `_last_used` is set after the cap is enforced), not the oldest one.
- **`streams_foreign`**: an in-process stream ends with any run's `chat_done` (`server.py:234`).
- **`settings_survive`**: `apply_config_set` loses `config_path` (`handlers.py:405-421`); later saves go to
  `data_dir/config.json`, which the next start does not read (`config.py:322-325` says that they must).

The following were met while modelling and confirmed by TLC on instances of these modules; the
definition that says it stays in the module, and no run of section 4 checks it, because it does not
hold.

| Definition | Instance | What happens |
|---|---|---|
| `ChatRuns!NeverUnconfirmed` | 2 callers, 1 saver | a settings save between two invocations leaves the old gate open for the next one (`handlers.py:463`) |
| `ChatRuns!ConfirmationIsRouted` | 1 run, 1 caller | a run that sees another thread's approval skips its request and dies in `NotImplementedError` (`handlers.py:1197`) |
| `ChatRuns!InterruptDeclines` | 1 run | an interrupt does not decline the open request; a later approval still runs the action (`handlers.py:1218`) |
| `ChatRuns!AcceptedAnswerCounts` | 1 run | an answer accepted at the moment of the timeout is lost (`handlers.py:1241`) |
| `ChatHistory!ToolsFollowTheirCall` | `Spec`, 2 runs | two runs on one session put messages between a call and its result (`handlers.py:990`) |
| `LlmCalls!RejectionIsFollowedUp` | any | `OllamaClient` counts the request without tools as an attempt, and may have none left (`llm/client.py:206`) |
| `LlmCalls!ShownIsAnswered` | streaming | a stream that breaks is asked for again; the user sees its pieces and then the answer (`llm/client.py:497`) |
| `Sessions!NothingLost` | `Spec` | a run keeps a dropped runtime and overwrites the file of its session's next one (`handlers.py:980`) |
| `Sessions!TabsNeverShare` | transport "stream" | chats over a stream ignore the session id (`server.py:203`) |
| `EventStreams!EventsAreYielded` | in-process | events published before `stream_request` subscribes are never yielded (`server.py:203`) |
| `EventStreams!FinalEventArrives` | SSE, silence | the stream closes after 300 s without a final event (`server.py:380`) |
| `EventStreams!StreamsAreSafe` without the condition on listeners | SSE | a request that fails after it has subscribed and before its run is started leaves its listener on the bus for good (`server.py:353-370`) |
| `Frontends!NoQueueIsLeft` | any | `handle(CHAT)` makes a run queue that nobody reads or destroys (`handlers.py:259`) |
| `Frontends!SocketsStayOpen` | any | an empty message raises out of the socket's loop and closes it with its runs (`web/app.py:1072`) |
| `BridgeBot!PressesCount` | any | the loop stands in the run's stream, so a press for its question is handled when that has expired or the stream has ended (`bot.py:271`) |
| `Scheduler!DueJobsAreAnnounced` | 1 crash | a crash between the save of "fired" and the callback loses the reminder (`scheduler.py:240`) |
| `Scheduler!FutureTimesAccepted` | any | an ISO time with a zone raises `TypeError` (`scheduler.py:200`) |
| `Configuration!PurgedStaysPurged` | 1 writer | a thread that saves between the purge and the exit makes the folder again (`web/app.py:148-152` says it cannot) |
| `TelegramAccounts!SwitchKeepsAccounts` | 2 accounts | switching to an account that is in no list makes it a list of its own, and the others go |
| `TelegramAccounts!MarkAddsNothing` | 1 thread | noting a login brings back an account that was removed meanwhile |
| `TelegramAccounts!UpdatesAreKept` | 2 threads | an update overwrites another that came after it had read (`handlers.py:698`) |
| `TelegramAccounts!FileKeepsUp` | 2 threads | a save that dumped first and renames last puts older settings into the file, though no save failed (`handlers.py:382-387`) |
| `TelegramAccounts!TableKeepsUp` | 2 threads | a sync that looked first and ends last makes or drops a client for settings that are no more; `_set_model` puts back the Telegram settings that it has read and syncs nothing (`handlers.py:364`, `:502-533`) |
| `TelegramLogin!WaitingLoginCanBeLeft` | 1 caller | `disconnect` returns early, `start_login` refuses, `cancel_login` has no caller: a login that waits for a code stays (`telegram/client.py:278`) |
| `TelegramLogin!StuckNever` | 2 disconnects | a disconnect that outlasts its wait takes the next login's client; the state says connected, and no login can begin |
| `TelegramTools!SendsAskForTheirAccount` | 2 accounts | a call without an account is checked for the active one and goes through the one that is active later (`telegram_actions.py:6`) |
| `Gmail!RepliesArrive` | any | a reply is made without a recipient, and no server takes it (`gmail_actions.py:101`) |
| `Gmail!PasswordIsUsed` | IMAP | a corrected password reaches the client only when Gmail is disabled and enabled again |
| `Gmail!DroppedStaysClosed` | IMAP | an action that has begun connects a dropped client again |
| `FileActions!OnlyNamedFilesGo` | 1 process | `write_file` destroys a user's `<path>.tmp`, a zip or download without a destination overwrites what has the default name, and an archive what has its members' names (`file_ops.py:312`, `:498`, `:531`, `:561`) |
| `FileActions!FailedDownloadsKeepTheFile` | 1 process | a download that fails before it writes deletes the file that was there (`file_ops.py:606`) |
| `Workspace!CardsCanBeOpened` | 1 change | the web server keeps the workspace it was made with; cards of a new workspace are not found, uploads go to the old one (`web/app.py:891`) |
| `Workspace!CardsAreMeant` | 1 command | a relative name that a command prints is looked up in the workspace, not in the folder it ran in (`handlers.py:1364`) |
| `Desktop!PidNamesTheOwner` | 2 processes | `release` deletes the PID file after closing the port, when another may own it (`single_instance.py:127-132`, against `:9-11`) |
| `Desktop!NoTrayMeansNone` | window | `--no-tray` still makes a tray icon (`desktop/app.py:664` against `:620`) |
| `Desktop!VisibleIsTrue` | 2 hands | two threads move the window and note it in the other order; the next toggle does the opposite |
| `Desktop!QuitEndsBrowser` | browser | the main loop of a browser's server is not told to end |
| `AgentTools!WritesAreAtomic` | 2 bots | two writes of one file share its temporary file (`agent/tools.py:527`) |
| `AgentTools!SearchesSayWhatTheyMiss` | 1 call | a listing that fails counts as an empty one: a search, or the tests of a project, come out empty (`agent/tools.py:423`, `:608`) |
| `AgentTools!MovesOverwriteNothing` | 1 edit | a file that comes to a destination after the plan is overwritten (`agent/tools.py:720`) |
| `AgentWorkflow!KeyNeverStored` | 1 crash | a restart forgets that a key was asked for; the key becomes a task (`agent/bot.py:374`) |
| `AgentWorkflow!SeenCardsAreAnswerable` | failing messages | the row of the card on the screen goes before the message with the newer card, which may fail: the older card is dead, the newer one unseen (`agent/bot.py:281-293`) |
| `AgentWorkflow!ApprovedActionsRun` | 1 crash | an approved action without a client is neither run nor kept (`agent/brain.py:176`) |
| `AgentWorkflow!ResetIsOfThread` | "new", "reset" | a reset deletes the pending action of another thread (`agent/storage.py:78`) |

Also, `ChatHistory!ToolsFollowTheirCall` leaves out requests that the window cuts: they can begin with a
result whose call is gone (`handlers.py:1262`).

## 8. What is not modelled

- *Data*: texts, prompts, arguments and results, event payloads, pictures, mail bodies. Safety rules are
  abstracted to whether an action asks, settings to two of them, names to whether one contains another.
- *Whole components*: GUI automation but for screenshots (drives other programs, whose state is not here; the
  Telegram Desktop driver passes a `timeout` that `focus_window` does not take and so always fails,
  `gui_advanced/telegram_desktop.py:169`, `:195`); updater,
  autostart, build and setup (sequential I/O); diagnostics, logging, notifications (no protocol).
- *Within modelled components*: `compact` and `replace_last_assistant` of the history; the global
  (run id "") events on the socket; two threads writing to one SSE socket at once; `Scheduler.stop`,
  which only tests call; relative time expressions; Telegram's media, search and
  profile calls; Gmail's message formats; git and web search of the workflow agent's tools;
  `auto_approve_mutations` and the second cloud provider of the workflow agent; stateless actions of
  `local_agent/actions` other than files, Telegram, Gmail and the scheduler.
- *External*: Telegram, Gmail, model servers, the operating system and the user are modelled by what the code
  can see of them, with every answer at any time.

## 9. What is left

1. *Abstract specifications*: a one-shot confirmation implemented by ChatRuns and by BridgeBot; a durable reminder
   implemented by Scheduler; a register of settings implemented by Configuration for one writer.
2. *Composition*: TelegramAccounts with TelegramLogin's steps in place of its atomic login; BridgeBot with ChatRuns.
3. *Reference algorithms* over bounded inputs: parsing of times and of tool arguments, the merge of settings,
   event framing, the ranking of Telegram peers.
