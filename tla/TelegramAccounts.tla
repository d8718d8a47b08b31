--------------------------- MODULE TelegramAccounts ---------------------------
(***************************************************************************)
(* The personal Telegram accounts of the Bridge (bridge/api/handlers.py):  *)
(* the settings that list them, config.json, one client per enabled        *)
(* account, and the logins, toggles and removals that several threads      *)
(* perform.  An update reads the Telegram settings, builds new ones, and   *)
(* swaps them in (_apply_settings): memory, file, clients, in that order   *)
(* and with no lock of their own.  The file is written from a dump through *)
(* a temporary file that all threads share; the clients are dropped and    *)
(* made one by one, for the settings as they were when the sync began.     *)
(* That two writers may also mix their texts is in Configuration.          *)
(*                                                                         *)
(* A login is one step that ends some time after it began; what goes on    *)
(* inside a client is the subject of TelegramLogin.                        *)
(***************************************************************************)
EXTENDS Naturals, FiniteSets, Functions

CONSTANTS
    Names,       \* account names
    DefaultName, \* the name that stands for "no active account"
    Threads,     \* threads that serve users: web, agent
    MaxClients,  \* bound: PersonalTelegram objects ever made
    MaxUpdates,  \* bound: operations begun by users
    MaxCrashes   \* bound: restarts of the process

ASSUME AccountsAssumption ==
    /\ DefaultName \in Names
    /\ IsFiniteSet(Names)
    /\ MaxClients \in Nat /\ Cardinality(Names) <= MaxClients
    /\ MaxUpdates \in Nat /\ MaxCrashes \in Nat

Clients == 1..MaxClients
NoClient == 0

VARIABLES
    tgSettings,   \* settings.telegram
    config,       \* the same, in config.json
    tmpText,      \* the text in config.json.tmp, if there is one
    table,        \* [Names -> client] _telegram_accounts
    mirror,       \* handlers.telegram, the active account's client
    built,        \* how many clients there have been
    tgclient,     \* [Clients -> the account it is for and its login state]
    sessionFiles, \* the accounts with a valid session file
    job,          \* [thread -> the operation it performs]
    updates,      \* operations begun by users
    crashes,      \* restarts
    asked,        \* accounts given a client by a login since the last sync
    lost,         \* accounts whose login raised after it had connected
    unsaved,      \* did the last save fail?
    orphaned,     \* clients that lost their place while connected or logging in
    savesMet,     \* did the last save begin while another went on?
    syncsMet      \* did the last sync begin while another went on, or have older
                  \* settings come back since, with a save that makes no sync?

accountsVars == <<tgSettings, config, tmpText, table, mirror, built, tgclient, sessionFiles, job,
                  updates, crashes, asked, lost, unsaved, orphaned, savesMet, syncsMet>>
clientVars == <<table, mirror, built, tgclient, sessionFiles, asked, lost, orphaned>>
fileVars == <<config, tmpText, unsaved, savesMet>>
countVars == <<updates, crashes>>

\* Each account that was in the table at the start may have a thread that
\* connects it in the background; it is named after the account.
Workers == Threads \cup Names
Unlisted == [in |-> FALSE, on |-> FALSE, cred |-> FALSE]
NoSettings == [feature |-> FALSE, active |-> DefaultName, acc |-> [n \in Names |-> Unlisted]]
NoJob == [at |-> "idle", op |-> "none", name |-> DefaultName,
          client |-> NoClient, seen |-> NoSettings, todo |-> {}]

\* TelegramSettings.account: an unknown name yields a disabled placeholder.
Account(tg, n) == tg.acc[n]
Put(tg, n, a) == [tg EXCEPT !.acc[n] = a]
Has(tg, n) == tg.acc[n].in
Desired(tg) == {n \in Names : tg.feature /\ tg.acc[n].in /\ tg.acc[n].on}

-----------------------------------------------------------------------------
(* What each operation makes of the settings it has read.                  *)

\* _mark_account_enabled; of an account that is gone it keeps the name only.
Marked(tg, n) ==
    [Put(tg, n, [Account(tg, n) EXCEPT !.in = TRUE, !.on = TRUE])
       EXCEPT !.feature = TRUE]

\* switch_telegram_account.  An active account that is not in the list is
\* taken for a list that has not been filled yet.
Switched(tg, n) ==
    IF Has(tg, n)
    THEN [Put(tg, n, [Account(tg, n) EXCEPT !.on = TRUE]) EXCEPT !.active = n]
    ELSE [tg EXCEPT !.active = n,
                    !.acc = [m \in Names |-> IF m = n THEN [Unlisted EXCEPT !.in = TRUE, !.on = TRUE]
                                                      ELSE Unlisted]]

\* add_telegram_account: disabled, with the credentials of the active one.
Added(tg, n) == Put(tg, n, [in |-> TRUE, on |-> FALSE,
                            cred |-> Account(tg, tg.active).cred])

\* remove_telegram_account.
Removed(tg, n) ==
    LET rest == {m \in Names \ {n} : Has(tg, m)} IN
    {[Put(tg, n, Unlisted) EXCEPT !.active = a] :
        a \in IF tg.active # n THEN {tg.active}
              ELSE IF rest = {} THEN {DefaultName} ELSE rest}

\* config_set telegram.enabled, which also sets the active account's flag.
FeatureSet(tg, on) ==
    LET n == tg.active IN
    [Put(tg, n, IF Has(tg, n) \/ \A m \in Names : ~Has(tg, m)
                THEN [Account(tg, n) EXCEPT !.in = TRUE, !.on = on]
                ELSE Unlisted) EXCEPT !.feature = on]

\* What an operation checks before it changes anything.
Accepts(tg, op, n) ==
    CASE op \in {"turn on", "turn off", "remove"} -> Has(tg, n)
      [] op = "switch" -> Has(tg, n) \/ n = tg.active
      [] op = "add" -> ~Has(tg, n)
      [] op \in {"feature on", "feature off", "active", "save"} -> TRUE

\* The settings that an operation builds.
Changed(tg, op, n) ==
    CASE op = "turn on"     -> {Put(tg, n, [Account(tg, n) EXCEPT !.on = TRUE])}
      [] op = "turn off"    -> {Put(tg, n, [Account(tg, n) EXCEPT !.on = FALSE])}
      [] op = "switch"      -> {Switched(tg, n)}
      [] op = "add"         -> {Added(tg, n)}
      [] op = "remove"      -> Removed(tg, n)
      [] op = "active"      -> {[tg EXCEPT !.active = n]}
      [] op = "feature on"  -> {FeatureSet(tg, TRUE)}
      [] op = "feature off" -> {FeatureSet(tg, FALSE)}
      [] op = "save"        -> {tg}
      [] op = "mark"        -> {Marked(tg, n)}

Updates == {"turn on", "turn off", "switch", "add", "remove", "active",
            "feature on", "feature off"}

\* A save is _set_model's, which changes another setting: it puts the Telegram
\* settings that it has read back, and looks at no client.
Operations == Updates \cup {"save"}

\* Between its dump and its replace, and between its look at the settings and
\* its end, a thread relies on what others may change.
Saving(t) == job[t].at \in {"write", "replace"}
Syncing(t) == job[t].at \in {"drop", "disconnect", "create", "put"}

AtRest == \A t \in Workers : job[t].at \in {"idle", "login"}

-----------------------------------------------------------------------------
(* _sync_telegram_accounts.                                                *)

\* The accounts that get a new client: enabled, complete and without one.
Missing(tg, tab) == {n \in Desired(tg) : tg.acc[n].cred /\ tab[n] = NoClient}

\* The accounts that lose theirs.
Superfluous(tg) == {n \in Names : table[n] # NoClient} \ Desired(tg)

\* New clients for the given accounts, numbered from m + 1.
NewClients(new, m) ==
    CHOOSE f \in [new -> (m + 1)..(m + Cardinality(new))] : IsInjective(f)

WithNew(number, states) ==
    [c \in Clients |->
        IF c \in Range(number)
        THEN [of |-> CHOOSE n \in DOMAIN number : number[n] = c, state |-> "disconnected"]
        ELSE states[c]]

LoginIn(c) == \E t \in Workers : job[t].at = "login" /\ job[t].client = c

Table(tab, number) ==
    [n \in Names |-> IF n \in DOMAIN number THEN number[n] ELSE tab[n]]

NoClients == [n \in Names |-> NoClient]
FreshClient == [of |-> DefaultName, state |-> "disconnected"]

\* _start_telegram_auto_connect: a thread for each client with a session.
AutoConnect(number) ==
    [t \in Workers |-> IF t \in DOMAIN number \cap sessionFiles
                       THEN [NoJob EXCEPT !.at = "login", !.op = "start", !.name = t,
                                          !.client = number[t]]
                       ELSE NoJob]

\* BridgeHandlers.build: clients are made from the file's settings, and those
\* with a session file are connected in the background.
AccountsInit ==
    /\ config \in [feature : BOOLEAN, active : {DefaultName},
                 acc : [Names -> {Unlisted, [in |-> TRUE, on |-> FALSE, cred |-> TRUE],
                                  [in |-> TRUE, on |-> TRUE, cred |-> TRUE]}]]
    /\ Has(config, DefaultName)
    /\ tgSettings = config /\ tmpText = {}
    /\ sessionFiles \in SUBSET {n \in Names : Has(config, n)}
    /\ LET new == Desired(config)  number == NewClients(new, 0) IN
         /\ table = Table(NoClients, number)
         /\ tgclient = WithNew(number, [c \in Clients |-> FreshClient])
         /\ built = Cardinality(new)
         /\ mirror = table[config.active]
         /\ job = AutoConnect(number)
    /\ updates = 0
    /\ crashes = 0
    /\ asked = {}
    /\ lost = {}
    /\ orphaned = {}
    /\ unsaved = FALSE /\ savesMet = FALSE /\ syncsMet = FALSE

\* The process ends at any point and starts again from the file.
Restarted ==
    /\ crashes < MaxCrashes
    /\ crashes' = crashes + 1
    /\ tgSettings' = config
    /\ LET new == Missing(config, NoClients)  number == NewClients(new, built) IN
         /\ built + Cardinality(new) <= MaxClients
         /\ built' = built + Cardinality(new)
         /\ table' = Table(NoClients, number)
         /\ tgclient' = WithNew(number, [c \in Clients |->
                                 [tgclient[c] EXCEPT !.state = "disconnected"]])
         /\ mirror' = table'[config.active]
         /\ job' = AutoConnect(number)
    /\ asked' = {} /\ lost' = {} /\ orphaned' = {}
    /\ savesMet' = FALSE /\ syncsMet' = FALSE
    /\ UNCHANGED <<config, tmpText, sessionFiles, updates, unsaved>>

-----------------------------------------------------------------------------
(* Updates of the settings.                                                *)

\* An operation reads the settings and checks its arguments;
\* remove_telegram_account also takes the client from the table.
Begin(t, op, n) ==
    /\ job[t] = NoJob /\ updates < MaxUpdates
    /\ Accepts(tgSettings, op, n)
    /\ op \in {"feature on", "feature off", "save"} => n = DefaultName
    /\ updates' = updates + 1
    /\ job' = [job EXCEPT ![t] = [NoJob EXCEPT !.at = IF op = "remove" THEN "remove" ELSE "set",
                                    !.op = op, !.name = n, !.seen = tgSettings,
                                    !.client = IF op = "remove" THEN table[n] ELSE NoClient]]
    /\ table' = IF op = "remove" THEN [table EXCEPT ![n] = NoClient] ELSE table
    /\ UNCHANGED <<tgSettings, fileVars, mirror, built, tgclient, sessionFiles, crashes,
                   asked, lost, orphaned, syncsMet>>

\* Its disconnect waits for a login that holds the client's lock.  Then the
\* session file goes.
Dispose(t) ==
    LET c == job[t].client IN
    /\ job[t].at = "remove"
    /\ ~LoginIn(c)
    /\ tgclient' = IF c # NoClient /\ tgclient[c].state = "connected"
                 THEN [tgclient EXCEPT ![c].state = "disconnected"] ELSE tgclient
    /\ sessionFiles' = sessionFiles \ {job[t].name}
    /\ job' = [job EXCEPT ![t].at = "set", ![t].client = NoClient]
    /\ UNCHANGED <<tgSettings, fileVars, table, mirror, built, countVars, asked, lost, orphaned,
                   syncsMet>>

\* _apply_settings, or _set_model: the new settings are those the operation has
\* built from what it read.
Set(t) ==
    /\ job[t].at = "set"
    /\ tgSettings' \in Changed(job[t].seen, job[t].op, job[t].name)
    /\ job' = [job EXCEPT ![t].at = "dump", ![t].seen = NoSettings]
    /\ syncsMet' = IF job[t].op = "save" /\ tgSettings' # tgSettings THEN TRUE ELSE syncsMet
    /\ UNCHANGED <<fileVars, clientVars, countVars>>

\* After the save: an update goes on to the clients.
AfterSave(t) == IF job[t].op = "save" THEN NoJob
                ELSE [job[t] EXCEPT !.at = "sync", !.seen = NoSettings]

\* _persist_settings dumps what the settings are by now,
Dump(t) ==
    /\ job[t].at = "dump"
    /\ job' = [job EXCEPT ![t].at = "write", ![t].seen = tgSettings]
    /\ savesMet' = \E u \in Workers \ {t} : Saving(u)
    /\ UNCHANGED <<tgSettings, config, tmpText, unsaved, clientVars, countVars, syncsMet>>

\* writes the dump to the temporary file,
WriteTmp(t) ==
    /\ job[t].at = "write"
    /\ tmpText' = {job[t].seen}
    /\ job' = [job EXCEPT ![t].at = "replace"]
    /\ UNCHANGED <<tgSettings, config, unsaved, savesMet, clientVars, countVars, syncsMet>>

\* and renames that file, whoever wrote it last.
RenameTmp(t) ==
    /\ job[t].at = "replace"
    /\ config' \in tmpText
    /\ tmpText' = {} /\ unsaved' = FALSE
    /\ job' = [job EXCEPT ![t] = AfterSave(t)]
    /\ UNCHANGED <<tgSettings, savesMet, clientVars, countVars, syncsMet>>

\* A write or a rename that fails is logged; so is a rename whose file
\* another thread has renamed.
SaveFails(t) ==
    /\ job[t].at \in {"write", "replace"}
    /\ unsaved' = TRUE
    /\ job' = [job EXCEPT ![t] = AfterSave(t)]
    /\ UNCHANGED <<tgSettings, config, tmpText, savesMet, clientVars, countVars, syncsMet>>

-----------------------------------------------------------------------------
(* _sync_telegram_accounts: clients of accounts that are not enabled go,   *)
(* missing ones are made, the accessor follows the active account.         *)

\* It works on the settings as they are now.
BeginSync(t) ==
    /\ job[t].at = "sync"
    /\ job' = [job EXCEPT ![t].at = "drop", ![t].seen = tgSettings,
                          ![t].todo = Superfluous(tgSettings)]
    /\ asked' = {}
    /\ syncsMet' = \E u \in Workers \ {t} : Syncing(u)
    /\ UNCHANGED <<tgSettings, fileVars, table, mirror, built, tgclient, sessionFiles, countVars,
                   lost, orphaned>>

\* A superfluous client is taken from the table; one that another thread has
\* taken already ends the operation with a KeyError.
TakeOut(t) ==
    /\ job[t].at = "drop"
    /\ \E n \in job[t].todo :
         IF table[n] = NoClient
         THEN job' = [job EXCEPT ![t] = NoJob] /\ UNCHANGED table
         ELSE /\ job' = [job EXCEPT ![t].at = "disconnect", ![t].client = table[n],
                                    ![t].todo = @ \ {n}, ![t].name = n]
              /\ table' = [table EXCEPT ![n] = NoClient]
    /\ UNCHANGED <<tgSettings, fileVars, mirror, built, tgclient, sessionFiles, countVars, asked,
                   lost, orphaned, syncsMet>>

\* A connected one is disconnected, after the login that holds its lock; one
\* in which a login is going on may still connect.
DropClient(t) ==
    LET c == job[t].client IN
    /\ job[t].at = "disconnect"
    /\ IF tgclient[c].state = "connected"
       THEN /\ ~LoginIn(c)
            /\ tgclient' = [tgclient EXCEPT ![c].state = "disconnected"]
            /\ UNCHANGED orphaned
       ELSE /\ orphaned' = IF LoginIn(c) THEN orphaned \cup {c} ELSE orphaned
            /\ UNCHANGED tgclient
    /\ job' = [job EXCEPT ![t].at = "drop", ![t].client = NoClient]
    /\ UNCHANGED <<tgSettings, fileVars, table, mirror, built, sessionFiles, countVars, asked, lost,
                   syncsMet>>

\* The accounts that may need a client.
BeginCreate(t) ==
    /\ job[t].at = "drop" /\ job[t].todo = {}
    /\ job' = [job EXCEPT ![t].at = "create",
                          ![t].todo = {n \in Desired(job[t].seen) : job[t].seen.acc[n].cred}]
    /\ UNCHANGED <<tgSettings, fileVars, clientVars, countVars, syncsMet>>

\* An account in the table has one.
LookUp(t) ==
    /\ job[t].at = "create"
    /\ \E n \in job[t].todo :
         job' = [job EXCEPT ![t].at = IF table[n] = NoClient THEN "put" ELSE "create",
                            ![t].name = n, ![t].todo = @ \ {n}]
    /\ UNCHANGED <<tgSettings, fileVars, clientVars, countVars, syncsMet>>

\* A new client takes its place in the table, and that of a client that
\* another thread has put there since the table was looked at.
PutNew(t) ==
    LET n == job[t].name IN
    /\ built < MaxClients
    /\ built' = built + 1
    /\ table' = [table EXCEPT ![n] = built + 1]
    /\ tgclient' = [tgclient EXCEPT ![built + 1] = [of |-> n, state |-> "disconnected"]]
    /\ orphaned' = orphaned \cup
         {c \in {table[n]} \ {NoClient} : tgclient[c].state = "connected" \/ LoginIn(c)}
    /\ UNCHANGED <<tgSettings, fileVars, mirror, sessionFiles, countVars, lost, syncsMet>>

CreateClient(t) ==
    /\ job[t].at = "put"
    /\ PutNew(t)
    /\ job' = [job EXCEPT ![t].at = "create"]
    /\ UNCHANGED asked

MirrorOf(n) == table[n]

EndSync(t) ==
    /\ job[t].at = "create" /\ job[t].todo = {}
    /\ mirror' = MirrorOf(job[t].seen.active)
    /\ job' = [job EXCEPT ![t] = NoJob]
    /\ UNCHANGED <<tgSettings, fileVars, table, built, tgclient, sessionFiles, countVars, asked, lost,
                   orphaned, syncsMet>>

-----------------------------------------------------------------------------
(* Logins.                                                                 *)

\* start_telegram_login, submit_telegram_code, submit_telegram_password:
\* _account_client looks whether the account has a client,
RequestLogin(t, n, op) ==
    /\ job[t] = NoJob /\ updates < MaxUpdates
    /\ table[n] = NoClient => Account(tgSettings, n).cred
    /\ updates' = updates + 1
    /\ job' = [job EXCEPT ![t] = [NoJob EXCEPT !.op = op, !.name = n,
                                    !.at = IF table[n] = NoClient THEN "make" ELSE "take"]]
    /\ UNCHANGED <<tgSettings, fileVars, clientVars, crashes, syncsMet>>

\* makes one if it had none,
MakeClient(t) ==
    /\ job[t].at = "make"
    /\ PutNew(t)
    /\ asked' = asked \cup {job[t].name}
    /\ job' = [job EXCEPT ![t].at = "take"]

\* and takes the one that is in the table now.  If that has gone, or waits
\* for no code, the request is refused.
TakeClient(t) ==
    LET c == table[job[t].name] IN
    /\ job[t].at = "take"
    /\ job' = [job EXCEPT ![t] =
         IF c # NoClient /\ (job[t].op = "submit" => tgclient[c].state = "await_code")
         THEN [@ EXCEPT !.at = "login", !.client = c] ELSE NoJob]
    /\ UNCHANGED <<tgSettings, fileVars, clientVars, countVars, syncsMet>>

\* Mutation: a login that needed no code is not noted in the settings.
NotesLoginByCode(op) == op = "submit"

\* A login that has connected is noted in the settings.
NotesLogin(op) == TRUE

\* The login returns: it fails, asks for a code, connects, or raises after it
\* has connected.  A connected one goes on to _mark_account_enabled.
EndLogin(t) ==
    LET c == job[t].client  n == job[t].name IN
    /\ job[t].at = "login"
    /\ \/ /\ tgclient[c].state # "connected"
          /\ job' = [job EXCEPT ![t] = NoJob]
          /\ tgclient' = IF job[t].op = "start" /\ n \notin sessionFiles
                       THEN [tgclient EXCEPT ![c].state = "await_code"] ELSE tgclient
          /\ UNCHANGED <<sessionFiles, lost>>
       \/ /\ job[t].op = "submit" \/ n \in sessionFiles \/ tgclient[c].state = "connected"
          /\ tgclient' = [tgclient EXCEPT ![c].state = "connected"]
          /\ sessionFiles' = sessionFiles \cup {n}
          /\ \/
                /\ NotesLogin(job[t].op)
                /\ job' = [job EXCEPT ![t].at = "set", ![t].op = "mark",
                                      ![t].client = NoClient, ![t].seen = tgSettings]
                /\ UNCHANGED lost
             \/ /\ ~NotesLogin(job[t].op)
                /\ job' = [job EXCEPT ![t] = NoJob]
                /\ UNCHANGED lost
             \/ /\ tgclient[c].state # "connected"
                /\ job' = [job EXCEPT ![t] = NoJob]
                /\ lost' = lost \cup {n}
    /\ UNCHANGED <<tgSettings, fileVars, table, mirror, built, countVars, asked, orphaned, syncsMet>>

\* disconnect_telegram.
Disconnected(t, n) ==
    /\ job[t] = NoJob /\ updates < MaxUpdates
    /\ table[n] # NoClient /\ tgclient[table[n]].state = "connected"
    /\ updates' = updates + 1
    /\ tgclient' = [tgclient EXCEPT ![table[n]].state = "disconnected"]
    /\ UNCHANGED <<tgSettings, fileVars, table, mirror, built, sessionFiles, job, crashes,
                   asked, lost, orphaned, syncsMet>>

AccountsNext ==
    \/ Restarted
    \/ \E t \in Threads, n \in Names :
         \/ \E op \in Operations : Begin(t, op, n)
         \/ RequestLogin(t, n, "start") \/ RequestLogin(t, n, "submit")
         \/ Disconnected(t, n)
    \/ \E t \in Workers :
         \/ Dispose(t) \/ Set(t)
         \/ Dump(t) \/ WriteTmp(t) \/ RenameTmp(t) \/ SaveFails(t)
         \/ BeginSync(t) \/ TakeOut(t) \/ DropClient(t)
         \/ BeginCreate(t) \/ LookUp(t) \/ CreateClient(t) \/ EndSync(t)
         \/ MakeClient(t) \/ TakeClient(t) \/ EndLogin(t)

AccountsSpec == AccountsInit /\ [][AccountsNext]_accountsVars

-----------------------------------------------------------------------------
(* Properties.  A connected client may be lost to its account in two ways  *)
(* that the code leaves open: its login raised after connecting (lost), or *)
(* it lost its place in the table meanwhile (orphaned).  Two saves that    *)
(* meet may leave the older settings in the file, and two syncs that meet  *)
(* the clients of the older ones in the table; so may a save that puts     *)
(* older settings back.                                                    *)

\* Types; the table has an account's own clients and no client twice.
AccountsTypeOK ==
    /\ \A n \in Names : table[n] # NoClient => tgclient[table[n]].of = n
    /\ \A m, n \in Names : m # n => table[m] = NoClient \/ table[m] # table[n]
    /\ mirror \in 0..built
    /\ \A c \in Clients : tgclient[c].state \in {"disconnected", "await_code", "connected"}

\* Whenever no update is going on, the clients are those of the enabled
\* accounts, and those that a login has asked for.
TableFollowsSettings ==
    AtRest /\ ~syncsMet => \A n \in Names :
      /\ n \in Desired(tgSettings) /\ tgSettings.acc[n].cred => table[n] # NoClient
      /\ table[n] # NoClient => n \in Desired(tgSettings) \cup asked

\* The file has the settings, unless it could not be written.
FileIsCurrent == AtRest /\ ~unsaved /\ ~savesMet => config = tgSettings

\* "after a restart _sync_telegram_accounts rebuilds a client": an account
\* that is connected is enabled in the file, unless that could not be written.
ConnectedIsRemembered ==
    AtRest /\ ~unsaved /\ ~savesMet /\ ~syncsMet => \A n \in Names :
      table[n] # NoClient /\ tgclient[table[n]].state = "connected" =>
        n \in Desired(config) \cup lost

\* The single-account accessor is the active account's client once that is
\* connected; tools act through it when no account is named.
MirrorIsActive ==
    AtRest /\ ~syncsMet => LET n == tgSettings.active IN
      table[n] # NoClient /\ tgclient[table[n]].state = "connected" =>
        mirror = table[n] \/ n \in lost

\* A client outside the table has no connection, unless a login was going on
\* in it when it was dropped, or it was replaced by another.
NoStrayConnection ==
    AtRest => \A c \in 1..built :
      tgclient[c].state = "connected" => c = table[tgclient[c].of] \/ c \in orphaned

\* What the account operations of BridgeHandlers leave behind, in one property.
AccountsSafe ==
    /\ AccountsTypeOK /\ TableFollowsSettings /\ FileIsCurrent /\ ConnectedIsRemembered
    /\ MirrorIsActive /\ NoStrayConnection

\* Not properties of the code: the same of saves and syncs that meet.  A
\* dump that is written after a newer one brings the older settings back,
\* and a sync that began before another one makes or drops a client for the
\* settings that it saw.
FileKeepsUp == AtRest /\ ~unsaved => config = tgSettings
TableKeepsUp ==
    AtRest => \A n \in Names :
      /\ n \in Desired(tgSettings) /\ tgSettings.acc[n].cred => table[n] # NoClient
      /\ table[n] # NoClient => n \in Desired(tgSettings) \cup asked

\* Switching to an account removes no other account.  Not so in the code: an
\* active account that is not in the list makes it a list of its own.
SwitchKeepsAccounts ==
    [][\A t \in Workers : job[t].op = "switch" /\ job[t].at = "set" /\ tgSettings' # tgSettings =>
         \A n \in Names : Has(tgSettings, n) => Has(tgSettings', n)]_accountsVars

\* Not a property of the code: noting a login brings no account back that
\* has been removed while the login went on.
MarkAddsNothing ==
    [][\A t \in Workers : job[t].at = "set" /\ job[t].op = "mark" /\ tgSettings' # tgSettings =>
         \A n \in Names : Has(tgSettings', n) => Has(tgSettings, n)]_accountsVars

\* Not a property of the code: an update builds on the
\* settings that it replaces, so that none is lost.
UpdatesAreKept ==
    [][\A t \in Workers : job[t].at = "set" /\ job'[t].at = "dump" =>
         job[t].seen = tgSettings]_accountsVars
=============================================================================
