-------------------------------- MODULE Gmail --------------------------------
(***************************************************************************)
(* Gmail: the client with its two backends (gmail/client.py), the web      *)
(* buttons and settings that make, connect and drop it                     *)
(* (bridge/api/handlers.py), and the actions that several runs take with   *)
(* it (actions/gmail_actions.py), one at a time under handlers._lock.      *)
(*                                                                         *)
(* The IMAP backend keeps one connection under a lock and connects again   *)
(* once when it is dead; its message ids are positions in the inbox.  The  *)
(* OAuth backend has neither, and its ids are the server's own.            *)
(***************************************************************************)
EXTENDS Naturals, Sequences, FiniteSets, SequencesExt

CONSTANTS
    Mails,        \* messages that may be in the inbox
    MailAgents,   \* runs that take Gmail actions
    MaxMailCalls, \* bound: actions taken
    MaxMailEvents \* bound: mails that come or go, broken connections, web requests

ASSUME GmailAssumption == MaxMailCalls \in Nat /\ MaxMailEvents \in Nat

VARIABLES
    backend,   \* which one _build_backend picks: "imap" or "oauth"
    password,  \* gmail.app_password: "none", "wrong" or "right"
    token,     \* gmail_token.json: "none", "valid", "expired" or "revoked"
    clients,   \* the GmailClient objects made so far: [key, session, creds]
    current,   \* the one in context.extra["gmail"], or 0
    enabled,   \* gmail.enabled
    connects,  \* the client that a web request is connecting, or 0
    lock,      \* [Objects -> the run that holds the backend's lock, or "free"]
    open,      \* sessions that the server holds open
    logins,    \* sessions opened so far
    inbox,     \* the mails on the server
    unseen,    \* of them, those that are not marked read
    gone,      \* mails that were deleted
    mcall,     \* [MailAgents -> the action under way or just ended]
    listed,    \* [MailAgents -> a message of the last listing: its id and the mail]
    delivered, \* [MailAgents -> messages delivered by the action]
    mailCalls, mailEvents

account == <<password, token, enabled>>
server == <<inbox, unseen, gone>>
bounds == <<mailCalls, mailEvents>>
mailVars == <<backend, account, clients, current, connects, lock, open, logins,
              server, mcall, listed, delivered, bounds>>

Objects == 1..2      \* bound: client objects made
Sessions4 == 1..4    \* bound: connections made

NoMail == "none"
Free == "free"
NoListing == [id |-> 0, mail |-> NoMail, moved |-> FALSE]
NoCall == [verb |-> "none", at |-> "ended", client |-> 0, tries |-> 0, session |-> 0,
           seen |-> <<>>, got |-> NoMail, result |-> "none"]

GmailInit ==
    /\ backend \in {"imap", "oauth"}
    /\ password \in {"none", "wrong", "right"}
    /\ token \in {"none", "valid", "expired", "revoked"}
    /\ backend = "imap" => token = "none"
    /\ backend = "oauth" => password = "none"
    /\ clients = <<>> /\ current = 0 /\ enabled = FALSE /\ connects = 0
    /\ lock = [i \in Objects |-> Free]
    /\ open = {} /\ logins = 0
    /\ inbox \in {q \in SeqOf(Mails, 2) : Len(q) = 2 /\ q[1] # q[2]}
    /\ unseen = ToSet(inbox) /\ gone = {}
    /\ mcall = [a \in MailAgents |-> NoCall]
    /\ listed = [a \in MailAgents |-> NoListing]
    /\ delivered = [a \in MailAgents |-> 0]
    /\ mailCalls = 0 /\ mailEvents = 0

MailEvent == mailEvents < MaxMailEvents /\ mailEvents' = mailEvents + 1 /\ UNCHANGED mailCalls

-----------------------------------------------------------------------------
(* The server and other mail programs.                                     *)

MailArrives(m) ==
    /\ MailEvent /\ m \notin ToSet(inbox) \cup gone
    /\ inbox' = Append(inbox, m) /\ unseen' = unseen \cup {m}
    /\ UNCHANGED <<gone, backend, account, clients, current, connects, lock, open, logins, mcall,
                   listed, delivered>>

\* A mail is deleted elsewhere; the ones after it move up.
MailGoes(m) ==
    /\ MailEvent
    /\ \E i \in DOMAIN inbox :
         /\ inbox[i] = m /\ inbox' = RemoveAt(inbox, i)
         /\ listed' = [a \in MailAgents |-> [listed[a] EXCEPT !.moved = @ \/ i <= listed[a].id]]
    /\ unseen' = unseen \ {m} /\ gone' = gone \cup {m}
    /\ UNCHANGED <<backend, account, clients, current, connects, lock, open, logins, mcall, delivered>>

ConnectionBreaks(s) ==
    /\ MailEvent /\ s \in open
    /\ open' = open \ {s}
    /\ UNCHANGED <<backend, account, clients, current, connects, lock, logins, server, mcall,
                   listed, delivered>>

-----------------------------------------------------------------------------
(* The web requests, which the event loop handles one at a time.           *)

\* GmailClient.from_settings, which fails without a method to connect.
Configured(k) == backend = "oauth" \/ k # "none"
Made(k) == [key |-> k, session |-> 0, creds |-> "none"]
CanMake == Len(clients) < Cardinality(Objects)

\* Closes the session of a client: logout, whatever comes of it.
Closed(i) == open \ {clients[i].session}

\* _sync_gmail_client, after the settings are replaced.  A client that is there
\* stays as it was made, also when the password is another now.
SaveSettings(on, k) ==
    /\ MailEvent /\ connects = 0
    /\ enabled' = on /\ password' = k
    /\ (backend = "oauth" => k = "none")
    /\ \/ /\ on /\ current = 0 /\ Configured(k) /\ CanMake
          /\ clients' = Append(clients, Made(k)) /\ current' = Len(clients) + 1
          /\ UNCHANGED open
       \/ /\ ~on /\ current # 0 /\ lock[current] = Free
          /\ open' = Closed(current)
          /\ clients' = [clients EXCEPT ![current].session = 0, ![current].creds = "none"]
          /\ current' = 0
       \/ /\ IF on THEN current # 0 \/ ~Configured(k) ELSE current = 0
          /\ UNCHANGED <<clients, current, open>>
    /\ UNCHANGED <<backend, token, connects, lock, logins, server, mcall, listed, delivered>>

\* connect_gmail makes the client if there is none, enabled or not, and connect
\* closes the old session first.  It does not take the backend's lock.
ConnectBegins ==
    /\ MailEvent /\ connects = 0
    /\ \/ current # 0 /\ UNCHANGED <<clients, current>>
       \/ /\ current = 0 /\ Configured(password) /\ CanMake
          /\ clients' = Append(clients, Made(password)) /\ current' = Len(clients) + 1
    /\ connects' = current'
    /\ UNCHANGED <<backend, account, lock, open, logins, server, mcall, listed, delivered>>

\* What a login gives the client: a new session, if the password is right and
\* the server answers.
LogsIn(i) ==
    /\ clients[i].key = "right" /\ logins < Cardinality(Sessions4)
    /\ logins' = logins + 1
    /\ clients' = [clients EXCEPT ![i].session = logins + 1]

ImapCloses ==
    /\ backend = "imap" /\ connects # 0 /\ clients[connects].session # 0
    /\ open' = Closed(connects)
    /\ clients' = [clients EXCEPT ![connects].session = 0]
    /\ UNCHANGED <<backend, account, current, connects, lock, logins, server, mcall, listed,
                   delivered, bounds>>

ImapConnects ==
    /\ backend = "imap" /\ connects # 0 /\ connects' = 0
    /\ \/ LogsIn(connects) /\ open' = open \cup {logins'}
       \/ UNCHANGED <<clients, logins, open>>
    /\ UNCHANGED <<backend, account, current, lock, server, mcall, listed, delivered, bounds>>

\* Credentials come from the file; the ones that are not valid are refreshed,
\* which is not saved, or asked for in the browser, which is.  The service is
\* made after that and before the profile is read: whatever fails then leaves
\* the client with its credentials, and connected if the service was made.
OAuthConnects ==
    /\ backend = "oauth" /\ connects # 0 /\ connects' = 0
    /\ LET c == clients[connects]  had == IF c.creds = "none" THEN token ELSE c.creds IN
         \/ /\ had # "revoked"
            /\ \E session \in {c.session, 1} :
                 clients' = [clients EXCEPT ![connects].creds = "valid", ![connects].session = session]
            /\ token' = IF had = "none" THEN "valid" ELSE token
         \/ /\ clients' = [clients EXCEPT ![connects].creds = had]
            /\ UNCHANGED token
    /\ UNCHANGED <<backend, password, enabled, current, lock, open, logins, server, mcall,
                   listed, delivered, bounds>>

Disconnect ==
    /\ MailEvent /\ connects = 0 /\ current # 0 /\ lock[current] = Free
    /\ open' = Closed(current)
    /\ clients' = [clients EXCEPT ![current].session = 0, ![current].creds = "none"]
    /\ UNCHANGED <<backend, account, current, connects, lock, logins, server, mcall, listed, delivered>>

-----------------------------------------------------------------------------
(* The actions.                                                            *)

Step(a, place) == mcall' = [mcall EXCEPT ![a].at = place]
Ends(a, result) == mcall' = [mcall EXCEPT ![a].at = "ended", ![a].result = result]
At(a, place) == mcall[a].at = place
Uses(a) == clients[mcall[a].client]
Unlocks(a) == lock' = [lock EXCEPT ![mcall[a].client] = Free]
ServerAndWeb == <<backend, account, current, connects, server>>

\* handlers._lock is free; _client: the client is there and connected.
Take(a, verb) ==
    /\ \A b \in MailAgents : At(b, "ended")
    /\ mailCalls < MaxMailCalls
    /\ current # 0 /\ clients[current].session # 0
    /\ verb \in {"read", "reply"} => listed[a] # NoListing
    /\ mailCalls' = mailCalls + 1 /\ UNCHANGED mailEvents
    /\ mcall' = [mcall EXCEPT ![a] = [NoCall EXCEPT !.verb = verb, !.client = current,
          !.at = IF verb = "send" THEN "sending" ELSE IF backend = "oauth" THEN "selected" ELSE "waiting"]]
    /\ delivered' = [delivered EXCEPT ![a] = 0]
    /\ UNCHANGED <<ServerAndWeb, clients, lock, open, logins, listed>>

Lock(a) ==
    /\ At(a, "waiting") /\ lock[mcall[a].client] = Free
    /\ lock' = [lock EXCEPT ![mcall[a].client] = a]
    /\ Step(a, "selecting")
    /\ UNCHANGED <<ServerAndWeb, clients, open, logins, listed, delivered, bounds>>

\* _select: a client without a session connects again, also one that was
\* disconnected after the action had begun.
Reconnects(a) ==
    /\ At(a, "selecting") /\ Uses(a).session = 0
    /\ \/ /\ LogsIn(mcall[a].client) /\ open' = open \cup {logins'}
          /\ UNCHANGED <<mcall, lock>>
       \/ Ends(a, "failed") /\ Unlocks(a) /\ UNCHANGED <<clients, logins, open>>
    /\ UNCHANGED <<ServerAndWeb, listed, delivered, bounds>>

Selects(a) ==
    /\ At(a, "selecting") /\ Uses(a).session \in open
    /\ mcall' = [mcall EXCEPT ![a].at = "selected", ![a].session = Uses(a).session,
                              ![a].seen = inbox]
    /\ UNCHANGED <<ServerAndWeb, clients, lock, open, logins, listed, delivered, bounds>>

\* The session is dead: once more, and no more.
SelectFails(a) ==
    LET i == mcall[a].client IN
    /\ At(a, "selecting") /\ Uses(a).session # 0 /\ Uses(a).session \notin open
    /\ clients' = [clients EXCEPT ![i].session = 0]
    /\ IF mcall[a].tries = 0 THEN mcall' = [mcall EXCEPT ![a].tries = 1] /\ UNCHANGED lock
                             ELSE Ends(a, "failed") /\ Unlocks(a)
    /\ UNCHANGED <<ServerAndWeb, open, logins, listed, delivered, bounds>>

\* The id a listing gives to a message.
IdOf(seen, m) == CHOOSE n \in DOMAIN seen : seen[n] = m

\* The mail that an id names.
MailOf(a) ==
    LET id == listed[a].id IN
    IF backend = "oauth"
    THEN IF listed[a].mail \in ToSet(inbox) THEN listed[a].mail ELSE NoMail
    ELSE IF id <= Len(mcall[a].seen) /\ mcall[a].seen[id] \in ToSet(inbox)
         THEN mcall[a].seen[id] ELSE NoMail

\* _fetch_messages: a fetch of the whole message marks it read, so that the
\* next list_unread does not show it.  The API's get does not.
Lists(a) ==
    LET seen == IF backend = "imap" THEN mcall[a].seen ELSE inbox IN
    /\ At(a, "selected") /\ mcall[a].verb = "list"
    /\ backend = "imap" => mcall[a].session \in open
    /\ \/ \E m \in unseen \cap ToSet(seen) :
            /\ listed' = [listed EXCEPT ![a] = [id |-> IdOf(seen, m), mail |-> m,
                 moved |-> \E i \in DOMAIN seen : seen[i] \notin ToSet(inbox)]]
            /\ unseen' = IF backend = "imap" THEN unseen \ ToSet(seen) ELSE unseen
       \/ unseen \cap ToSet(seen) = {} /\ UNCHANGED <<listed, unseen>>
    /\ Ends(a, "ok")
    /\ IF backend = "imap" THEN Unlocks(a) ELSE UNCHANGED lock
    /\ UNCHANGED <<backend, account, current, connects, inbox, gone, clients, open, logins, delivered, bounds>>

\* read and download_attachment, and the first half of reply.
Reads(a) ==
    LET m == MailOf(a) IN
    /\ At(a, "selected") /\ mcall[a].verb \in {"read", "reply"}
    /\ backend = "imap" => mcall[a].session \in open
    /\ \/ m = NoMail /\ Ends(a, "failed")
       \/ /\ m # NoMail /\ mcall[a].verb = "reply"
          /\ mcall' = [mcall EXCEPT ![a].at = "replying", ![a].got = m]
       \/ /\ m # NoMail /\ mcall[a].verb = "read"
          /\ mcall' = [mcall EXCEPT ![a].at = "ended", ![a].result = "ok", ![a].got = m]
    /\ unseen' = IF backend = "imap" THEN unseen \ {m} ELSE unseen
    /\ IF backend = "imap" THEN Unlocks(a) ELSE UNCHANGED lock
    /\ UNCHANGED <<backend, account, current, connects, inbox, gone, clients, open, logins, listed,
                   delivered, bounds>>

\* The connection is gone, closed by the web's connect, or the API fails.
FetchFails(a) ==
    /\ At(a, "selected")
    /\ backend = "imap" => mcall[a].session \notin open
    /\ Ends(a, "failed")
    /\ IF backend = "imap" THEN Unlocks(a) ELSE UNCHANGED lock
    /\ UNCHANGED <<ServerAndWeb, clients, open, logins, listed, delivered, bounds>>

\* Mutation: a failed delivery is tried again.
SendsAgain(a) ==
    /\ At(a, "sending") /\ delivered[a] < 2
    /\ \/ Ends(a, "ok") /\ delivered' = [delivered EXCEPT ![a] = @ + 1]
       \/ delivered' = [delivered EXCEPT ![a] = @ + 1] /\ UNCHANGED mcall
    /\ UNCHANGED <<ServerAndWeb, clients, lock, open, logins, listed, bounds>>

\* send: SMTP or the API takes the message, refuses it, or takes it and the
\* answer is lost.
Sends(a) ==
    /\ At(a, "sending")
    /\ \/ Ends(a, "ok") /\ delivered' = [delivered EXCEPT ![a] = @ + 1]
       \/ Ends(a, "failed") /\ UNCHANGED delivered
       \/ Ends(a, "failed") /\ delivered' = [delivered EXCEPT ![a] = @ + 1]
    /\ UNCHANGED <<ServerAndWeb, clients, lock, open, logins, listed, bounds>>

\* reply: _build_mime_reply names no recipient, and the server refuses a
\* message without one.
Replies(a) ==
    /\ At(a, "replying")
    /\ Ends(a, "failed")
    /\ UNCHANGED <<ServerAndWeb, clients, lock, open, logins, listed, delivered, bounds>>

MailStep(a) ==
    \/ Lock(a) \/ Reconnects(a) \/ Selects(a) \/ SelectFails(a)
    \/ Lists(a) \/ Reads(a) \/ FetchFails(a) \/ Sends(a) \/ Replies(a)

WebStep ==
    \/ \E on \in BOOLEAN, k \in {"none", "wrong", "right"} : SaveSettings(on, k)
    \/ ConnectBegins \/ ImapCloses \/ ImapConnects \/ OAuthConnects \/ Disconnect

GmailNext ==
    \/ \E m \in Mails : MailArrives(m) \/ MailGoes(m)
    \/ \E s \in open : ConnectionBreaks(s)
    \/ WebStep
    \/ \E a \in MailAgents :
         \/ \E verb \in {"list", "read", "reply", "send"} : Take(a, verb)
         \/ MailStep(a)

GmailSpec == GmailInit /\ [][GmailNext]_mailVars

-----------------------------------------------------------------------------
(* Properties.                                                             *)

\* An id that a listing gave still names its mail when it is read or answered,
\* across lost connections, reconnections and new mail, unless a mail before
\* it was deleted: the IMAP backend's ids are positions in the inbox.
IdsNameTheirMail ==
    \A a \in MailAgents :
      mcall[a].got # NoMail => mcall[a].got = listed[a].mail \/ (backend = "imap" /\ listed[a].moved)

\* A message that is reported as sent was delivered once, and no action
\* delivers one twice, whatever is connected again on the way.
SendsAreTold ==
    \A a \in MailAgents :
      /\ delivered[a] <= 1
      /\ mcall[a].verb = "send" /\ mcall[a].result = "ok" => delivered[a] = 1

\* What a Gmail client is for: actions act on the mail they name, and tell what
\* they did.
GmailSafe == IdsNameTheirMail /\ SendsAreTold

\* gmail.reply answers the mail that it names (gmail_actions.py:98-102).  Not
\* so in the code: no server accepts a message without a recipient.
RepliesArrive ==
    [][\A a \in MailAgents :
         At(a, "replying") /\ mcall'[a].at = "ended" => mcall'[a].result = "ok"]_mailVars

\* Not so in the code: a corrected password reaches the client only when Gmail
\* is disabled and enabled again.
PasswordIsUsed ==
    [][ImapConnects => clients[connects].key = password]_mailVars

\* Not so in the code: an action that has begun connects a dropped client
\* again, and nobody can close that session.
DroppedStaysClosed == open \subseteq {clients[i].session : i \in {current} \ {0}}
=============================================================================
