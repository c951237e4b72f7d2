----------------------------- MODULE Dialogues -----------------------------
(***************************************************************************)
(* What the protocol emulators of internal/services do with each message   *)
(* of a client, as operators from a dialogue and a message to the next     *)
(* dialogue.  A dialogue keeps the position of the handler, the number of  *)
(* rounds it has gone, the user name it remembers and the credentials it   *)
(* will report; `next` says what the handler does now: block in a read,    *)
(* sleep, or return its result.  Replies, details and tags are left out.   *)
(***************************************************************************)
EXTENDS Naturals, Sequences

CONSTANTS
    Name,            \* user names a client may send
    Secret,          \* secrets a client may send
    SessionLines,    \* maxSessionLines
    LoginRounds,     \* login attempts of telnetHandler
    SshTries,        \* MaxAuthTries
    StartupMessages, \* startup messages of postgresHandler
    SipMessages      \* sipMaxMessages

ASSUME DialogueAssumption ==
    {SessionLines, LoginRounds, SshTries, StartupMessages, SipMessages} \subseteq Nat \ {0}

LineKinds == {"ftp", "pop3", "smtp", "redis"}
TcpKinds == LineKinds \cup {"telnet", "ssh", "postgres", "mysql", "mqtt", "rdp", "sip",
                            "vnc", "minecraft", "lightning", "banner"}

\* Kinds that read through a bufio.Reader: what is buffered is delivered even
\* when the deadline of the connection has passed.
Buffered == LineKinds \cup {"telnet", "sip"}

Msg(cmd, user, secret) == [cmd |-> cmd, user |-> user, secret |-> secret]
Nothing == Msg("", "", "")
Plain(cmds) == {Msg(cmd, "", "") : cmd \in cmds}
Naming(cmd) == {Msg(cmd, u, "") : u \in Name}
Login(cmd) == {Msg(cmd, u, s) : u \in Name, s \in Secret}

\* The messages that the handler of a kind tells apart.
Vocabulary(kind) ==
    CASE kind \in {"ftp", "pop3"} ->
            Naming("USER") \cup {Msg("PASS", "", s) : s \in Secret} \cup Plain({"QUIT", "other"})
      [] kind = "smtp" ->
            Login("AUTH PLAIN") \cup Naming("text") \cup Plain({"AUTH LOGIN", "QUIT", "other"})
      [] kind = "redis" ->
            Login("AUTH") \cup {Msg("AUTH", "", s) : s \in Secret} \cup Plain({"QUIT", "other"})
      [] kind = "telnet" -> Naming("text")
      [] kind = "ssh" -> Login("attempt")
      [] kind = "postgres" ->
            Naming("startup") \cup {Msg("password", "", s) : s \in Secret}
            \cup Plain({"ssl", "cancel", "version", "oversized"})
      [] kind = "mysql" -> Login("handshake") \cup Plain({"ssl", "malformed", "oversized"})
      [] kind = "mqtt" -> Login("connect") \cup Plain({"connect", "other", "oversized"})
      [] kind = "rdp" -> Naming("request") \cup Plain({"malformed", "oversized"})
      [] kind = "sip" -> Login("request") \cup Plain({"request", "other", "oversized"})
      [] kind = "minecraft" -> Plain({"handshake", "status", "ping", "other"})
      [] OTHER -> Plain({"data"})

Start(kind) ==
    [kind |-> kind, next |-> "read", n |-> 0, stage |-> "start", user |-> "", creds |-> <<>>]

Then(d, next) == [d EXCEPT !.next = next]
Go(d, stage) == [d EXCEPT !.stage = stage, !.next = "read"]
Cred(d, user, secret) ==
    [d EXCEPT !.creds = Append(@, [user |-> user, secret |-> secret])]

\* One more round of at most max, unless the client quits or the read failed.
Round(d, max, stop) ==
    [d EXCEPT !.n = @ + 1, !.next = IF stop \/ d.n + 1 = max THEN "done" ELSE "read"]

\* drainMore: one short read whose result does not matter.
Drain(d) == Go(d, "drain")

-----------------------------------------------------------------------------
(* The handlers: d is the dialogue, m what a read returned, err its error. *)

\* Plausible bug: the first user name sticks.
UserPassFirst(d, m) ==
    CASE m.cmd = "USER" -> [d EXCEPT !.user = IF @ = "" THEN m.user ELSE @]
      [] m.cmd = "PASS" -> Cred(d, d.user, m.secret)
      [] OTHER -> d

\* ftpHandler and pop3Handler.
UserPass(d, m) ==
    CASE m.cmd = "USER" -> [d EXCEPT !.user = m.user]
      [] m.cmd = "PASS" -> Cred(d, d.user, m.secret)
      [] OTHER -> d

\* The text of a line whatever it says: inside AUTH LOGIN every line is data.
Text(m) == IF m.cmd = "text" THEN m.user ELSE m.cmd

\* smtpHandler: authStage 0, 1 and 2 are "start", "user" and "secret".
Smtp(d, m) ==
    CASE d.stage = "user" -> [d EXCEPT !.user = Text(m), !.stage = "secret"]
      [] d.stage = "secret" -> [Cred(d, d.user, Text(m)) EXCEPT !.stage = "start"]
      [] d.stage = "start" /\ m.cmd = "AUTH PLAIN" -> Cred(d, m.user, m.secret)
      [] d.stage = "start" /\ m.cmd = "AUTH LOGIN" -> [d EXCEPT !.stage = "user"]
      [] OTHER -> d

\* redisHandler: AUTH with a password only is for the default user.
Redis(d, m) ==
    IF m.cmd = "AUTH" THEN Cred(d, IF m.user = "" THEN "default" ELSE m.user, m.secret) ELSE d

\* Plausible bug: the loop has no end of its own.
LineProtoEndless(d, m, err) ==
    LET e == IF m = Nothing THEN d
             ELSE IF d.kind = "smtp" THEN Smtp(d, m)
             ELSE IF d.kind = "redis" THEN Redis(d, m) ELSE UserPass(d, m)
    IN  Round(e, SessionLines + 2, err \/ (m.cmd = "QUIT" /\ d.stage = "start"))

\* lineProto and the loop of redisHandler: a line that came with an error is still
\* handled; QUIT ends the session.
LineProto(d, m, err) ==
    LET e == IF m = Nothing THEN d
             ELSE IF d.kind = "smtp" THEN Smtp(d, m)
             ELSE IF d.kind = "redis" THEN Redis(d, m) ELSE UserPass(d, m)
    IN  Round(e, SessionLines, err \/ (m.cmd = "QUIT" /\ d.stage = "start"))

\* telnetHandler: the credentials are recorded even if the password never came.
Telnet(d, m, err) ==
    IF d.stage # "secret"
    THEN IF err /\ m = Nothing THEN Then(d, "done")
         ELSE Go([d EXCEPT !.user = m.user], "secret")
    ELSE LET e == Cred(d, d.user, m.user)
         IN  IF err /\ m = Nothing THEN Then(e, "done") ELSE Then(e, "sleep")

\* sshHandler: NewServerConn asks the callbacks, which refuse; external code
\* ends the exchange after MaxAuthTries.
Ssh(d, m, err) ==
    Round(IF m = Nothing THEN d ELSE Cred(d, m.user, m.secret), SshTries, err)

\* postgresHandler.
Postgres(d, m, err) ==
    CASE err -> Then(d, "done")
      [] ~err /\ d.stage = "start" /\ m.cmd = "ssl" -> Round(d, StartupMessages, FALSE)
      [] ~err /\ d.stage = "start" /\ m.cmd = "startup" -> Go([d EXCEPT !.user = m.user], "secret")
      [] ~err /\ d.stage = "start" /\ m.cmd = "oversized" -> Drain(d)
      [] ~err /\ d.stage = "secret" /\ m.cmd = "password" -> Then(Cred(d, d.user, m.secret), "done")
      [] OTHER -> Then(d, "done")

\* mysqlHandler: the handshake response carries the user and the auth hash.
MySql(d, m, err) ==
    CASE ~err /\ m.cmd = "handshake" -> Then(Cred(d, m.user, m.secret), "done")
      [] ~err /\ m.cmd = "oversized" -> Drain(d)
      [] OTHER -> Then(d, "done")

\* mqttHandler: a CONNECT may or may not carry a user name and a password.
Mqtt(d, m, err) ==
    CASE ~err /\ m.cmd = "connect" ->
            Then(IF m.user = "" THEN d ELSE Cred(d, m.user, m.secret), "done")
      [] ~err /\ m.cmd \in {"other", "oversized"} -> Drain(d)
      [] OTHER -> Then(d, "done")

\* rdpHandler: the cookie names a user and is no credential; one more packet is read.
Rdp(d, m, err) ==
    CASE ~err /\ d.stage = "start" /\ m.cmd = "request" -> Go([d EXCEPT !.user = m.user], "confirmed")
      [] ~err /\ d.stage = "start" /\ m.cmd = "oversized" -> Drain(d)
      [] OTHER -> Then(d, "done")

\* sipTCPHandler: only the first request is reported; a body that is too long
\* ends the session, an unparseable head does not.
Sip(d, m, err) ==
    LET e == IF d.stage = "start" /\ m.user # "" THEN Cred(d, m.user, m.secret) ELSE d
        f == IF m.cmd \in {"request", "oversized"} THEN [e EXCEPT !.stage = "first"] ELSE d
    IN  Round(f, SipMessages, err \/ m.cmd = "oversized")

\* handleMinecraftConn: handshake, status request, ping.
Minecraft(d, m, err) ==
    CASE ~err /\ d.stage = "start" /\ m.cmd = "handshake" -> Go(d, "status")
      [] ~err /\ d.stage = "status" /\ m.cmd = "status" -> Go(d, "ping")
      [] OTHER -> Then(d, "done")

\* handleVNCConn: a repeat visitor is held after it has sent its version.
Vnc(d, m, err) == Then(d, IF ~err /\ d.stage = "tarpit" THEN "sleep" ELSE "done")

\* What the handler does with the result of a read.
After(d, m, err) ==
    CASE d.stage = "drain" -> Then(d, "done")
      [] d.stage # "drain" /\ d.kind \in LineKinds -> LineProto(d, m, err)
      [] d.stage # "drain" /\ d.kind = "telnet" -> Telnet(d, m, err)
      [] d.stage # "drain" /\ d.kind = "ssh" -> Ssh(d, m, err)
      [] d.stage # "drain" /\ d.kind = "postgres" -> Postgres(d, m, err)
      [] d.stage # "drain" /\ d.kind = "mysql" -> MySql(d, m, err)
      [] d.stage # "drain" /\ d.kind = "mqtt" -> Mqtt(d, m, err)
      [] d.stage # "drain" /\ d.kind = "rdp" -> Rdp(d, m, err)
      [] d.stage # "drain" /\ d.kind = "sip" -> Sip(d, m, err)
      [] d.stage # "drain" /\ d.kind = "minecraft" -> Minecraft(d, m, err)
      [] d.stage # "drain" /\ d.kind = "vnc" -> Vnc(d, m, err)
      [] OTHER -> Then(d, "done")        \* bannerHandler, handleLightningConn

\* What follows a sleep: the next login prompt of telnetHandler, or the end of
\* the hold of handleVNCConn.
AfterSleep(d) ==
    IF d.kind = "telnet" THEN Round([d EXCEPT !.stage = "start"], LoginRounds, FALSE)
    ELSE Then(d, "done")

=============================================================================
