-------------------------- MODULE DialoguesProofs ---------------------------
(***************************************************************************)
(* What a session handler does between two reads keeps it within the time  *)
(* and the rounds of its protocol, and each step of a connection keeps     *)
(* what is known of that connection.                                       *)
(***************************************************************************)
EXTENDS Sessions, TLAPS

-----------------------------------------------------------------------------
(* Dialogues *)

\* What a client may say, as the handlers tell it apart.
Commands == {"", "USER", "PASS", "QUIT", "other", "AUTH PLAIN", "AUTH LOGIN", "text", "AUTH",
             "attempt", "startup", "password", "ssl", "cancel", "version", "oversized", "handshake",
             "malformed", "connect", "request", "status", "ping", "data"}
\* The places a handler keeps between two reads.
Stages == {"start", "user", "secret", "drain", "confirmed", "first", "status", "ping", "tarpit"}
\* What may be recorded as a user name or a secret.
Texts == Commands \cup {"default"} \cup Name \cup Secret
\* A message, credentials, and the state of a handler.
Messages == [cmd : Commands, user : Texts, secret : Texts]
\* What a dialogue may have captured.
Credentials == [user : Texts, secret : Texts]
\* The state of a dialogue.
DialogueRecords == [kind : TcpKinds \cup {"http", "https"}, next : {"read", "sleep", "done"},
                    n : Nat, stage : Stages, user : Texts, creds : Seq(Credentials)]

\* The elementary changes, named so that lemmas can be stated about them.
SetStage(d, stage) == [d EXCEPT !.stage = stage]
\* A dialogue that has been given a user name.
SetUser(d, user) == [d EXCEPT !.user = user]

\* The fields of a dialogue after each elementary step.
LEMMA ThenFields ==
    ASSUME NEW d \in DialogueRecords, NEW x \in {"read", "sleep", "done"}
    PROVE  LET e == Then(d, x) IN
           /\ e \in DialogueRecords
           /\ e.kind = d.kind /\ e.next = x /\ e.n = d.n /\ e.stage = d.stage
BY DEF DialogueRecords, Then

\* The handler goes to another stage and reads.
LEMMA GoFields ==
    ASSUME NEW d \in DialogueRecords, NEW stage \in Stages
    PROVE  LET e == Go(d, stage) IN
           /\ e \in DialogueRecords
           /\ e.kind = d.kind /\ e.next = "read" /\ e.n = d.n /\ e.stage = stage
BY DEF DialogueRecords, Go

\* Only the stage changes.
LEMMA StageFields ==
    ASSUME NEW d \in DialogueRecords, NEW stage \in Stages
    PROVE  LET e == SetStage(d, stage) IN
           /\ e \in DialogueRecords
           /\ e.kind = d.kind /\ e.next = d.next /\ e.n = d.n /\ e.stage = stage
BY DEF DialogueRecords, SetStage

\* Only the user name changes.
LEMMA UserFields ==
    ASSUME NEW d \in DialogueRecords, NEW user \in Texts
    PROVE  LET e == SetUser(d, user) IN
           /\ e \in DialogueRecords
           /\ e.kind = d.kind /\ e.next = d.next /\ e.n = d.n /\ e.stage = d.stage
BY DEF DialogueRecords, SetUser

\* A pair of credentials is recorded.
LEMMA CredFields ==
    ASSUME NEW d \in DialogueRecords, NEW user \in Texts, NEW secret \in Texts
    PROVE  LET e == Cred(d, user, secret) IN
           /\ e \in DialogueRecords
           /\ e.kind = d.kind /\ e.next = d.next /\ e.n = d.n /\ e.stage = d.stage
<1>1. Append(d.creds, [user |-> user, secret |-> secret]) \in Seq(Credentials)
  BY DEF DialogueRecords, Credentials
<1>2. QED
  BY <1>1 DEF DialogueRecords, Cred

\* A round is counted, and the handler stops at the limit of its rounds.
LEMMA RoundFields ==
    ASSUME NEW d \in DialogueRecords, NEW max, NEW stop
    PROVE  LET e == Round(d, max, stop) IN
           /\ e \in DialogueRecords
           /\ e.kind = d.kind /\ e.n = d.n + 1 /\ e.stage = d.stage
           /\ e.next = "done" \/ (e.next = "read" /\ d.n + 1 # max)
<1> DEFINE k == d.n + 1
           x == IF stop \/ d.n + 1 = max THEN "done" ELSE "read"
<1>1. k \in Nat /\ x \in {"read", "sleep", "done"}
  BY DEF DialogueRecords
<1>2. Round(d, max, stop) = [d EXCEPT !.n = k, !.next = x]
  BY DEF Round
<1> HIDE DEF k, x
<1>3. LET e == [d EXCEPT !.n = k, !.next = x] IN
      /\ e \in DialogueRecords
      /\ e.kind = d.kind /\ e.n = k /\ e.stage = d.stage /\ e.next = x
  BY <1>1 DEF DialogueRecords
<1>4. QED
  BY <1>2, <1>3 DEF k, x

\* A dialogue that is not over has rounds left; only some handlers drain or sleep.
DialogueOK(d) ==
    /\ d.kind \in TcpKinds
    /\ d.stage = "drain" => d.kind \in {"postgres", "mysql", "mqtt", "rdp"}
    /\ d.next = "sleep" => d.kind \in {"telnet", "vnc"}
    /\ d.next # "done" => /\ d.kind \in LineKinds => d.n < SessionLines
                          /\ d.kind = "telnet" => d.n < LoginRounds
                          /\ d.kind = "postgres" => d.n < StartupMessages
                          /\ d.kind = "sip" => d.n < SipMessages
                          /\ d.kind \in {"mysql", "mqtt"} => d.stage \in {"start", "drain"}
                          /\ d.kind = "minecraft" => d.stage # "tarpit"

\* The most ticks a session has lasted when its handler is about to do what d.next says.
Elapsed(d) ==
    CASE d.next = "done" -> Limit(d.kind)
      [] d.next # "done" /\ d.kind \in LineKinds \cup {"sip"} -> d.n
      [] d.next # "done" /\ d.kind = "telnet" ->
            IF d.next = "read" /\ d.stage # "secret" THEN 3 * d.n ELSE 3 * d.n + 2
      [] d.next # "done" /\ d.kind = "ssh" -> ConnDeadline
      [] d.next # "done" /\ d.kind = "postgres" -> IF d.stage = "start" THEN d.n ELSE d.n + 1
      [] d.next # "done" /\ d.kind \in {"mysql", "mqtt", "rdp", "minecraft"} ->
            IF d.stage = "start" THEN 0 ELSE 1
      [] d.next # "done" /\ d.kind = "vnc" -> IF d.next = "read" THEN 0 ELSE 1
      [] OTHER -> 0

\* The most ticks it has lasted when a read of the handler ends.
ReadEnd(d) ==
    CASE d.kind \in LineKinds \cup {"sip"} -> d.n + 1
      [] d.kind = "telnet" -> 3 * d.n + 2
      [] d.kind = "ssh" -> ConnDeadline
      [] d.kind = "postgres" -> IF d.stage = "start" THEN d.n + 1 ELSE d.n + 2
      [] d.kind \in {"mysql", "mqtt", "rdp"} -> IF d.stage = "start" THEN 1 ELSE 2
      [] OTHER -> 1

\* The dialogue e may follow a read in the dialogue d: the time the read took is
\* accounted for, also where the next read relies on the deadline of this one.
Follows(d, e) ==
    /\ e \in DialogueRecords /\ e.kind = d.kind /\ DialogueOK(e)
    /\ ReadEnd(d) <= Elapsed(e)
    /\ e.next = "read" /\ Arm(e) = 0 => ReadEnd(d) <= ReadEnd(e)

\* The limits of the handlers are positive.
LEMMA DialogueConstants ==
    /\ SessionLines \in Nat /\ SessionLines >= 1 /\ LoginRounds \in Nat /\ LoginRounds >= 1
    /\ StartupMessages \in Nat /\ StartupMessages >= 1 /\ SipMessages \in Nat /\ SipMessages >= 1
    /\ SshTries \in Nat /\ ConnDeadline \in Nat /\ ConnDeadline >= 1
    /\ HoldMax \in Nat /\ HoldMax >= 1
BY DialogueAssumption, SessionsAssumption

\* What a client of each kind may say is a message.
LEMMA VocabularyTyped ==
    ASSUME NEW kind, NEW m \in Vocabulary(kind) \cup {Nothing}
    PROVE  m \in Messages
<1>1. "" \in Commands /\ "" \in Texts /\ Name \subseteq Texts /\ Secret \subseteq Texts
  BY DEF Texts, Commands
<1>2. \A cmd \in Commands, u \in Texts, s \in Texts : Msg(cmd, u, s) \in Messages
  BY DEF Msg, Messages
<1>3. \A cmds \in SUBSET Commands : Plain(cmds) \subseteq Messages
  BY <1>1, <1>2 DEF Plain
<1>4. \A cmd \in Commands : Naming(cmd) \subseteq Messages /\ Login(cmd) \subseteq Messages
  <2> TAKE cmd \in Commands
  <2>1. Naming(cmd) \subseteq Messages
    BY <1>1, <1>2 DEF Naming
  <2>2. Login(cmd) \subseteq Messages
    <3> SUFFICES ASSUME NEW x \in Login(cmd) PROVE x \in Messages
      OBVIOUS
    <3>1. PICK u \in Name, secret \in Secret : x = Msg(cmd, u, secret)
      BY DEF Login
    <3> QED
      BY <1>1, <1>2, <3>1
  <2> QED
    BY <2>1, <2>2
<1>5. \A cmd \in Commands : {Msg(cmd, "", s) : s \in Secret} \subseteq Messages
  BY <1>1, <1>2
<1>6. Nothing \in Messages
  BY <1>1, <1>2 DEF Nothing
<1>7. Vocabulary(kind) \subseteq Messages
  BY <1>3, <1>4, <1>5 DEF Vocabulary, Commands
<1>8. QED
  BY <1>6, <1>7

\* A read of a dialogue that has rounds left ends within the limit of its kind.
LEMMA ReadEndLimit ==
    ASSUME NEW d \in DialogueRecords, DialogueOK(d), d.next = "read"
    PROVE  ReadEnd(d) <= Limit(d.kind)
<1>1. d.n \in Nat
  BY DEF DialogueRecords
<1>2. QED
  BY <1>1, DialogueConstants DEF DialogueOK, ReadEnd, Limit, TcpKinds, LineKinds

\* A handler that is done leaves no more than the limit behind.
LEMMA DoneFollows ==
    ASSUME NEW d \in DialogueRecords, DialogueOK(d), d.next = "read",
           NEW e \in DialogueRecords, e.kind = d.kind, e.next = "done",
           e.stage = "drain" => d.stage = "drain"
    PROVE  Follows(d, e)
<1>1. DialogueOK(e) /\ Elapsed(e) = Limit(d.kind)
  BY DEF DialogueOK, Elapsed
<1>2. ReadEnd(d) <= Limit(d.kind)
  BY ReadEndLimit
<1>3. QED
  BY <1>1, <1>2 DEF Follows

\* So does a further round of a handler that counts one for each read.
LEMMA RoundFollows ==
    ASSUME NEW d \in DialogueRecords, DialogueOK(d), d.next = "read",
           d.kind \in LineKinds \cup {"sip"},
           NEW e \in DialogueRecords, e.kind = d.kind, e.n = d.n + 1, e.stage # "drain",
           e.next = "done" \/ (e.next = "read" /\ d.n + 1 # (IF d.kind = "sip" THEN SipMessages ELSE SessionLines))
    PROVE  Follows(d, e)
<1>1. CASE e.next = "done"
  BY <1>1, DoneFollows
<1>2. CASE e.next = "read"
  <2>1. d.n \in Nat /\ d.kind \notin {"telnet", "postgres"}
    BY DEF DialogueRecords, LineKinds
  <2>2. DialogueOK(e)
    BY <1>2, <2>1, DialogueConstants DEF DialogueOK, LineKinds
  <2>3. Elapsed(e) = d.n + 1 /\ ReadEnd(d) = d.n + 1 /\ ReadEnd(e) = d.n + 2
    <3>1. d.kind \notin {"telnet", "ssh", "postgres", "mysql", "mqtt", "rdp", "minecraft", "vnc"}
      BY DEF LineKinds
    <3> QED
      BY <1>2, <2>1, <3>1 DEF Elapsed, ReadEnd
  <2> QED
    BY <2>1, <2>2, <2>3 DEF Follows
<1>3. QED
  BY <1>1, <1>2

\* The handlers, each after a read that it made.
LEMMA LineProtoFollows ==
    ASSUME NEW d \in DialogueRecords, DialogueOK(d), d.next = "read", d.stage # "drain",
           d.kind \in LineKinds, NEW m \in Messages, NEW err \in BOOLEAN
    PROVE  Follows(d, LineProto(d, m, err))
<1> DEFINE Kept(e) == /\ e \in DialogueRecords /\ e.stage # "drain"
                      /\ e.kind = d.kind /\ e.next = d.next /\ e.n = d.n
<1>1. m.cmd \in Commands /\ m.user \in Texts /\ m.secret \in Texts /\ d.user \in Texts
  BY DEF Messages, DialogueRecords
<1>2. Kept(d)
  OBVIOUS
<1>3. \A e \in DialogueRecords, x \in Stages \ {"drain"} : Kept(e) => Kept(SetStage(e, x))
  BY StageFields
<1>4. \A user \in Texts : Kept(SetUser(d, user))
  BY UserFields
<1>5. \A user \in Texts, secret \in Texts : Kept(Cred(d, user, secret))
  BY CredFields
<1>6. \A e : Kept(e) => e \in DialogueRecords
  OBVIOUS
<1> HIDE DEF Kept
<1>7. Kept(UserPass(d, m))
  BY <1>1, <1>2, <1>4, <1>5 DEF UserPass, SetUser
<1>8. Kept(Redis(d, m))
  <2>1. (IF m.user = "" THEN "default" ELSE m.user) \in Texts
    BY <1>1 DEF Texts
  <2> QED
    BY <1>1, <1>2, <1>5, <2>1 DEF Redis
<1>9. Kept(Smtp(d, m))
  <2>1. Text(m) \in Texts
    BY <1>1 DEF Text, Texts
  <2>2. Kept(SetUser(d, Text(m))) /\ Kept(Cred(d, d.user, Text(m))) /\ Kept(Cred(d, m.user, m.secret))
    BY <1>1, <1>4, <1>5, <2>1
  <2>3. {"start", "user", "secret"} \subseteq Stages \ {"drain"}
    BY DEF Stages
  <2>4. /\ Kept(SetStage(d, "user"))
        /\ Kept(SetStage(Cred(d, d.user, Text(m)), "start"))
        /\ Kept(SetStage(SetUser(d, Text(m)), "secret"))
    BY <1>2, <1>3, <1>6, <2>2, <2>3
  <2>5. Smtp(d, m) \in {d, Cred(d, m.user, m.secret), SetStage(d, "user"),
                       SetStage(Cred(d, d.user, Text(m)), "start"),
                       SetStage(SetUser(d, Text(m)), "secret")}
    BY DEF Smtp, SetStage, SetUser
  <2> QED
    BY <1>2, <2>2, <2>4, <2>5
<1> DEFINE f == IF m = Nothing THEN d
                ELSE IF d.kind = "smtp" THEN Smtp(d, m)
                ELSE IF d.kind = "redis" THEN Redis(d, m) ELSE UserPass(d, m)
           stop == err \/ (m.cmd = "QUIT" /\ d.stage = "start")
<1>10. Kept(f)
  BY <1>2, <1>7, <1>8, <1>9
<1>11. LineProto(d, m, err) = Round(f, SessionLines, stop)
  BY DEF LineProto
<1> HIDE DEF f, stop
<1> DEFINE e == Round(f, SessionLines, stop)
<1>12. /\ f \in DialogueRecords /\ f.stage # "drain"
       /\ f.kind = d.kind /\ f.next = d.next /\ f.n = d.n
  BY <1>10 DEF Kept
<1>13. /\ e \in DialogueRecords
       /\ e.kind = f.kind /\ e.n = f.n + 1 /\ e.stage = f.stage
       /\ e.next = "done" \/ (e.next = "read" /\ f.n + 1 # SessionLines)
  BY <1>12, RoundFields
<1> HIDE DEF e
<1>14. /\ e.kind = d.kind /\ e.n = d.n + 1 /\ e.stage # "drain" /\ d.kind # "sip"
       /\ e.next = "done" \/ (e.next = "read" /\ d.n + 1 # SessionLines)
  BY <1>12, <1>13 DEF LineKinds
<1>15. QED
  BY <1>11, <1>13, <1>14, RoundFollows DEF e

\* emu_sip.go: a request at most SipMessages times.
LEMMA SipFollows ==
    ASSUME NEW d \in DialogueRecords, DialogueOK(d), d.next = "read", d.stage # "drain",
           d.kind = "sip", NEW m \in Messages, NEW err \in BOOLEAN
    PROVE  Follows(d, Sip(d, m, err))
<1> DEFINE e == IF d.stage = "start" /\ m.user # "" THEN Cred(d, m.user, m.secret) ELSE d
           f == IF m.cmd \in {"request", "oversized"} THEN [e EXCEPT !.stage = "first"] ELSE d
           stop == err \/ m.cmd = "oversized"
<1>1. m.user \in Texts /\ m.secret \in Texts
  BY DEF Messages
<1>2. e \in DialogueRecords /\ e.kind = d.kind /\ e.n = d.n
  BY <1>1, CredFields
<1> HIDE DEF e
<1>3. f \in DialogueRecords /\ f.kind = d.kind /\ f.n = d.n /\ f.stage # "drain"
  <2>1. f = IF m.cmd \in {"request", "oversized"} THEN SetStage(e, "first") ELSE d
    BY DEF SetStage
  <2> QED
    BY <1>2, <2>1, StageFields DEF Stages
<1>4. Sip(d, m, err) = Round(f, SipMessages, stop)
  BY DEF Sip, e
<1> HIDE DEF f, stop
<1> DEFINE g == Round(f, SipMessages, stop)
<1>5. /\ g \in DialogueRecords
      /\ g.kind = f.kind /\ g.n = f.n + 1 /\ g.stage = f.stage
      /\ g.next = "done" \/ (g.next = "read" /\ f.n + 1 # SipMessages)
  BY <1>3, RoundFields
<1> HIDE DEF g
<1>6. /\ g.kind = d.kind /\ g.n = d.n + 1 /\ g.stage # "drain"
      /\ g.next = "done" \/ (g.next = "read" /\ d.n + 1 # SipMessages)
  BY <1>3, <1>5
<1>7. QED
  BY <1>4, <1>5, <1>6, RoundFollows DEF g

\* telnet.go: a name, a secret and a pause in each round.
LEMMA TelnetFollows ==
    ASSUME NEW d \in DialogueRecords, DialogueOK(d), d.next = "read", d.stage # "drain",
           d.kind = "telnet", NEW m \in Messages, NEW err \in BOOLEAN
    PROVE  Follows(d, Telnet(d, m, err))
<1>1. m.user \in Texts /\ d.user \in Texts /\ d.n \in Nat
  BY DEF Messages, DialogueRecords
<1>2. ASSUME NEW e \in DialogueRecords, e.kind = d.kind, e.n = d.n, e.stage = "secret",
             e.next \in {"read", "sleep"}
      PROVE  Follows(d, e)
  <2>1. Elapsed(e) = 3 * d.n + 2 /\ ReadEnd(d) = 3 * d.n + 2 /\ ReadEnd(e) = 3 * d.n + 2
    BY <1>2, <1>1 DEF Elapsed, ReadEnd, LineKinds
  <2>2. DialogueOK(e)
    BY <1>2 DEF DialogueOK, LineKinds
  <2> QED
    BY <1>1, <1>2, <2>1, <2>2 DEF Follows
<1>3. CASE d.stage # "secret" /\ err /\ m = Nothing
  BY <1>3, ThenFields, DoneFollows DEF Telnet
<1>4. CASE d.stage # "secret" /\ ~(err /\ m = Nothing)
  <2>1. Telnet(d, m, err) = Go(SetUser(d, m.user), "secret")
    BY <1>4 DEF Telnet, SetUser
  <2>2. SetUser(d, m.user) \in DialogueRecords /\ SetUser(d, m.user).kind = d.kind
        /\ SetUser(d, m.user).n = d.n
    BY <1>1, UserFields
  <2>3. LET e == Go(SetUser(d, m.user), "secret") IN
        /\ e \in DialogueRecords /\ e.kind = d.kind /\ e.n = d.n /\ e.stage = "secret"
        /\ e.next = "read"
    BY <2>2, GoFields DEF Stages
  <2> QED
    BY <1>2, <2>1, <2>3
<1>5. CASE d.stage = "secret"
  <2> DEFINE e == Cred(d, d.user, m.user)
  <2>1. e \in DialogueRecords /\ e.kind = d.kind /\ e.n = d.n /\ e.stage = "secret"
    BY <1>1, <1>5, CredFields
  <2>2. Telnet(d, m, err) = IF err /\ m = Nothing THEN Then(e, "done") ELSE Then(e, "sleep")
    BY <1>5 DEF Telnet
  <2> HIDE DEF e
  <2> QED
    BY <1>2, <1>5, <2>1, <2>2, ThenFields, DoneFollows
<1>6. QED
  BY <1>3, <1>4, <1>5

\* ssh.go: the library reads under one deadline.
LEMMA SshFollows ==
    ASSUME NEW d \in DialogueRecords, DialogueOK(d), d.next = "read", d.stage # "drain",
           d.kind = "ssh", NEW m \in Messages, NEW err \in BOOLEAN
    PROVE  Follows(d, Ssh(d, m, err))
<1> DEFINE f == IF m = Nothing THEN d ELSE Cred(d, m.user, m.secret)
           e == Round(f, SshTries, err)
<1>1. f \in DialogueRecords /\ f.kind = d.kind /\ f.stage = d.stage
  BY CredFields DEF Messages
<1> HIDE DEF f
<1>2. e \in DialogueRecords /\ e.kind = d.kind /\ e.stage = d.stage /\ e.next \in {"done", "read"}
  BY <1>1, RoundFields
<1>3. Ssh(d, m, err) = e
  BY DEF Ssh, f
<1> HIDE DEF e
<1>4. CASE e.next = "read"
  <2>1. Elapsed(e) = ConnDeadline /\ ReadEnd(d) = ConnDeadline /\ ReadEnd(e) = ConnDeadline
    BY <1>2, <1>4 DEF Elapsed, ReadEnd, LineKinds
  <2>2. DialogueOK(e)
    BY <1>2, <1>4 DEF DialogueOK, TcpKinds, LineKinds
  <2> QED
    BY <1>2, <1>3, <2>1, <2>2, DialogueConstants DEF Follows
<1>5. QED
  BY <1>2, <1>3, <1>4, DoneFollows

\* The short read of drainMore, and the further read of a handler that is past its start.
LEMMA GoFollows ==
    ASSUME NEW d \in DialogueRecords, DialogueOK(d), d.next = "read", d.stage = "start",
           d.kind \in {"postgres", "mysql", "mqtt", "rdp"},
           NEW e \in DialogueRecords, e.kind = d.kind, e.n = d.n, e.next = "read",
           e.stage # "start", d.kind \in {"mysql", "mqtt"} => e.stage = "drain"
    PROVE  Follows(d, e)
<1>1. d.n \in Nat
  BY DEF DialogueRecords
<1>2. DialogueOK(e)
  BY DEF DialogueOK
<1>3. Arm(e) = 1
  BY DEF Arm
<1>4. ReadEnd(d) <= Elapsed(e)
  <2>1. d.kind \notin LineKinds \cup {"sip", "telnet", "ssh"}
    BY DEF LineKinds
  <2> QED
    BY <1>1, <2>1 DEF Elapsed, ReadEnd
<1>5. QED
  BY <1>2, <1>3, <1>4 DEF Follows

\* emu_sql.go: startup messages, then a password, then a drain.
LEMMA PostgresFollows ==
    ASSUME NEW d \in DialogueRecords, DialogueOK(d), d.next = "read", d.stage # "drain",
           d.kind = "postgres", NEW m \in Messages, NEW err \in BOOLEAN
    PROVE  Follows(d, Postgres(d, m, err))
<1>1. m.user \in Texts /\ m.secret \in Texts /\ d.user \in Texts
  BY DEF Messages, DialogueRecords
<1>2. Follows(d, Then(d, "done"))
  BY ThenFields, DoneFollows
<1>3. Follows(d, Then(Cred(d, d.user, m.secret), "done"))
  <2> DEFINE f == Cred(d, d.user, m.secret)
  <2>1. f \in DialogueRecords /\ f.kind = d.kind /\ f.stage = d.stage
    BY <1>1, CredFields
  <2> HIDE DEF f
  <2>2. Follows(d, Then(f, "done"))
    BY <2>1, ThenFields, DoneFollows
  <2> QED
    BY <2>2 DEF f
<1>4. ASSUME d.stage = "start"
      PROVE  Follows(d, Go(SetUser(d, m.user), "secret"))
  <2> DEFINE f == SetUser(d, m.user)
  <2>1. f \in DialogueRecords /\ f.kind = d.kind /\ f.n = d.n
    BY <1>1, UserFields
  <2> HIDE DEF f
  <2>2. Follows(d, Go(f, "secret"))
    BY <1>4, <2>1, GoFields, GoFollows DEF Stages
  <2> QED
    BY <2>2 DEF f
<1>5. ASSUME d.stage = "start"
      PROVE  Follows(d, Drain(d))
  BY <1>5, GoFields, GoFollows DEF Stages, Drain
<1>6. ASSUME d.stage = "start"
      PROVE  Follows(d, Round(d, StartupMessages, FALSE))
  <2> DEFINE stop == FALSE
             e == Round(d, StartupMessages, stop)
  <2> HIDE DEF stop
  <2>1. /\ e \in DialogueRecords /\ e.kind = d.kind /\ e.n = d.n + 1 /\ e.stage = "start"
        /\ e.next = "done" \/ (e.next = "read" /\ d.n + 1 # StartupMessages)
    BY <1>6, RoundFields
  <2>2. Round(d, StartupMessages, FALSE) = e
    BY DEF stop
  <2> HIDE DEF e
  <2>3. ASSUME e.next = "read"
        PROVE  Follows(d, e)
    <3>1. d.n \in Nat
      BY DEF DialogueRecords
    <3>2. DialogueOK(e)
      BY <2>1, <2>3, <3>1, DialogueConstants DEF DialogueOK, LineKinds
    <3>3. Elapsed(e) = d.n + 1 /\ ReadEnd(d) = d.n + 1 /\ Arm(e) = 1
      BY <1>6, <2>1, <2>3 DEF Elapsed, ReadEnd, Arm, LineKinds
    <3> QED
      BY <2>1, <3>1, <3>2, <3>3 DEF Follows
  <2> QED
    BY <2>1, <2>2, <2>3, DoneFollows
<1>7. \/ Postgres(d, m, err) \in {Then(d, "done"), Then(Cred(d, d.user, m.secret), "done")}
      \/ d.stage = "start" /\ Postgres(d, m, err) \in
            {Round(d, StartupMessages, FALSE), Go(SetUser(d, m.user), "secret"), Drain(d)}
  BY DEF Postgres, SetUser
<1>8. QED
  BY <1>2, <1>3, <1>4, <1>5, <1>6, <1>7

\* emu_sql.go (MySQL), emu_mqtt.go, emu_rdp.go and the banners: one message, then a drain or the end.
LEMMA OneMessageFollows ==
    ASSUME NEW d \in DialogueRecords, DialogueOK(d), d.next = "read", d.stage # "drain",
           NEW m \in Messages, NEW err \in BOOLEAN
    PROVE  /\ d.kind = "mysql" => Follows(d, MySql(d, m, err))
           /\ d.kind = "mqtt" => Follows(d, Mqtt(d, m, err))
           /\ d.kind = "rdp" => Follows(d, Rdp(d, m, err))
<1>1. m.user \in Texts /\ m.secret \in Texts
  BY DEF Messages
<1>2. Follows(d, Then(d, "done"))
  BY ThenFields, DoneFollows
<1>3. Follows(d, Then(Cred(d, m.user, m.secret), "done"))
  <2> DEFINE f == Cred(d, m.user, m.secret)
  <2>1. f \in DialogueRecords /\ f.kind = d.kind /\ f.stage = d.stage
    BY <1>1, CredFields
  <2> HIDE DEF f
  <2>2. Follows(d, Then(f, "done"))
    BY <2>1, ThenFields, DoneFollows
  <2> QED
    BY <2>2 DEF f
<1>4. ASSUME d.stage = "start", d.kind \in {"mysql", "mqtt", "rdp"}
      PROVE  Follows(d, Drain(d))
  BY <1>4, GoFields, GoFollows DEF Stages, Drain
<1>5. ASSUME d.stage = "start", d.kind = "rdp"
      PROVE  Follows(d, Go(SetUser(d, m.user), "confirmed"))
  <2> DEFINE f == SetUser(d, m.user)
  <2>1. f \in DialogueRecords /\ f.kind = d.kind /\ f.n = d.n
    BY <1>1, UserFields
  <2> HIDE DEF f
  <2>2. Follows(d, Go(f, "confirmed"))
    BY <1>5, <2>1, GoFields, GoFollows DEF Stages
  <2> QED
    BY <2>2 DEF f
<1>6. /\ MySql(d, m, err) \in {Then(d, "done"), Then(Cred(d, m.user, m.secret), "done"), Drain(d)}
      /\ Mqtt(d, m, err) \in {Then(d, "done"), Then(Cred(d, m.user, m.secret), "done"), Drain(d)}
  BY DEF MySql, Mqtt
<1>7. \/ Rdp(d, m, err) = Then(d, "done")
      \/ d.stage = "start" /\ Rdp(d, m, err) \in {Go(SetUser(d, m.user), "confirmed"), Drain(d)}
  BY DEF Rdp, SetUser
<1>8. d.kind \in {"mysql", "mqtt"} => d.stage = "start"
  BY DEF DialogueOK
<1>9. QED
  BY <1>2, <1>3, <1>4, <1>5, <1>6, <1>7, <1>8

\* minecraft.go: a handshake, then a status and a ping, or the tarpit.
LEMMA MinecraftFollows ==
    ASSUME NEW d \in DialogueRecords, DialogueOK(d), d.next = "read", d.stage # "drain",
           d.kind = "minecraft", NEW m \in Messages, NEW err \in BOOLEAN
    PROVE  Follows(d, Minecraft(d, m, err))
<1>1. Follows(d, Then(d, "done"))
  BY ThenFields, DoneFollows
<1>2. ASSUME NEW e \in DialogueRecords, e.kind = d.kind, e.next = "read",
             e.stage \in {"status", "ping"}
      PROVE  Follows(d, e)
  <2>1. Elapsed(e) = 1 /\ ReadEnd(d) = 1 /\ ReadEnd(e) = 1
    BY <1>2 DEF Elapsed, ReadEnd, LineKinds
  <2>2. DialogueOK(e)
    BY <1>2 DEF DialogueOK, LineKinds
  <2> QED
    BY <1>2, <2>1, <2>2 DEF Follows
<1>3. Follows(d, Go(d, "status")) /\ Follows(d, Go(d, "ping"))
  BY <1>2, GoFields DEF Stages
<1>4. Minecraft(d, m, err) \in {Go(d, "status"), Go(d, "ping"), Then(d, "done")}
  BY DEF Minecraft
<1>5. QED
  BY <1>1, <1>3, <1>4

\* vnc.go: one read, then the challenge or the tarpit.
LEMMA VncFollows ==
    ASSUME NEW d \in DialogueRecords, DialogueOK(d), d.next = "read", d.stage # "drain",
           d.kind = "vnc", NEW m \in Messages, NEW err \in BOOLEAN
    PROVE  Follows(d, Vnc(d, m, err))
<1>1. Follows(d, Then(d, "done"))
  BY ThenFields, DoneFollows
<1>2. Follows(d, Then(d, "sleep"))
  <2> DEFINE e == Then(d, "sleep")
  <2>1. /\ e \in DialogueRecords /\ e.kind = "vnc" /\ e.next = "sleep" /\ e.n = d.n
        /\ e.stage # "drain"
    BY ThenFields
  <2> HIDE DEF e
  <2>2. Elapsed(e) = 1 /\ ReadEnd(d) = 1
    BY <2>1 DEF Elapsed, ReadEnd, LineKinds
  <2>3. DialogueOK(e)
    BY <2>1 DEF DialogueOK, TcpKinds, LineKinds
  <2>4. Follows(d, e)
    BY <2>1, <2>2, <2>3 DEF Follows
  <2> QED
    BY <2>4 DEF e
<1>3. Vnc(d, m, err) \in {Then(d, "sleep"), Then(d, "done")}
  BY DEF Vnc
<1>4. QED
  BY <1>1, <1>2, <1>3

\* Whatever the handler, the time its read took is accounted for.
LEMMA AfterFollows ==
    ASSUME NEW d \in DialogueRecords, DialogueOK(d), d.next = "read",
           NEW m \in Messages, NEW err \in BOOLEAN
    PROVE  Follows(d, After(d, m, err))
<1>1. Follows(d, Then(d, "done"))
  BY ThenFields, DoneFollows
<1>2. CASE d.stage = "drain"
  BY <1>1, <1>2 DEF After
<1>3. CASE d.stage # "drain" /\ d.kind \in LineKinds
  <2>1. After(d, m, err) = LineProto(d, m, err)
    BY <1>3 DEF After, LineKinds
  <2> QED
    BY <1>3, <2>1, LineProtoFollows
<1>4. CASE d.stage # "drain" /\ d.kind \in {"telnet", "ssh", "postgres", "mysql", "mqtt"}
  <2>1. After(d, m, err) = CASE d.kind = "telnet" -> Telnet(d, m, err)
                             [] d.kind = "ssh" -> Ssh(d, m, err)
                             [] d.kind = "postgres" -> Postgres(d, m, err)
                             [] d.kind = "mysql" -> MySql(d, m, err)
                             [] d.kind = "mqtt" -> Mqtt(d, m, err)
    BY <1>4 DEF After, LineKinds
  <2> QED
    BY <1>4, <2>1, TelnetFollows, SshFollows, PostgresFollows, OneMessageFollows
<1>5. CASE d.stage # "drain" /\ d.kind \in {"rdp", "sip", "minecraft", "vnc"}
  <2>1. After(d, m, err) = CASE d.kind = "rdp" -> Rdp(d, m, err)
                             [] d.kind = "sip" -> Sip(d, m, err)
                             [] d.kind = "minecraft" -> Minecraft(d, m, err)
                             [] d.kind = "vnc" -> Vnc(d, m, err)
    BY <1>5 DEF After, LineKinds
  <2> QED
    BY <1>5, <2>1, SipFollows, MinecraftFollows, VncFollows, OneMessageFollows
<1>6. CASE d.stage # "drain" /\ d.kind \in {"lightning", "banner"}
  <2>1. After(d, m, err) = Then(d, "done")
    BY <1>6 DEF After, LineKinds
  <2> QED
    BY <1>1, <2>1
<1>7. d.kind \in TcpKinds
  BY DEF DialogueOK
<1>8. QED
  BY <1>2, <1>3, <1>4, <1>5, <1>6, <1>7 DEF TcpKinds

\* A sleep ends: the next round of telnetHandler, or the end of the VNC tarpit.
SleepEnd(d) == IF d.kind = "telnet" THEN 3 * d.n + 3 ELSE 1 + HoldMax

\* A sleep ends within the limit too.
LEMMA SleepEndLimit ==
    ASSUME NEW d \in DialogueRecords, DialogueOK(d), d.next = "sleep"
    PROVE  SleepEnd(d) \in Nat /\ SleepEnd(d) <= Limit(d.kind)
<1>1. d.n \in Nat /\ d.kind \in {"telnet", "vnc"} /\ (d.kind = "telnet" => d.n < LoginRounds)
  BY DEF DialogueRecords, DialogueOK
<1>2. CASE d.kind = "telnet"
  <2>1. Limit("telnet") = 3 * LoginRounds /\ SleepEnd(d) = 3 * d.n + 3
    BY <1>2 DEF Limit, LineKinds, SleepEnd
  <2>2. QED
    BY <1>1, <1>2, <2>1, DialogueConstants
<1>3. CASE d.kind = "vnc"
  <2>1. Limit("vnc") = 1 + HoldMax /\ SleepEnd(d) = 1 + HoldMax
    BY <1>3 DEF Limit, LineKinds, SleepEnd
  <2>2. QED
    BY <1>3, <2>1, DialogueConstants
<1>4. QED
  BY <1>1, <1>2, <1>3

\* And the time it slept.
LEMMA AfterSleepFollows ==
    ASSUME NEW d \in DialogueRecords, DialogueOK(d), d.next = "sleep"
    PROVE  LET e == AfterSleep(d) IN
           /\ e \in DialogueRecords /\ e.kind = d.kind /\ DialogueOK(e)
           /\ SleepEnd(d) <= Elapsed(e) /\ e.next \in {"read", "done"}
           /\ e.next = "read" => Arm(e) > 0
<1>1. d.n \in Nat /\ d.kind \in {"telnet", "vnc"} /\ (d.kind = "telnet" => d.n < LoginRounds)
  BY DEF DialogueRecords, DialogueOK
<1>2. CASE d.kind = "telnet"
  <2> DEFINE f == SetStage(d, "start")
             stop == FALSE
             e == Round(f, LoginRounds, stop)
  <2>1. f \in DialogueRecords /\ f.kind = d.kind /\ f.n = d.n /\ f.stage = "start"
    BY StageFields DEF Stages
  <2>2. AfterSleep(d) = e
    BY <1>2 DEF AfterSleep, SetStage
  <2> HIDE DEF f, stop
  <2>3. /\ e \in DialogueRecords /\ e.kind = "telnet" /\ e.n = d.n + 1 /\ e.stage = "start"
        /\ e.next = "done" \/ (e.next = "read" /\ d.n + 1 # LoginRounds)
    BY <1>2, <2>1, RoundFields
  <2> HIDE DEF e
  <2>4. DialogueOK(e) /\ (e.next = "read" => Arm(e) > 0)
    BY <1>1, <1>2, <2>3, DialogueConstants DEF DialogueOK, Arm, TcpKinds, LineKinds
  <2>5. SleepEnd(d) = 3 * d.n + 3 /\ Limit("telnet") = 3 * LoginRounds
    BY <1>2 DEF SleepEnd, Limit, LineKinds
  <2>6. Elapsed(e) = IF e.next = "done" THEN 3 * LoginRounds ELSE 3 * (d.n + 1)
    BY <2>3, <2>5 DEF Elapsed, LineKinds
  <2>7. SleepEnd(d) <= Elapsed(e)
    BY <1>1, <1>2, <2>5, <2>6, DialogueConstants
  <2> QED
    BY <1>2, <2>2, <2>3, <2>4, <2>7
<1>3. CASE d.kind = "vnc"
  <2> DEFINE e == Then(d, "done")
  <2>1. e \in DialogueRecords /\ e.kind = d.kind /\ e.next = "done" /\ e.stage = d.stage
    BY ThenFields
  <2>2. AfterSleep(d) = e
    BY <1>3 DEF AfterSleep
  <2> HIDE DEF e
  <2>3. DialogueOK(e) /\ Elapsed(e) = 1 + HoldMax
    BY <1>3, <2>1 DEF DialogueOK, Elapsed, Limit, LineKinds
  <2> QED
    BY <1>3, <2>1, <2>2, <2>3, DialogueConstants DEF SleepEnd
<1>4. QED
  BY <1>1, <1>2, <1>3

-----------------------------------------------------------------------------
(* Connections *)

\* Where the goroutine of a connection is, and what is known of the connection.
Places == {"idle", "run", "read", "sleep", "prepare", "handoff", "header", "body", "closing", "closed"}
\* The state of a connection.
ConnRecords ==
    [at : Places, d : DialogueRecords, deadline : Nat, until : Nat, since : Nat, ended : Nat,
     held : BOOLEAN, unblocked : BOOLEAN, served : BOOLEAN, captured : Nat,
     end : {"", "refused", "served", "panic", "abandoned"}, heard : Seq(Messages)]

\* A slot is held from Accept to the close; only the minecraft handler closes before it ends.
SlotOK(r) ==
    /\ r.held => r.at \notin {"idle", "closed"}
    /\ r.at \notin {"idle", "closed"} /\ ~r.held => r.d.kind = "minecraft"

\* When a connection has been captured, and how it ended.
CaptureOK(r) ==
    /\ r.at # "closed" => r.end = ""
    /\ r.at \notin {"closing", "closed"} => r.captured = 0
    /\ r.at \notin {"body", "closing", "closed"} => ~r.served
    /\ r.at = "body" => r.served
    /\ r.at = "closing" => r.captured = 0 \/ (r.captured = 1 /\ r.served)
    /\ r.at = "closed" =>
         r.captured = IF r.end \in {"refused", "panic", "abandoned"} THEN 0 ELSE 1

\* The most ticks an HTTP or HTTPS connection has lasted when its request has come.
HeaderEnd(kind) == IF kind = "https" THEN 2 ELSE 1

\* How long a connection has lasted wherever its goroutine is, and how long it may block.
TimeOK(r, t) ==
    /\ r.at \in {"run", "read", "sleep"} => DialogueOK(r.d)
    /\ r.at = "run" =>
         /\ t <= r.since + Elapsed(r.d)
         /\ r.d.next = "read" /\ Arm(r.d) = 0 => r.deadline <= r.since + ReadEnd(r.d)
    /\ r.at = "read" =>
         r.d.next = "read" /\ r.deadline <= r.since + ReadEnd(r.d) /\ t <= r.since + ReadEnd(r.d)
    /\ r.at = "sleep" =>
         r.d.next = "sleep" /\ r.until <= r.since + SleepEnd(r.d) /\ t <= r.since + SleepEnd(r.d)
    /\ r.at = "prepare" => r.d.kind = "https" /\ r.deadline <= r.since + 1 /\ t <= r.since + 1
    /\ r.at = "handoff" => r.d.kind = "https" /\ t <= r.since + 1
    /\ r.at \in {"header", "body", "closing"} => r.d.kind \in {"http", "https"}
    /\ r.at = "header" =>
         r.deadline <= r.since + HeaderEnd(r.d.kind) /\ t <= r.since + HeaderEnd(r.d.kind)
    /\ r.at = "body" =>
         r.deadline <= r.since + HeaderEnd(r.d.kind) + 1 /\ t <= r.since + HeaderEnd(r.d.kind) + 1
    /\ r.at = "closing" => t <= r.since + Limit(r.d.kind)
    /\ r.at = "closed" => r.ended <= r.since + Limit(r.d.kind)

\* What holds of each connection.
ConnOK(r, t) ==
    /\ r \in ConnRecords /\ (r.at = "idle" => r = Fresh)
    /\ SlotOK(r) /\ CaptureOK(r) /\ TimeOK(r, t)

\* The connections that hold a slot.
Held == {c \in Conn : conn[c].held}

\* The inductive invariant: the semaphore counts the connections that hold a slot.
SessInv ==
    /\ now \in Nat /\ DOMAIN conn = Conn
    /\ \A c \in Conn : ConnOK(conn[c], now) /\ (conn[c].end = "abandoned" => ctxDone)
    /\ ctxDone \/ listening
    /\ listening => serving
    /\ IsFiniteSet(Held) /\ sem = Cardinality(Held)

\* A step of a handler ends within the limit of its kind.
LEMMA LimitFacts ==
    ASSUME NEW d \in DialogueRecords, DialogueOK(d)
    PROVE  /\ Elapsed(d) \in Nat /\ ReadEnd(d) \in Nat /\ Arm(d) \in Nat /\ Limit(d.kind) \in Nat
           /\ Elapsed(d) <= Limit(d.kind)
           /\ d.next = "read" => Elapsed(d) <= ReadEnd(d) /\ ReadEnd(d) <= Limit(d.kind)
           /\ d.next = "read" /\ Arm(d) > 0 => Elapsed(d) + Arm(d) <= ReadEnd(d)
           /\ d.next = "sleep" => Elapsed(d) + (IF d.kind = "vnc" THEN HoldMax ELSE 1) <= SleepEnd(d)
<1>1. d.n \in Nat /\ d.next \in {"read", "sleep", "done"} /\ d.kind \in TcpKinds
  BY DEF DialogueRecords, DialogueOK
<1>2. Arm(d) \in Nat
  BY DEF Arm
<1>3. Limit(d.kind) \in Nat
  BY DialogueConstants DEF Limit
<1>4. ReadEnd(d) \in Nat
  BY <1>1, DialogueConstants DEF ReadEnd
<1>5. Elapsed(d) \in Nat
  BY <1>1, <1>3, DialogueConstants DEF Elapsed
<1>6. Elapsed(d) <= Limit(d.kind)
  BY <1>1, DialogueConstants DEF Elapsed, Limit, DialogueOK, TcpKinds, LineKinds
<1>7. d.next = "read" => Elapsed(d) <= ReadEnd(d)
  BY <1>1, DialogueConstants DEF Elapsed, ReadEnd, TcpKinds, LineKinds
<1>8. d.next = "read" /\ Arm(d) > 0 => Elapsed(d) + Arm(d) <= ReadEnd(d)
  <2> SUFFICES ASSUME d.next = "read", Arm(d) > 0
               PROVE  Elapsed(d) + Arm(d) <= ReadEnd(d)
    OBVIOUS
  <2>1. CASE d.kind \in LineKinds \cup {"sip", "postgres", "mysql", "mqtt", "rdp"}
    <3>1. Arm(d) = 1
      BY <2>1 DEF Arm, LineKinds
    <3> QED
      BY <1>1, <2>1, <3>1 DEF Elapsed, ReadEnd, LineKinds
  <2>2. CASE d.kind \in {"telnet", "ssh"}
    <3>1. d.kind = "telnet" /\ d.stage = "start" /\ Arm(d) = 2
      BY <2>2 DEF Arm, LineKinds
    <3> QED
      BY <1>1, <3>1 DEF Elapsed, ReadEnd, LineKinds
  <2>3. CASE d.kind \in {"vnc", "lightning", "minecraft", "banner"}
    <3>1. Arm(d) = 1 /\ (d.kind = "minecraft" => d.stage \in {"start", "tarpit"})
      BY <2>3 DEF Arm, LineKinds
    <3> QED
      BY <1>1, <2>3, <3>1 DEF Elapsed, ReadEnd, LineKinds, DialogueOK
  <2> QED
    BY <1>1, <2>1, <2>2, <2>3 DEF TcpKinds, LineKinds
<1>9. d.next = "sleep" => Elapsed(d) + (IF d.kind = "vnc" THEN HoldMax ELSE 1) <= SleepEnd(d)
  BY <1>1, DialogueConstants DEF Elapsed, SleepEnd, DialogueOK, LineKinds
<1>10. d.next = "read" => ReadEnd(d) <= Limit(d.kind)
  BY ReadEndLimit
<1>11. QED
  BY <1>2, <1>3, <1>4, <1>5, <1>6, <1>7, <1>8, <1>9, <1>10

\* An HTTP connection lasts for its header and its body.
LEMMA WebLimit ==
    /\ \A kind \in {"http", "https"} : Limit(kind) = HeaderEnd(kind) + 1
    /\ \A kind \in {"http", "https"} : HeaderEnd(kind) \in Nat
BY DEF Limit, HeaderEnd, LineKinds

\* The handler arms a deadline and reads.
LEMMA BlockOK ==
    ASSUME NEW t \in Nat, NEW r, ConnOK(r, t), r.at = "run", r.d.next = "read",
           NEW x, x = IF Arm(r.d) > 0 THEN t + Arm(r.d) ELSE r.deadline
    PROVE  ConnOK([r EXCEPT !.at = "read", !.deadline = x], t)
<1> DEFINE q == [r EXCEPT !.at = "read", !.deadline = x]
<1>1. /\ r \in ConnRecords /\ r.d \in DialogueRecords /\ DialogueOK(r.d) /\ r.since \in Nat
      /\ r.deadline \in Nat /\ t <= r.since + Elapsed(r.d)
      /\ Arm(r.d) = 0 => r.deadline <= r.since + ReadEnd(r.d)
  BY DEF ConnOK, ConnRecords, TimeOK
<1>2. x \in Nat /\ x <= r.since + ReadEnd(r.d) /\ t <= r.since + ReadEnd(r.d)
  BY <1>1, LimitFacts
<1>3. /\ q \in ConnRecords /\ q.at = "read" /\ q.deadline = x /\ q.d = r.d /\ q.since = r.since
      /\ q.held = r.held /\ q.served = r.served /\ q.captured = r.captured /\ q.end = r.end
  BY <1>1, <1>2 DEF ConnRecords, Places
<1> HIDE DEF q
<1>4. SlotOK(q) /\ CaptureOK(q)
  BY <1>3 DEF ConnOK, SlotOK, CaptureOK
<1>5. TimeOK(q, t)
  BY <1>1, <1>2, <1>3 DEF TimeOK
<1>6. ConnOK(q, t)
  BY <1>3, <1>4, <1>5 DEF ConnOK
<1>7. QED
  BY <1>6 DEF q

\* The read returns, with a message or an error.
LEMMA ReadOK ==
    ASSUME NEW t \in Nat, NEW r, ConnOK(r, t), r.at = "read",
           NEW m \in Messages, NEW err \in BOOLEAN, NEW h \in Seq(Messages)
    PROVE  ConnOK([r EXCEPT !.at = "run", !.d = After(r.d, m, err), !.heard = h], t)
<1> DEFINE e == After(r.d, m, err)
           q == [r EXCEPT !.at = "run", !.d = e, !.heard = h]
<1>1. /\ r \in ConnRecords /\ r.d \in DialogueRecords /\ DialogueOK(r.d) /\ r.since \in Nat
      /\ r.deadline \in Nat /\ r.d.next = "read"
      /\ t <= r.since + ReadEnd(r.d) /\ r.deadline <= r.since + ReadEnd(r.d)
  BY DEF ConnOK, ConnRecords, TimeOK
<1>2. Follows(r.d, e)
  BY <1>1, AfterFollows
<1> HIDE DEF e
<1>3. /\ e \in DialogueRecords /\ e.kind = r.d.kind /\ DialogueOK(e) /\ ReadEnd(r.d) <= Elapsed(e)
      /\ e.next = "read" /\ Arm(e) = 0 => ReadEnd(r.d) <= ReadEnd(e)
  BY <1>2 DEF Follows
<1>4. Elapsed(e) \in Nat /\ ReadEnd(e) \in Nat /\ ReadEnd(r.d) \in Nat
  BY <1>1, <1>3, LimitFacts
<1>5. /\ q \in ConnRecords /\ q.at = "run" /\ q.d = e /\ q.deadline = r.deadline
      /\ q.since = r.since
      /\ q.held = r.held /\ q.served = r.served /\ q.captured = r.captured /\ q.end = r.end
  BY <1>1, <1>3 DEF ConnRecords, Places
<1> HIDE DEF q
<1>6. SlotOK(q) /\ CaptureOK(q)
  BY <1>3, <1>5 DEF ConnOK, SlotOK, CaptureOK
<1>7. TimeOK(q, t)
  BY <1>1, <1>3, <1>4, <1>5 DEF TimeOK
<1>8. ConnOK(q, t)
  BY <1>5, <1>6, <1>7 DEF ConnOK
<1>9. QED
  BY <1>8 DEF q, e

\* The handler pauses.
LEMMA SleepOK ==
    ASSUME NEW t \in Nat, NEW r, ConnOK(r, t), r.at = "run", r.d.next = "sleep",
           NEW hold \in Nat, hold <= IF r.d.kind = "vnc" THEN HoldMax ELSE 1
    PROVE  ConnOK([r EXCEPT !.at = "sleep", !.until = t + hold], t)
<1> DEFINE x == t + hold
           q == [r EXCEPT !.at = "sleep", !.until = x]
<1>1. /\ r \in ConnRecords /\ r.d \in DialogueRecords /\ DialogueOK(r.d) /\ r.since \in Nat
      /\ t <= r.since + Elapsed(r.d)
  BY DEF ConnOK, ConnRecords, TimeOK
<1>2. SleepEnd(r.d) \in Nat
  BY <1>1, DialogueConstants DEF SleepEnd, DialogueRecords
<1>3. x \in Nat /\ x <= r.since + SleepEnd(r.d) /\ t <= r.since + SleepEnd(r.d)
  BY <1>1, <1>2, LimitFacts, DialogueConstants
<1> HIDE DEF x
<1>4. /\ q \in ConnRecords /\ q.at = "sleep" /\ q.until = x /\ q.d = r.d /\ q.since = r.since
      /\ q.held = r.held /\ q.served = r.served /\ q.captured = r.captured /\ q.end = r.end
  BY <1>1, <1>3 DEF ConnRecords, Places
<1> HIDE DEF q
<1>5. SlotOK(q) /\ CaptureOK(q)
  BY <1>4 DEF ConnOK, SlotOK, CaptureOK
<1>6. TimeOK(q, t)
  BY <1>1, <1>3, <1>4 DEF TimeOK
<1>7. ConnOK(q, t)
  BY <1>4, <1>5, <1>6 DEF ConnOK
<1>8. QED
  BY <1>7 DEF q, x

\* The pause is over.
LEMMA WakeOK ==
    ASSUME NEW t \in Nat, NEW r, ConnOK(r, t), r.at = "sleep"
    PROVE  ConnOK([r EXCEPT !.at = "run", !.d = AfterSleep(r.d)], t)
<1> DEFINE e == AfterSleep(r.d)
           q == [r EXCEPT !.at = "run", !.d = e]
<1>1. /\ r \in ConnRecords /\ r.d \in DialogueRecords /\ DialogueOK(r.d) /\ r.since \in Nat
      /\ r.d.next = "sleep" /\ t <= r.since + SleepEnd(r.d)
  BY DEF ConnOK, ConnRecords, TimeOK
<1>2. /\ e \in DialogueRecords /\ e.kind = r.d.kind /\ DialogueOK(e)
      /\ SleepEnd(r.d) <= Elapsed(e)
      /\ e.next = "read" => Arm(e) > 0
  BY <1>1, AfterSleepFollows
<1> HIDE DEF e
<1>3. Elapsed(e) \in Nat /\ SleepEnd(r.d) \in Nat /\ Arm(e) \in Nat
  <2>1. SleepEnd(r.d) \in Nat
    BY <1>1, DialogueConstants DEF SleepEnd, DialogueRecords
  <2> QED
    BY <1>2, <2>1, LimitFacts
<1>4. /\ q \in ConnRecords /\ q.at = "run" /\ q.d = e /\ q.since = r.since
      /\ q.held = r.held /\ q.served = r.served /\ q.captured = r.captured /\ q.end = r.end
  BY <1>1, <1>2 DEF ConnRecords, Places
<1> HIDE DEF q
<1>5. SlotOK(q) /\ CaptureOK(q)
  BY <1>2, <1>4 DEF ConnOK, SlotOK, CaptureOK
<1>6. TimeOK(q, t)
  BY <1>1, <1>2, <1>3, <1>4 DEF TimeOK
<1>7. ConnOK(q, t)
  BY <1>4, <1>5, <1>6 DEF ConnOK
<1>8. QED
  BY <1>7 DEF q, e

\* A new dialogue.
LEMMA StartFields ==
    ASSUME NEW kind \in TcpKinds \cup {"http", "https"}
    PROVE  LET e == Start(kind) IN
           /\ e \in DialogueRecords
           /\ e.kind = kind /\ e.next = "read" /\ e.n = 0 /\ e.stage = "start"
<1> DEFINE none == <<>>
<1>1. none \in Seq(Credentials) /\ "" \in Texts /\ "start" \in Stages /\ 0 \in Nat
  BY DEF Texts, Commands, Stages
<1>2. Start(kind) = [kind |-> kind, next |-> "read", n |-> 0, stage |-> "start", user |-> "",
                     creds |-> none]
  BY DEF Start
<1> DEFINE e == [kind |-> kind, next |-> "read", n |-> 0, stage |-> "start", user |-> "",
                 creds |-> none]
<1> HIDE DEF none
<1>3. e \in DialogueRecords
  BY <1>1 DEF DialogueRecords
<1>4. e.kind = kind /\ e.next = "read" /\ e.n = 0 /\ e.stage = "start"
  OBVIOUS
<1>5. QED
  BY <1>2, <1>3, <1>4

\* A connection that has not come yet.
LEMMA FreshFields ==
    /\ Fresh \in ConnRecords /\ Fresh.at = "idle" /\ Fresh.held = FALSE /\ Fresh.end = ""
    /\ Fresh.captured = 0 /\ Fresh.served = FALSE /\ Fresh.since = 0 /\ Fresh.ended = 0
<1> DEFINE none == <<>>
           e == Start("banner")
<1>1. none \in Seq(Messages) /\ e \in DialogueRecords
  BY StartFields DEF TcpKinds
<1>2. Fresh = [at |-> "idle", d |-> e, deadline |-> 0, until |-> 0, since |-> 0,
               ended |-> 0, held |-> FALSE, unblocked |-> FALSE, served |-> FALSE, captured |-> 0,
               end |-> "", heard |-> none]
  BY DEF Fresh
<1> HIDE DEF none, e
<1>3. QED
  BY <1>1, <1>2 DEF ConnRecords, Places

\* How many events the end of a connection captures, and its record then.
Events(end) == IF end \in {"panic", "abandoned"} THEN 0 ELSE 1
\* What a connection is left as by its end.
ClosedRecord(r, t, end) ==
    [r EXCEPT !.at = "closed", !.held = FALSE, !.end = end, !.ended = t, !.captured = Events(end),
              !.deadline = 0, !.until = 0, !.heard = <<>>,
              !.d = [Start(r.d.kind) EXCEPT !.stage = r.d.stage]]

\* The connection closes.
LEMMA ClosedOK ==
    ASSUME NEW t \in Nat, NEW r, ConnOK(r, t), r.at \in {"run", "prepare", "handoff", "closing"},
           NEW end \in {"served", "panic", "abandoned"}
    PROVE  LET q == ClosedRecord(r, t, end)
           IN  ConnOK(q, t) /\ q.held = FALSE /\ q.end = end
<1> DEFINE e == [Start(r.d.kind) EXCEPT !.stage = r.d.stage]
           none == <<>>
           captured == Events(end)
           q == [r EXCEPT !.at = "closed", !.held = FALSE, !.end = end, !.ended = t,
                          !.captured = captured, !.deadline = 0, !.until = 0, !.heard = none,
                          !.d = e]
<1>1. r \in ConnRecords /\ r.d \in DialogueRecords /\ r.since \in Nat /\ captured \in Nat
      /\ captured = IF end \in {"panic", "abandoned"} THEN 0 ELSE 1
  BY DEF ConnOK, ConnRecords, Events
<1>2. e \in DialogueRecords /\ e.kind = r.d.kind /\ none \in Seq(Messages)
  <2>1. r.d.kind \in TcpKinds \cup {"http", "https"} /\ r.d.stage \in Stages
    BY <1>1 DEF DialogueRecords
  <2>2. e = SetStage(Start(r.d.kind), r.d.stage)
    BY DEF SetStage
  <2> HIDE DEF e
  <2> QED
    BY <2>1, <2>2, StartFields, StageFields
<1>3. t <= r.since + Limit(r.d.kind)
  <2>1. CASE r.at = "run"
    <3>1. DialogueOK(r.d) /\ t <= r.since + Elapsed(r.d)
      BY <2>1 DEF ConnOK, TimeOK
    <3> QED
      BY <1>1, <3>1, LimitFacts
  <2>2. CASE r.at \in {"prepare", "handoff"}
    <3>1. r.d.kind = "https" /\ t <= r.since + 1
      BY <2>2 DEF ConnOK, TimeOK
    <3> QED
      BY <1>1, <3>1 DEF Limit, LineKinds
  <2>3. CASE r.at = "closing"
    BY <2>3 DEF ConnOK, TimeOK
  <2> QED
    BY <2>1, <2>2, <2>3
<1> HIDE DEF e, none, captured
<1>4. /\ q \in ConnRecords /\ q.at = "closed" /\ q.held = FALSE /\ q.end = end /\ q.ended = t
      /\ q.captured = captured /\ q.d = e /\ q.since = r.since
  BY <1>1, <1>2 DEF ConnRecords, Places
<1> HIDE DEF q
<1>5. SlotOK(q) /\ CaptureOK(q) /\ TimeOK(q, t)
  BY <1>1, <1>2, <1>3, <1>4 DEF SlotOK, CaptureOK, TimeOK
<1>6. ConnOK(q, t) /\ q.held = FALSE /\ q.end = end
  BY <1>4, <1>5 DEF ConnOK
<1>7. QED
  BY <1>6 DEF q, e, none, captured, ClosedRecord

\* What Accept records.
FirstPlace(kind) == CASE kind = "http" -> "header" [] kind = "https" -> "prepare" [] OTHER -> "run"
\* The first deadline of an accepted connection.
FirstLimit(kind) == IF kind \in TcpKinds THEN ConnDeadline ELSE 1
\* What accept makes of a free record.
AcceptedRecord(t, kind, stage) ==
    [Fresh EXCEPT !.at = FirstPlace(kind), !.d = [Start(kind) EXCEPT !.stage = stage],
                  !.held = TRUE, !.since = t, !.deadline = t + FirstLimit(kind)]

\* A connection is accepted.
LEMMA AcceptOK ==
    ASSUME NEW t \in Nat, NEW kind \in TcpKinds \cup {"http", "https"},
           NEW stage \in {"start", "tarpit"}, stage = "tarpit" => kind = "vnc"
    PROVE  LET q == AcceptedRecord(t, kind, stage)
           IN  ConnOK(q, t) /\ q.held = TRUE /\ q.end = ""
<1> DEFINE at == FirstPlace(kind)
           limit == FirstLimit(kind)
           e == [Start(kind) EXCEPT !.stage = stage]
           x == t + limit
           q == [Fresh EXCEPT !.at = at, !.d = e, !.held = TRUE, !.since = t, !.deadline = x]
<1>1. e \in DialogueRecords /\ e.kind = kind /\ e.next = "read" /\ e.n = 0 /\ e.stage = stage
  <2>1. e = SetStage(Start(kind), stage) /\ stage \in Stages
    BY DEF SetStage, Stages
  <2> HIDE DEF e
  <2> QED
    BY <2>1, StartFields, StageFields
<1>2. Fresh \in ConnRecords
  BY FreshFields
<1>3. /\ limit \in Nat /\ x \in Nat /\ x = t + limit
      /\ limit = IF kind \in TcpKinds THEN ConnDeadline ELSE 1
  BY DialogueConstants DEF FirstLimit
<1>4. /\ at \in {"header", "prepare", "run"} /\ (at = "run" <=> kind \in TcpKinds)
      /\ (at = "header" => kind = "http") /\ (at = "prepare" => kind = "https")
  BY DEF FirstPlace, TcpKinds, LineKinds
<1> HIDE DEF e, x, at, limit
<1>5. /\ q \in ConnRecords /\ q.at = at /\ q.held = TRUE /\ q.end = "" /\ q.captured = 0
      /\ q.served = FALSE /\ q.d = e /\ q.since = t /\ q.deadline = x
  BY <1>1, <1>2, <1>3, <1>4, FreshFields DEF ConnRecords, Places
<1> HIDE DEF q
<1>6. SlotOK(q) /\ CaptureOK(q)
  BY <1>4, <1>5 DEF SlotOK, CaptureOK
<1>7. ASSUME at = "run"
      PROVE  /\ DialogueOK(e) /\ t <= t + Elapsed(e)
             /\ Arm(e) = 0 => x <= t + ReadEnd(e)
  <2>1. DialogueOK(e)
    BY <1>1, <1>4, <1>7, DialogueConstants DEF DialogueOK
  <2>2. Elapsed(e) \in Nat
    BY <1>1, <2>1, LimitFacts
  <2>3. ASSUME Arm(e) = 0
        PROVE  kind = "ssh"
    BY <1>1, <1>4, <1>7, <2>3 DEF Arm, TcpKinds, LineKinds
  <2>4. Arm(e) = 0 => ReadEnd(e) = ConnDeadline /\ limit = ConnDeadline
    BY <1>1, <1>3, <2>3 DEF ReadEnd, LineKinds, TcpKinds
  <2> QED
    BY <1>3, <2>1, <2>2, <2>4, DialogueConstants
<1>8. TimeOK(q, t)
  <2>1. CASE at = "run"
    BY <1>1, <1>5, <1>7, <2>1 DEF TimeOK
  <2>2. CASE at = "prepare"
    <3>1. kind = "https" /\ limit = 1
      BY <1>3, <1>4, <2>2
    <3>2. q.at = "prepare" /\ q.d.kind = "https" /\ q.since = t /\ q.deadline = t + 1
      BY <1>1, <1>3, <1>5, <2>2, <3>1
    <3> QED
      BY <3>2 DEF TimeOK
  <2>3. CASE at = "header"
    <3>1. kind = "http" /\ limit = 1
      BY <1>3, <1>4, <2>3
    <3>2. q.at = "header" /\ q.d.kind = "http" /\ q.since = t /\ q.deadline = t + 1
      BY <1>1, <1>3, <1>5, <2>3, <3>1
    <3> QED
      BY <3>2 DEF TimeOK, HeaderEnd
  <2> QED
    BY <1>4, <2>1, <2>2, <2>3
<1>9. ConnOK(q, t) /\ q.held = TRUE /\ q.end = ""
  BY <1>4, <1>5, <1>6, <1>8 DEF ConnOK
<1>10. QED
  BY <1>9 DEF q, e, x, at, limit, AcceptedRecord

\* tlsListener.prepare, the HTTP server and the handler of a request.
LEMMA WebOK ==
    ASSUME NEW t \in Nat, NEW r, ConnOK(r, t)
    PROVE  /\ r.at = "prepare" => ConnOK([r EXCEPT !.at = "handoff"], t)
           /\ r.at = "handoff" => ConnOK([r EXCEPT !.at = "header", !.deadline = t + 1], t)
           /\ r.at = "header" =>
                ConnOK([r EXCEPT !.at = "body", !.served = TRUE, !.deadline = r.deadline + 1], t)
           /\ r.at = "header" => ConnOK([r EXCEPT !.at = "closing"], t)
           /\ r.at = "body" => ConnOK([r EXCEPT !.at = "closing"], t)
           /\ r.at = "body" => ConnOK([r EXCEPT !.at = "closing", !.captured = r.captured + 1], t)
<1>1. r \in ConnRecords /\ r.since \in Nat /\ r.deadline \in Nat /\ r.captured \in Nat
  BY DEF ConnOK, ConnRecords
<1>2. r.at = "prepare" => ConnOK([r EXCEPT !.at = "handoff"], t)
  <2> SUFFICES ASSUME r.at = "prepare" PROVE ConnOK([r EXCEPT !.at = "handoff"], t)
    OBVIOUS
  <2> DEFINE q == [r EXCEPT !.at = "handoff"]
  <2>1. /\ q \in ConnRecords /\ q.at = "handoff" /\ q.d = r.d /\ q.since = r.since
        /\ q.held = r.held /\ q.served = r.served /\ q.captured = r.captured /\ q.end = r.end
    BY <1>1 DEF ConnRecords, Places
  <2> HIDE DEF q
  <2>2. SlotOK(q) /\ CaptureOK(q) /\ TimeOK(q, t)
    BY <2>1 DEF ConnOK, SlotOK, CaptureOK, TimeOK
  <2>3. ConnOK(q, t)
    BY <2>1, <2>2 DEF ConnOK
  <2> QED
    BY <2>3 DEF q
<1>3. r.at = "handoff" => ConnOK([r EXCEPT !.at = "header", !.deadline = t + 1], t)
  <2> SUFFICES ASSUME r.at = "handoff"
               PROVE  ConnOK([r EXCEPT !.at = "header", !.deadline = t + 1], t)
    OBVIOUS
  <2> DEFINE x == t + 1
             q == [r EXCEPT !.at = "header", !.deadline = x]
  <2>1. x \in Nat /\ x = t + 1
    OBVIOUS
  <2> HIDE DEF x
  <2>2. /\ q \in ConnRecords /\ q.at = "header" /\ q.d = r.d /\ q.since = r.since /\ q.deadline = x
        /\ q.held = r.held /\ q.served = r.served /\ q.captured = r.captured /\ q.end = r.end
    BY <1>1, <2>1 DEF ConnRecords, Places
  <2> HIDE DEF q
  <2>3. SlotOK(q) /\ CaptureOK(q)
    BY <2>2 DEF ConnOK, SlotOK, CaptureOK
  <2>4. TimeOK(q, t)
    <3>1. r.d.kind = "https" /\ t <= r.since + 1
      BY DEF ConnOK, TimeOK
    <3>2. HeaderEnd("https") = 2
      BY DEF HeaderEnd
    <3> QED
      BY <1>1, <2>1, <2>2, <3>1, <3>2 DEF TimeOK
  <2>5. ConnOK(q, t)
    BY <2>2, <2>3, <2>4 DEF ConnOK
  <2> QED
    BY <2>5 DEF q, x
<1>4. r.at = "header" =>
        ConnOK([r EXCEPT !.at = "body", !.served = TRUE, !.deadline = r.deadline + 1], t)
  <2> SUFFICES ASSUME r.at = "header"
               PROVE  ConnOK([r EXCEPT !.at = "body", !.served = TRUE,
                                       !.deadline = r.deadline + 1], t)
    OBVIOUS
  <2> DEFINE x == r.deadline + 1
             q == [r EXCEPT !.at = "body", !.served = TRUE, !.deadline = x]
  <2>1. x \in Nat /\ x = r.deadline + 1
    BY <1>1
  <2> HIDE DEF x
  <2>2. /\ q \in ConnRecords /\ q.at = "body" /\ q.d = r.d /\ q.since = r.since /\ q.deadline = x
        /\ q.held = r.held /\ q.served = TRUE /\ q.captured = r.captured /\ q.end = r.end
    BY <1>1, <2>1 DEF ConnRecords, Places
  <2> HIDE DEF q
  <2>3. SlotOK(q) /\ CaptureOK(q)
    BY <2>2 DEF ConnOK, SlotOK, CaptureOK
  <2>4. TimeOK(q, t)
    <3>1. /\ r.d.kind \in {"http", "https"} /\ t <= r.since + HeaderEnd(r.d.kind)
          /\ r.deadline <= r.since + HeaderEnd(r.d.kind)
      BY DEF ConnOK, TimeOK
    <3> QED
      BY <1>1, <2>1, <2>2, <3>1, WebLimit DEF TimeOK
  <2>5. ConnOK(q, t)
    BY <2>2, <2>3, <2>4 DEF ConnOK
  <2> QED
    BY <2>5 DEF q, x
<1>5. r.at \in {"header", "body"} => ConnOK([r EXCEPT !.at = "closing"], t)
  <2> SUFFICES ASSUME r.at \in {"header", "body"} PROVE ConnOK([r EXCEPT !.at = "closing"], t)
    OBVIOUS
  <2> DEFINE q == [r EXCEPT !.at = "closing"]
  <2>1. /\ q \in ConnRecords /\ q.at = "closing" /\ q.d = r.d /\ q.since = r.since
        /\ q.held = r.held /\ q.served = r.served /\ q.captured = r.captured /\ q.end = r.end
    BY <1>1 DEF ConnRecords, Places
  <2> HIDE DEF q
  <2>2. SlotOK(q) /\ CaptureOK(q)
    BY <2>1 DEF ConnOK, SlotOK, CaptureOK
  <2>3. TimeOK(q, t)
    <3>1. r.d.kind \in {"http", "https"} /\ t <= r.since + HeaderEnd(r.d.kind) + 1
      <4>1. r.d.kind \in {"http", "https"} /\ HeaderEnd(r.d.kind) \in Nat
        BY WebLimit DEF ConnOK, TimeOK
      <4>2. t <= r.since + HeaderEnd(r.d.kind) \/ t <= r.since + HeaderEnd(r.d.kind) + 1
        BY DEF ConnOK, TimeOK
      <4> QED
        BY <1>1, <4>1, <4>2
    <3>2. t <= r.since + Limit(r.d.kind)
      BY <1>1, <3>1, WebLimit
    <3> QED
      BY <2>1, <3>1, <3>2 DEF TimeOK
  <2>4. ConnOK(q, t)
    BY <2>1, <2>2, <2>3 DEF ConnOK
  <2> QED
    BY <2>4 DEF q
<1>6. r.at = "body" => ConnOK([r EXCEPT !.at = "closing", !.captured = r.captured + 1], t)
  <2> SUFFICES ASSUME r.at = "body"
               PROVE  ConnOK([r EXCEPT !.at = "closing", !.captured = r.captured + 1], t)
    OBVIOUS
  <2> DEFINE x == r.captured + 1
             q == [r EXCEPT !.at = "closing", !.captured = x]
  <2>1. x = 1
    <3>1. r.captured = 0
      BY DEF ConnOK, CaptureOK
    <3> QED
      BY <3>1
  <2> HIDE DEF x
  <2>2. /\ q \in ConnRecords /\ q.at = "closing" /\ q.d = r.d /\ q.since = r.since
        /\ q.held = r.held /\ q.served = r.served /\ q.captured = 1 /\ q.end = r.end
    BY <1>1, <2>1 DEF ConnRecords, Places
  <2> HIDE DEF q
  <2>3. SlotOK(q) /\ CaptureOK(q)
    BY <2>2 DEF ConnOK, SlotOK, CaptureOK
  <2>4. TimeOK(q, t)
    <3>1. r.d.kind \in {"http", "https"} /\ t <= r.since + HeaderEnd(r.d.kind) + 1
      BY DEF ConnOK, TimeOK
    <3>2. t <= r.since + Limit(r.d.kind)
      BY <1>1, <3>1, WebLimit
    <3> QED
      BY <2>2, <3>1, <3>2 DEF TimeOK
  <2>5. ConnOK(q, t)
    BY <2>2, <2>3, <2>4 DEF ConnOK
  <2> QED
    BY <2>5 DEF q, x
<1>7. QED
  BY <1>2, <1>3, <1>4, <1>5, <1>6

=============================================================================
