----------------------------- MODULE ModemCall ------------------------------
(***************************************************************************)
(* The R: device's calls (rdevice.cpp) and the SSH client they may use     *)
(* (sshclient.cpp). Three parties act: the SIO thread posts what the Atari *)
(* types to the GUI thread; the GUI thread runs the modem, its sockets and *)
(* its timers; the SSH back-end has a thread of its own, which takes       *)
(* requests from a queue and reports with queued signals. Every handler of *)
(* the GUI thread, and every slot of the back-end, is one step.            *)
(*                                                                         *)
(* How the buffers carry the bytes is ModemLine's; here a call is a place  *)
(* where the Atari's bytes go.                                             *)
(***************************************************************************)
EXTENDS Naturals, Sequences, FiniteSets, SequencesExt

CONSTANTS MaxTyped,    \* bound: what the Atari types, in lines, keys and DTR drops
          MaxUser,     \* bound: the user's dials, restarts and switching off
          MaxCallers,  \* bound: incoming connections
          Lines        \* the AT commands the Atari types

Dials    == {"tcp", "ssh", "shell"}   \* ATDT: telnet, SSH, interactive SSH
Commands == Dials \cup {"A", "O", "H", "Z", "S0=0", "S0=1"}

ASSUME CallAssumption == /\ MaxTyped \in Nat /\ MaxUser \in Nat /\ MaxCallers \in Nat
                         /\ Lines \subseteq Commands

VARIABLES
    modem,   \* what the GUI thread keeps, see Modem
    plus,    \* m_escapeBuffer is "+++"; written by the SIO thread
    armed,   \* m_escapeActionTimer runs
    autos,   \* singleShot timers running for onAutoAnswerTriggered
    posts,   \* posted to RDevice and not delivered
    back,    \* SshBackend: the session it has and where its login is
    events,  \* signals of SshBackend not delivered
    typed, used, callers,   \* counted against the bounds
    upset    \* what has happened that the modem does not allow for, see Races

atari == <<plus, posts, typed>>
ssh   == <<back, events>>
timers == <<armed, autos>>
vars  == <<modem, timers, atari, ssh, used, callers, upset>>

(* tcp      tcpSocket: "dying" is dialing with disconnectFromHost called,  *)
(*          "closing" is waiting for what is still to be sent              *)
(* online   m_isNetworkConnected: the Atari's bytes go to the call         *)
(* sshMode  m_isSshMode                                                    *)
(* ask      m_sshAsk, and the login that asked                             *)
(* known    SshClient::m_connectedStatus                                   *)
(* caller   pendingSocket, and with it m_ringPhase                         *)
(* ring     m_ringTimer runs                                               *)
(* s0       m_s0Register > 0                                               *)
(* enabled  m_isEnabled, and with it the listener                          *)
(* requests for SshBackend, not yet taken                                  *)
(* login    how many SSH logins have been asked for                        *)
(* told     what the Atari was told last: "online" by CONNECT, "offline"   *)
(*          by NO CARRIER, by a hang-up's or an escape's OK                *)
(* wanted   the call the Atari or the user last asked for                  *)
Modem == [tcp : {"idle", "dialing", "dying", "up", "closing"},
          online : BOOLEAN, sshMode : BOOLEAN,
          ask : {"none", "hostkey", "line"}, asker : Nat,
          known : BOOLEAN, caller : BOOLEAN, ring : BOOLEAN, s0 : BOOLEAN,
          enabled : BOOLEAN, login : Nat,
          requests : Seq([do : {"connect", "shell", "end", "accept", "reject", "answer"},
                          n : Nat]),
          told : {"online", "offline"}, wanted : {"none", "tcp", "ssh", "caller"}]

(* "dialing"  a hang-up while a call was being set up that is not given up *)
(* "hasty"    a call dialled or answered before the SSH call before it had *)
(*            come to an end, or while its login was under way             *)
(* "ringing"  a call was dialled while a caller was ringing, or a caller   *)
(*            let in while an SSH call was under way, or left with +++     *)
(* "deaf"     a caller was answered with m_isSshMode left from a call that *)
(*            is over                                                      *)
Races == {"dialing", "ringing", "hasty", "deaf"}

Init ==
    /\ modem = [tcp |-> "idle", online |-> FALSE, sshMode |-> FALSE, ask |-> "none",
                asker |-> 0, known |-> FALSE, caller |-> FALSE, ring |-> FALSE, s0 |-> FALSE,
                enabled |-> TRUE, login |-> 0, requests |-> <<>>,
                told |-> "offline", wanted |-> "none"]
    /\ plus = FALSE /\ armed = FALSE /\ autos = 0 /\ posts = <<>>
    /\ back = [at |-> "none", stage |-> "none", n |-> 0] /\ events = <<>>
    /\ typed = 0 /\ used = 0 /\ callers = 0 /\ upset = {}

-----------------------------------------------------------------------------
(* Functions of RDevice and SshClient on the modem.                        *)
Tell(m, what) == [m EXCEPT !.told = what]

Request(m, what) == [m EXCEPT !.requests = Append(@, [do |-> what, n |-> m.asker])]

(* onSocketDisconnected: online goes, and NO CARRIER is answered.          *)
SocketDisconnected(m) ==
    [m EXCEPT !.online = FALSE, !.told = "offline",
              !.wanted = IF @ = "ssh" THEN @ ELSE "none"]

(* QAbstractSocket::abort, which reports the end of a connection.          *)
Abort(m) == LET idle == [m EXCEPT !.tcp = "idle"]
            IN  IF m.tcp \in {"up", "closing"} THEN SocketDisconnected(idle) ELSE idle

(* QAbstractSocket::disconnectFromHost: at once, or when everything is     *)
(* sent; a socket that is still dialing will close when it has connected.  *)
DisconnectFromHost(m) ==
    CASE m.tcp = "up"      -> {[m EXCEPT !.tcp = "closing"], Abort(m)}
      [] m.tcp = "dialing" -> {[m EXCEPT !.tcp = "dying"]}
      [] OTHER             -> {m}

(* m_ssh->disconnectFromHost(), only when it isConnected().                *)
EndSsh(m) == IF m.known THEN Request(m, "end") ELSE m

DropCaller(m) == [m EXCEPT !.caller = FALSE, !.ring = IF m.caller THEN FALSE ELSE @]

HangUp(m) ==
    LET ended == [EndSsh(m) EXCEPT !.sshMode = FALSE]
    IN  {Tell([DropCaller(h) EXCEPT !.wanted = "none"], "offline") :
            h \in IF m.tcp = "up" THEN DisconnectFromHost(ended) ELSE {ended}}

Reset(m) ==   \* ATZ
    Tell([DropCaller(Abort([EndSsh(m) EXCEPT !.sshMode = FALSE])) EXCEPT !.wanted = "none"],
         "offline")

StartCallStillSsh(m, to) ==   \* mutant: a telnet call leaves m_isSshMode set
    IF to = "tcp"
    THEN [Abort(EndSsh(m)) EXCEPT !.tcp = "dialing", !.wanted = "tcp"]
    ELSE LET clear == EndSsh(Abort([m EXCEPT !.sshMode = TRUE, !.ask = "none"]))
             next  == [clear EXCEPT !.login = @ + 1, !.wanted = "ssh"]
         IN  [next EXCEPT !.requests =
                 Append(@, [do |-> IF to = "ssh" THEN "connect" ELSE "shell", n |-> next.login])]

(* startCall, for what at_handle_dial was given.                           *)
StartCall(m, to) ==
    IF to = "tcp"
    THEN [Abort(EndSsh([m EXCEPT !.sshMode = FALSE])) EXCEPT !.tcp = "dialing", !.wanted = "tcp"]
    ELSE LET clear == EndSsh(Abort([m EXCEPT !.sshMode = TRUE, !.ask = "none"]))
             next  == [clear EXCEPT !.login = @ + 1, !.wanted = "ssh"]
         IN  [next EXCEPT !.requests =
                 Append(@, [do |-> IF to = "ssh" THEN "connect" ELSE "shell", n |-> next.login])]

(* ATA and onAutoAnswerTriggered: the caller's socket replaces tcpSocket.  *)
Answer(m) == Tell([m EXCEPT !.tcp = "up", !.caller = FALSE, !.online = TRUE,
                            !.wanted = "caller"], "online")

GoOnline(m) == IF m.tcp = "up" THEN Tell([m EXCEPT !.online = TRUE], "online")
                               ELSE Tell([m EXCEPT !.online = FALSE], "offline")

-----------------------------------------------------------------------------
(* What the modem does not allow for, see Races.                           *)
LoginUnderWay ==
    \/ back.at # "none" /\ ~modem.known
    \/ \E i \in DOMAIN modem.requests : modem.requests[i].do \in {"connect", "shell"}
    \/ \E i \in DOMAIN events : events[i].is # "disconnected"

SshUnfinished == modem.known \/ modem.requests # <<>> \/ back.at # "none" \/ events # <<>>

TcpUnderWay == modem.tcp \in {"dialing", "dying"}

Note(races) == upset' = upset \cup races

If(condition, race) == IF condition THEN {race} ELSE {}

NoteHangUp(abortive) ==
    Note(If(LoginUnderWay \/ (TcpUnderWay /\ ~abortive), "dialing"))

NoteDial(to) ==
    Note(If(LoginUnderWay \/ (to = "tcp" /\ SshUnfinished), "hasty")
             \cup If(modem.caller, "ringing"))

NoteAnswer == Note(If(modem.caller /\ modem.sshMode, "deaf")
                       \cup If(modem.caller /\ SshUnfinished, "hasty"))

-----------------------------------------------------------------------------
(* The GUI thread: processAtCommand.                                       *)
Dial(to) == modem' = StartCall(modem, to) /\ NoteDial(to)

AtCommand(c) ==
    \/ c \in Dials /\ Dial(c) /\ UNCHANGED armed
    \/ c = "A" /\ modem' = (IF modem.caller THEN [Answer(modem) EXCEPT !.ring = FALSE] ELSE modem)
               /\ NoteAnswer /\ UNCHANGED armed
    \/ c = "O" /\ modem' = GoOnline(modem)
               /\ armed' = (armed /\ modem.tcp # "up")
               /\ UNCHANGED upset
    \/ c = "H" /\ modem' \in HangUp(modem) /\ NoteHangUp(FALSE) /\ UNCHANGED armed
    \/ c = "Z" /\ modem' = Reset(modem) /\ NoteHangUp(TRUE) /\ UNCHANGED armed
    \/ c \in {"S0=0", "S0=1"} /\ modem' = [modem EXCEPT !.s0 = (c = "S0=1")]
                              /\ UNCHANGED <<armed, upset>>

(* One byte of an answer to the login's question, or several.              *)
PromptBytes ==
    LET done == [modem EXCEPT !.ask = "none"]
    IN  \/ UNCHANGED modem
        \/ modem.ask = "line" /\ modem' = Request(done, "answer")
        \/ modem.ask = "hostkey" /\ modem' \in {Request(done, "accept"), Request(done, "reject"),
                                                   Request(Request(done, "accept"), "answer")}

(* The dispatchToNetwork slot: what the Atari sent answers a question,     *)
(* goes to the call, or is an AT command.                                  *)
Dispatch(item) ==
    LET rest == Tail(posts)
    IN  CASE modem.ask # "none" -> PromptBytes /\ posts' = rest
          [] modem.ask = "none" /\ modem.online -> UNCHANGED modem /\ posts' = rest
          [] OTHER -> /\ UNCHANGED modem
                      /\ posts' = IF item \in Commands THEN Append(rest, <<"at", item>>) ELSE rest

Deliver ==
    /\ posts # <<>>
    /\ LET p == Head(posts)
       IN  \/ p[1] = "bytes" /\ Dispatch(p[2]) /\ UNCHANGED <<armed, upset>>
           \/ p[1] = "at" /\ AtCommand(p[2]) /\ posts' = Tail(posts)
           \/ p[1] = "hangup" /\ modem' \in HangUp(modem) /\ NoteHangUp(FALSE)
                             /\ posts' = Tail(posts) /\ UNCHANGED armed
           \/ p[1] = "timer" /\ armed' = p[2] /\ posts' = Tail(posts) /\ UNCHANGED <<modem, upset>>
    /\ UNCHANGED <<plus, autos, typed, ssh, used, callers>>

(* onEscapeTriggered.                                                      *)
EscapeTriggered ==
    /\ armed /\ armed' = FALSE /\ plus' = FALSE
    /\ modem' = IF plus THEN Tell([modem EXCEPT !.online = FALSE], "offline") ELSE modem
    /\ UNCHANGED <<autos, posts, typed, ssh, used, callers, upset>>

-----------------------------------------------------------------------------
(* The GUI thread: sockets. An error before the connection is up, or the   *)
(* other side's closing, tells NO CARRIER.                                 *)
Socket == UNCHANGED <<timers, atari, ssh, used, callers, upset>>

SocketConnected ==   \* onSocketConnected; then the close asked for meanwhile
    /\ \/ modem.tcp = "dialing" /\ modem' = Tell([modem EXCEPT !.tcp = "up", !.online = TRUE], "online")
       \/ modem.tcp = "dying" /\ modem' = Abort([modem EXCEPT !.tcp = "up"])
    /\ Socket

SocketError ==
    /\ TcpUnderWay
    /\ modem' = [modem EXCEPT !.tcp = "idle",
                              !.told = IF modem.online THEN @ ELSE "offline",
                              !.wanted = IF @ = "tcp" THEN "none" ELSE @]
    /\ Socket

SocketEnds == modem.tcp \in {"up", "closing"} /\ modem' = Abort(modem) /\ Socket

BusyNow == modem.online \/ modem.caller   \* mutant: tcpSocket is not asked

(* onNewConnection.                                                        *)
Busy == modem.online \/ modem.tcp # "idle" \/ modem.caller

NewConnection ==
    /\ callers < MaxCallers /\ modem.enabled /\ ~Busy
    /\ callers' = callers + 1
    /\ modem' = [modem EXCEPT !.caller = TRUE, !.ring = ~modem.s0 \/ @]
    /\ autos' = IF modem.s0 THEN autos + 1 ELSE autos
    /\ Note(If(SshUnfinished, "ringing"))
    /\ UNCHANGED <<armed, atari, ssh, used>>

(* onPendingSocketDisconnected: the caller, or m_ringTimer, gave up.       *)
CallerGone ==
    /\ modem.caller
    /\ modem' = Tell([modem EXCEPT !.caller = FALSE, !.ring = FALSE], "offline")
    /\ Socket

RingTimeout ==
    /\ modem.ring
    /\ modem' = IF modem.caller THEN Tell([modem EXCEPT !.caller = FALSE, !.ring = FALSE], "offline")
                                ELSE [modem EXCEPT !.ring = FALSE]
    /\ Socket

AutoAnswerAsked ==   \* mutant: no answer when S0 has been cleared meanwhile
    /\ autos > 0 /\ autos' = autos - 1
    /\ modem' = IF modem.caller /\ modem.s0 THEN Answer(modem) ELSE modem
    /\ NoteAnswer
    /\ UNCHANGED <<armed, atari, ssh, used, callers>>

AutoAnswerTriggered ==
    /\ autos > 0 /\ autos' = autos - 1
    /\ modem' = IF modem.caller THEN Answer(modem) ELSE modem
    /\ NoteAnswer
    /\ UNCHANGED <<armed, atari, ssh, used, callers>>

-----------------------------------------------------------------------------
(* The GUI thread: SshBackend's signals, by way of SshClient.              *)
SshConnected(m) == Tell([m EXCEPT !.known = TRUE, !.online = TRUE], "online")

(* The call that was wanted is over, if this is about the last login.      *)
Over(m, n) == IF n = m.login /\ m.wanted = "ssh" THEN [m EXCEPT !.wanted = "none"] ELSE m

SshDisconnectedUnheard(m, n) ==   \* mutant: nothing is done outside SSH mode
    LET ended == [m EXCEPT !.known = FALSE, !.online = FALSE, !.ask = "none"]
    IN  IF m.sshMode THEN Tell(Over(ended, n), "offline") ELSE m

SshDisconnected(m, n) ==
    LET ended == [m EXCEPT !.known = FALSE, !.online = FALSE, !.ask = "none"]
    IN  IF m.sshMode THEN Tell(Over(ended, n), "offline") ELSE ended

SshError(m, n) ==
    CASE m.sshMode /\ m.online  -> [m EXCEPT !.ask = "none"]
      [] m.sshMode /\ ~m.online -> Tell(Over([m EXCEPT !.ask = "none"], n), "offline")
      [] OTHER -> m

SshAuthFailed(m, n) ==
    IF ~m.sshMode THEN m
    ELSE Tell(Request(Over([m EXCEPT !.ask = "none"], n), "end"), "offline")

SshAsks(m, what, n) ==
    IF m.sshMode THEN [m EXCEPT !.ask = what, !.asker = n] ELSE m

SshSignal ==
    /\ events # <<>> /\ events' = Tail(events)
    /\ LET e == Head(events)
       IN  \/ e.is = "connected"    /\ modem' = SshConnected(modem)
           \/ e.is = "disconnected" /\ modem' = SshDisconnected(modem, e.n)
           \/ e.is = "error"        /\ modem' = SshError(modem, e.n)
           \/ e.is = "authFailed"   /\ modem' = SshAuthFailed(modem, e.n)
           \/ e.is = "prompt"       /\ modem' = SshAsks(modem, "line", e.n)
           \/ e.is = "hostKey"      /\ modem' \in   \* a key we have seen, or not
                  {SshAsks(modem, "hostkey", e.n),
                   IF modem.sshMode THEN Request([modem EXCEPT !.asker = e.n], "accept") ELSE modem}
    /\ UNCHANGED <<timers, atari, back, used, callers, upset>>

-----------------------------------------------------------------------------
(* The back-end's thread: a request is taken, and its slot runs to its end *)
(* (cleanup, then a blocking connection, login or shell).                  *)
Becomes(at, stage, n, signals) ==
    /\ back' = [at |-> at, stage |-> stage, n |-> n]
    /\ events' = events \o [i \in DOMAIN signals |-> [is |-> signals[i], n |-> n]]

Connect(n) ==   \* processConnection leaves m_stage alone
    \/ Becomes("up", back.stage, n, <<"connected">>)
    \/ Becomes("none", back.stage, n, <<"error">>)

Shell(n) ==     \* processInteractiveConnect
    \/ Becomes("login", "hostkey", n, <<"hostKey">>)
    \/ Becomes("none", "none", n, <<"error">>)

HostKeyDecision(accept) ==
    IF back.at = "none" \/ back.stage # "hostkey" THEN UNCHANGED <<back, events>>
    ELSE IF accept THEN Becomes(back.at, "asking", back.n, <<"prompt">>)
                   ELSE Becomes("none", back.stage, back.n, <<"disconnected">>)

AuthAnswer ==
    IF back.at = "none" \/ back.stage # "asking" THEN UNCHANGED <<back, events>>
    ELSE \/ Becomes(back.at, "asking", back.n, <<"prompt">>)
         \/ Becomes("up", "none", back.n, <<"connected">>)
         \/ Becomes("none", "none", back.n, <<"error">>)
         \/ Becomes(back.at, "none", back.n, <<"authFailed">>)

BackendTakes ==
    /\ modem.requests # <<>>
    /\ LET r == Head(modem.requests)
       IN  /\ modem' = [modem EXCEPT !.requests = Tail(@)]
           /\ \/ r.do = "connect" /\ Connect(r.n)
              \/ r.do = "shell"   /\ Shell(r.n)
              \/ r.do = "end"     /\ Becomes("none", back.stage, back.n, <<"disconnected">>)
              \/ r.do \in {"accept", "reject"} /\ HostKeyDecision(r.do = "accept")
              \/ r.do = "answer"  /\ AuthAnswer
    /\ UNCHANGED <<timers, atari, used, callers, upset>>

(* pollLoop and processWrite: the server closes, or fails.                 *)
BackendLost ==
    /\ back.at = "up"
    /\ \/ Becomes("none", back.stage, back.n, <<"disconnected">>)
       \/ Becomes("none", back.stage, back.n, <<"error", "disconnected">>)
    /\ UNCHANGED <<modem, timers, atari, used, callers, upset>>

-----------------------------------------------------------------------------
(* The SIO thread: what the Atari does. In command mode (handleWrite) a    *)
(* line is an AT command unless there is a call; in stream mode            *)
(* (processSerialData) everything is dispatched, and +++ looked for.       *)
Typing(p) == /\ modem.enabled /\ typed < MaxTyped /\ typed' = typed + 1
             /\ posts' = posts \o p
             /\ UNCHANGED <<modem, timers, ssh, used, callers, upset>>

Write == \E c \in Lines : /\ Typing(<<IF modem.online THEN <<"bytes", c>> ELSE <<"at", c>> >>)
                         /\ UNCHANGED plus

Stream == \E c \in Lines \cup {"x"} :
              /\ Typing((IF modem.online THEN <<<<"timer", FALSE>>>> ELSE <<>>)
                             \o <<<<"bytes", c>>>>)
              /\ plus' = (plus /\ ~modem.online)

Escape == /\ modem.online /\ Typing(<<<<"timer", TRUE>>, <<"bytes", "+++">>>>)
          /\ plus' = TRUE

DropDtr == Typing(<<<<"hangup", "">>>>) /\ UNCHANGED plus   \* handleControl, ESC H

Types == Write \/ Stream \/ Escape \/ DropDtr

-----------------------------------------------------------------------------
(* The user: a dial from the phone book, a fresh emulation run, the modem  *)
(* switched off and on.                                                    *)
User == /\ used < MaxUser /\ used' = used + 1
        /\ UNCHANGED <<timers, plus, typed, ssh, callers>>

InjectDial == \E to \in Dials \cap Lines :
    modem.enabled /\ posts' = Append(posts, <<"at", to>>) /\ UNCHANGED <<modem, upset>> /\ User

ResetSession ==
    /\ modem' = [Abort([EndSsh(modem) EXCEPT !.ask = "none", !.sshMode = FALSE, !.online = FALSE])
                    EXCEPT !.told = "offline", !.wanted = "none"]
    /\ Note(If(LoginUnderWay, "dialing"))
    /\ UNCHANGED posts /\ User

DisableStopsRinging ==   \* mutant: the timer goes, the caller stays
    /\ modem.enabled
    /\ modem' \in {Tell([m EXCEPT !.enabled = FALSE, !.wanted = "none", !.ring = FALSE], "offline") :
                     m \in DisconnectFromHost([EndSsh(modem) EXCEPT !.sshMode = FALSE])}
    /\ NoteHangUp(FALSE)
    /\ UNCHANGED posts /\ User

Disable ==
    /\ modem.enabled
    /\ modem' \in {Tell([m EXCEPT !.enabled = FALSE, !.wanted = "none"], "offline") :
                     m \in DisconnectFromHost([EndSsh(modem) EXCEPT !.sshMode = FALSE])}
    /\ NoteHangUp(FALSE)
    /\ UNCHANGED posts /\ User

Enable == /\ ~modem.enabled /\ modem' = [modem EXCEPT !.enabled = TRUE]
          /\ UNCHANGED <<timers, atari, ssh, used, callers, upset>>

-----------------------------------------------------------------------------
Gui  == Deliver \/ SshSignal
Next == \/ Gui \/ EscapeTriggered
        \/ SocketConnected \/ SocketError \/ SocketEnds
        \/ NewConnection \/ CallerGone \/ RingTimeout \/ AutoAnswerTriggered
        \/ BackendTakes \/ BackendLost
        \/ Types \/ InjectDial \/ ResetSession \/ Disable \/ Enable

Spec == Init /\ [][Next]_vars
             /\ WF_vars(Gui) /\ WF_vars(BackendTakes)
             /\ WF_vars(RingTimeout) /\ WF_vars(AutoAnswerTriggered)
             /\ WF_vars(modem.tcp = "closing" /\ SocketEnds)

-----------------------------------------------------------------------------
(* Types; a caller that rings has a timer that will end it.                *)
TypeOK ==
    /\ modem \in Modem /\ {plus, armed} \subseteq BOOLEAN
    /\ autos \in 0 .. callers /\ upset \subseteq Races
    /\ modem.caller => modem.ring \/ autos > 0

(* The Atari was told CONNECT and nothing since: its bytes do go to the    *)
(* call, and to the one it asked for; except after the races named here.   *)
ToldTruth ==
    modem.told = "online" /\ upset \cap {"dialing", "hasty", "deaf"} = {} =>
        modem.online /\ modem.wanted # "none" /\ (modem.sshMode <=> modem.wanted = "ssh")

(* An SSH call: the back-end has one and nothing asked ends it, or one has *)
(* been asked for.                                                         *)
LiveSsh ==
    \/ back.at # "none" /\ \A i \in DOMAIN modem.requests : modem.requests[i].do = "answer"
    \/ modem.requests # <<>> /\ Last(modem.requests).do \in {"connect", "shell"}

(* A modem has one line: the telnet call, the SSH call and the caller      *)
(* ringing (busy check of onNewConnection, startCall's aborts) exclude     *)
(* each other, except after the races named here.                          *)
OneLine ==
    upset \cap {"hasty", "ringing"} = {} =>
        Cardinality({p \in {<<"telnet", modem.tcp \in {"dialing", "up"}>>,
                             <<"ssh", LiveSsh>>, <<"caller", modem.caller>>} : p[2]}) <= 1

(* A caller does not ring for ever: he is answered, gives up, or the ring  *)
(* timer (startRing, onRingTimeout) or S0 ends it.                         *)
RingEnds == modem.caller ~> ~modem.caller

(* A call that is over (ATH, ATZ, DTR, the other side, the user) leaves    *)
(* the modem free: nothing is connected, and what the Atari types is an AT *)
(* command again; except after the races named here.                       *)
LineFreed ==
    modem.wanted = "none" ~>
        \/ modem.wanted # "none" \/ upset \cap {"dialing", "hasty"} # {}
        \/ /\ modem.tcp = "idle" /\ back.at = "none"
           /\ ~modem.online /\ modem.ask = "none"

-----------------------------------------------------------------------------
(* What comments of the source say, without the exceptions above.          *)

(* m_isSshMode is "True while the current call is SSH rather than telnet"  *)
(* (rdevice.h): what the Atari types to a caller goes to the caller. SSH   *)
(* calls that were still under way are left out.                           *)
CallerHeard ==
    modem.told = "online" /\ modem.wanted = "caller" /\ upset \subseteq {"deaf"} =>
        ~modem.sshMode
=============================================================================
