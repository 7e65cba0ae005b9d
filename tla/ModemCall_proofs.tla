------------------------- MODULE ModemCall_proofs --------------------------
(* Proofs about the R: device's calls, for any number of lines typed, of   *)
(* calls, callers and logins: the types, that the modem has one line, and  *)
(* that what the Atari was told of its call is true. The last one needs to *)
(* know what the two queues between the GUI thread and the SSH back-end can*)
(* hold at each stage of a login; see Calls.                               *)
EXTENDS ModemCall, SequenceTheorems, FiniteSetTheorems, TLAPS

-----------------------------------------------------------------------------
(* What the modem's functions do to its state.                             *)
Asking == {"connect", "shell", "end", "accept", "reject", "answer"}
Ask == [do : Asking, n : Nat]
Asked == Seq(Ask)

(* The fields of the modem, with the requests named.                       *)
LEMMA ModemIs ==
    Modem = [tcp : {"idle", "dialing", "dying", "up", "closing"},
             online : BOOLEAN, sshMode : BOOLEAN,
             ask : {"none", "hostkey", "line"}, asker : Nat,
             known : BOOLEAN, caller : BOOLEAN, ring : BOOLEAN, s0 : BOOLEAN,
             enabled : BOOLEAN, login : Nat, requests : Asked,
             told : {"online", "offline"}, wanted : {"none", "tcp", "ssh", "caller"}]
BY DEF Modem, Asked, Ask, Asking

(* A request that is added is one more of them.                            *)
LEMMA Queued ==
    ASSUME NEW q \in Asked, NEW do \in Asking, NEW n \in Nat
    PROVE  Append(q, [do |-> do, n |-> n]) \in Asked
BY DEF Asked, Ask

(* The call and the line are as they were.                                 *)
SameCall(r, m) == r.online = m.online /\ r.told = m.told /\ r.wanted = m.wanted
SameLine(r, m) == r.tcp = m.tcp /\ r.caller = m.caller /\ r.ring = m.ring
SameSsh(r, m)  == r.sshMode = m.sshMode /\ r.ask = m.ask /\ r.known = m.known /\ r.login = m.login

(* Request adds one request and leaves the rest alone.                     *)
LEMMA RequestDoes ==
    ASSUME NEW m \in Modem, NEW what \in Asking
    PROVE  /\ Request(m, what) \in Modem
           /\ Request(m, what).requests = Append(m.requests, [do |-> what, n |-> m.asker])
           /\ SameCall(Request(m, what), m) /\ SameLine(Request(m, what), m)
           /\ SameSsh(Request(m, what), m)
<1>1. m.asker \in Nat /\ m.requests \in Asked BY ModemIs
<1>2. Append(m.requests, [do |-> what, n |-> m.asker]) \in Asked BY <1>1, Queued
<1> QED BY <1>2, ModemIs DEF Request, SameCall, SameLine, SameSsh

(* EndSsh asks for the end of a session the modem knows of.                *)
LEMMA EndDoes ==
    ASSUME NEW m \in Modem
    PROVE  /\ EndSsh(m) \in Modem
           /\ EndSsh(m).requests = IF m.known THEN Append(m.requests, [do |-> "end", n |-> m.asker])
                                              ELSE m.requests
           /\ SameCall(EndSsh(m), m) /\ SameLine(EndSsh(m), m) /\ SameSsh(EndSsh(m), m)
<1>1. "end" \in Asking BY DEF Asking
<1>2. CASE m.known
  <2>1. EndSsh(m) = Request(m, "end") BY <1>2 DEF EndSsh
  <2> QED BY <1>1, <1>2, <2>1, RequestDoes
<1>3. CASE ~m.known BY <1>3 DEF EndSsh, SameCall, SameLine, SameSsh
<1> QED BY <1>2, <1>3

(* QAbstractSocket::abort: the socket is idle, and a call that was up is   *)
(* over.                                                                   *)
LEMMA AbortDoes ==
    ASSUME NEW m \in Modem
    PROVE  /\ Abort(m) \in Modem
           /\ Abort(m).tcp = "idle" /\ Abort(m).caller = m.caller /\ Abort(m).ring = m.ring
           /\ Abort(m).requests = m.requests /\ SameSsh(Abort(m), m)
           /\ m.tcp \notin {"up", "closing"} => SameCall(Abort(m), m)
           /\ m.tcp \in {"up", "closing"} =>
                ~Abort(m).online /\ Abort(m).told = "offline"
                /\ Abort(m).wanted = IF m.wanted = "ssh" THEN "ssh" ELSE "none"
BY ModemIs DEF Abort, SocketDisconnected, SameCall, SameSsh

(* A change of the call alone, see DisconnectFromHost.                     *)
Hung(r, m) == /\ r \in Modem /\ r.caller = m.caller /\ r.ring = m.ring /\ r.requests = m.requests
              /\ SameSsh(r, m)
              /\ m.tcp = "up" => r.tcp \in {"closing", "idle"}
              /\ m.tcp = "dialing" => r.tcp = "dying"
              /\ m.tcp \notin {"up", "dialing"} => r = m
              /\ r.online => m.online

(* disconnectFromHost, whichever way the socket closes.                    *)
LEMMA DisconnectDoes ==
    ASSUME NEW m \in Modem, NEW r \in DisconnectFromHost(m)
    PROVE  Hung(r, m)
<1>1. CASE m.tcp = "up"
  <2>1. r \in {[m EXCEPT !.tcp = "closing"], Abort(m)} BY <1>1 DEF DisconnectFromHost
  <2>2. CASE r = [m EXCEPT !.tcp = "closing"] BY <1>1, <2>2, ModemIs DEF Hung, SameSsh
  <2>3. CASE r = Abort(m) BY <1>1, <2>3, AbortDoes DEF Hung
  <2> QED BY <2>1, <2>2, <2>3
<1>2. CASE m.tcp = "dialing" BY <1>2, ModemIs DEF DisconnectFromHost, Hung, SameSsh
<1>3. CASE m.tcp \notin {"up", "dialing"} BY <1>3, ModemIs DEF DisconnectFromHost, Hung, SameSsh
<1> QED BY <1>1, <1>2, <1>3

(* What ends a call leaves behind, whatever it does to the socket.         *)
Freed(r, m) == /\ r \in Modem /\ r.requests = EndSsh(m).requests
               /\ ~r.sshMode /\ r.ask \in {"none", m.ask} /\ r.known = m.known /\ r.login = m.login
               /\ r.online => m.online
               /\ r.told = "offline" /\ r.wanted = "none"

(* EndSsh, and the mode is telnet's.                                       *)
LEMMA TelnetDoes ==
    ASSUME NEW m \in Modem
    PROVE  LET r == [EndSsh(m) EXCEPT !.sshMode = FALSE] IN
           /\ r \in Modem /\ SameCall(r, m) /\ SameLine(r, m)
           /\ ~r.sshMode /\ r.ask = m.ask /\ r.known = m.known /\ r.login = m.login
           /\ r.requests = EndSsh(m).requests
<1> DEFINE e == EndSsh(m)
<1>1. e \in Modem /\ SameCall(e, m) /\ SameLine(e, m) /\ SameSsh(e, m) BY EndDoes
<1> HIDE DEF e
<1>2. LET r == [e EXCEPT !.sshMode = FALSE] IN
      /\ r \in Modem /\ SameCall(r, m) /\ SameLine(r, m)
      /\ ~r.sshMode /\ r.ask = m.ask /\ r.known = m.known /\ r.login = m.login
      /\ r.requests = e.requests
  BY <1>1, ModemIs DEF SameCall, SameLine, SameSsh
<1> QED BY <1>2 DEF e

(* The end of HangUp and of Reset.                                         *)
LEMMA LetGo ==
    ASSUME NEW h \in Modem
    PROVE  LET r == Tell([DropCaller(h) EXCEPT !.wanted = "none"], "offline") IN
           /\ r \in Modem /\ r.told = "offline" /\ r.wanted = "none" /\ ~r.caller
           /\ (r.ring => h.ring) /\ r.requests = h.requests
           /\ r.tcp = h.tcp /\ r.online = h.online /\ SameSsh(r, h)
<1> DEFINE d == DropCaller(h)
<1>1. /\ d \in Modem /\ ~d.caller /\ (d.ring => h.ring) /\ d.requests = h.requests
      /\ d.tcp = h.tcp /\ d.online = h.online /\ SameSsh(d, h)
  BY ModemIs DEF DropCaller, SameSsh
<1> HIDE DEF d
<1>2. LET r == Tell([d EXCEPT !.wanted = "none"], "offline") IN
      /\ r \in Modem /\ r.told = "offline" /\ r.wanted = "none" /\ r.caller = d.caller
      /\ r.ring = d.ring /\ r.requests = d.requests
      /\ r.tcp = d.tcp /\ r.online = d.online /\ SameSsh(r, d)
  BY <1>1, ModemIs DEF Tell, SameSsh
<1> QED BY <1>1, <1>2 DEF d, SameSsh

(* A hang-up ends the call, and the caller who rings is dropped.           *)
LEMMA HangUpDoes ==
    ASSUME NEW m \in Modem, NEW r \in HangUp(m)
    PROVE  /\ Freed(r, m) /\ r.ask = m.ask
           /\ m.tcp = "up" => r.tcp \in {"closing", "idle"}
           /\ m.tcp # "up" => r.tcp = m.tcp
           /\ ~r.caller /\ (r.ring => m.ring)
<1> DEFINE t == [EndSsh(m) EXCEPT !.sshMode = FALSE]
<1>1. /\ t \in Modem /\ SameCall(t, m) /\ SameLine(t, m)
      /\ ~t.sshMode /\ t.ask = m.ask /\ t.known = m.known /\ t.login = m.login
      /\ t.requests = EndSsh(m).requests
  BY TelnetDoes
<1>2. \E h \in IF m.tcp = "up" THEN DisconnectFromHost(t) ELSE {t} :
          r = Tell([DropCaller(h) EXCEPT !.wanted = "none"], "offline")
  BY <1>1 DEF HangUp, SameLine
<1> HIDE DEF t
<1>3. PICK h : /\ h \in IF m.tcp = "up" THEN DisconnectFromHost(t) ELSE {t}
               /\ r = Tell([DropCaller(h) EXCEPT !.wanted = "none"], "offline")
  BY <1>2
<1>4. /\ h \in Modem /\ h.caller = m.caller /\ h.ring = m.ring /\ h.requests = EndSsh(m).requests
      /\ ~h.sshMode /\ h.ask = m.ask /\ h.known = m.known /\ h.login = m.login
      /\ h.online => m.online
      /\ m.tcp = "up" => h.tcp \in {"closing", "idle"}
      /\ m.tcp # "up" => h.tcp = m.tcp
  <2>1. CASE m.tcp = "up"
    <3>1. h \in DisconnectFromHost(t) BY <1>3, <2>1
    <3>2. Hung(h, t) BY <1>1, <3>1, DisconnectDoes
    <3> QED BY <1>1, <2>1, <3>2 DEF Hung, SameCall, SameLine, SameSsh
  <2>2. CASE m.tcp # "up" BY <1>1, <1>3, <2>2 DEF SameCall, SameLine
  <2> QED BY <2>1, <2>2
<1> QED BY <1>3, <1>4, LetGo DEF Freed, SameSsh

(* ATZ ends the call at once.                                              *)
LEMMA ResetDoes ==
    ASSUME NEW m \in Modem
    PROVE  LET r == Reset(m) IN
           Freed(r, m) /\ r.ask = m.ask /\ r.tcp = "idle" /\ ~r.caller /\ (r.ring => m.ring)
<1> DEFINE t == [EndSsh(m) EXCEPT !.sshMode = FALSE]
           a == Abort(t)
<1>1. /\ t \in Modem /\ SameCall(t, m) /\ SameLine(t, m)
      /\ ~t.sshMode /\ t.ask = m.ask /\ t.known = m.known /\ t.login = m.login
      /\ t.requests = EndSsh(m).requests
  BY TelnetDoes
<1>2. Reset(m) = Tell([DropCaller(a) EXCEPT !.wanted = "none"], "offline") BY DEF Reset
<1> HIDE DEF t
<1>3. /\ a \in Modem /\ a.tcp = "idle" /\ a.caller = t.caller /\ a.ring = t.ring
      /\ a.requests = t.requests /\ SameSsh(a, t) /\ (a.online => t.online)
  BY <1>1, AbortDoes DEF SameCall
<1> HIDE DEF a
<1>4. LET r == Tell([DropCaller(a) EXCEPT !.wanted = "none"], "offline") IN
      Freed(r, m) /\ r.ask = m.ask /\ r.tcp = "idle" /\ ~r.caller /\ (r.ring => m.ring)
  BY <1>1, <1>3, LetGo DEF Freed, SameCall, SameLine, SameSsh
<1> QED BY <1>2, <1>4

(* startCall to a telnet host.                                             *)
LEMMA TelnetCallDoes ==
    ASSUME NEW m \in Modem
    PROVE  LET r == StartCall(m, "tcp") IN
           /\ r \in Modem /\ r.tcp = "dialing" /\ r.wanted = "tcp" /\ ~r.sshMode
           /\ r.caller = m.caller /\ r.ring = m.ring
           /\ r.ask = m.ask /\ r.known = m.known /\ r.login = m.login
           /\ r.requests = EndSsh(m).requests
           /\ m.tcp \in {"up", "closing"} => r.told = "offline"
           /\ m.tcp \notin {"up", "closing"} => r.told = m.told
<1> DEFINE t == [m EXCEPT !.sshMode = FALSE]
           e == EndSsh(t)
           a == Abort(e)
<1>1. /\ t \in Modem /\ SameCall(t, m) /\ SameLine(t, m)
      /\ ~t.sshMode /\ t.ask = m.ask /\ t.known = m.known /\ t.login = m.login
      /\ t.requests = m.requests /\ t.asker = m.asker
  BY ModemIs DEF SameCall, SameLine
<1>2. StartCall(m, "tcp") = [a EXCEPT !.tcp = "dialing", !.wanted = "tcp"] BY DEF StartCall
<1> HIDE DEF t
<1>3. /\ e \in Modem /\ SameCall(e, t) /\ SameLine(e, t) /\ SameSsh(e, t)
      /\ e.requests = EndSsh(m).requests
  BY <1>1, EndDoes
<1> HIDE DEF e
<1>4. /\ a \in Modem /\ a.caller = e.caller /\ a.ring = e.ring
      /\ a.requests = e.requests /\ SameSsh(a, e)
      /\ e.tcp \in {"up", "closing"} => a.told = "offline"
      /\ e.tcp \notin {"up", "closing"} => a.told = e.told
  BY <1>3, AbortDoes DEF SameCall
<1> HIDE DEF a
<1>5. LET r == [a EXCEPT !.tcp = "dialing", !.wanted = "tcp"] IN
      /\ r \in Modem /\ r.tcp = "dialing" /\ r.wanted = "tcp" /\ r.sshMode = a.sshMode
      /\ r.caller = a.caller /\ r.ring = a.ring
      /\ r.ask = a.ask /\ r.known = a.known /\ r.login = a.login
      /\ r.requests = a.requests /\ r.told = a.told
  BY <1>4, ModemIs
<1>6. /\ a.sshMode = FALSE /\ a.caller = m.caller /\ a.ring = m.ring
      /\ a.ask = m.ask /\ a.known = m.known /\ a.login = m.login /\ a.requests = EndSsh(m).requests
  BY <1>1, <1>3, <1>4 DEF SameCall, SameLine, SameSsh
<1>7. /\ m.tcp \in {"up", "closing"} => a.told = "offline"
      /\ m.tcp \notin {"up", "closing"} => a.told = m.told
  BY <1>1, <1>3, <1>4 DEF SameCall, SameLine
<1> QED BY <1>2, <1>5, <1>6, <1>7

(* What startCall asks the back-end for, and what it leaves behind when    *)
(* it dials an SSH host, with or without an interactive login.             *)
LoginAt(to, n) == [do |-> IF to = "ssh" THEN "connect" ELSE "shell", n |-> n]

SshDialled(r, m, to) ==
    /\ r \in Modem /\ r.tcp = "idle" /\ r.wanted = "ssh" /\ r.sshMode
    /\ r.caller = m.caller /\ r.ring = m.ring
    /\ r.ask = "none" /\ r.known = m.known /\ r.login = m.login + 1
    /\ r.requests = Append(EndSsh(m).requests, LoginAt(to, r.login))
    /\ m.tcp \in {"up", "closing"} => r.told = "offline"
    /\ m.tcp \notin {"up", "closing"} => r.told = m.told /\ r.online = m.online

(* startCall to an SSH host.                                               *)
LEMMA SshCallDoes ==
    ASSUME NEW m \in Modem, NEW to \in {"ssh", "shell"}
    PROVE  SshDialled(StartCall(m, to), m, to)
<1> DEFINE t == [m EXCEPT !.sshMode = TRUE, !.ask = "none"]
           a == Abort(t)
           e == EndSsh(a)
           s == [e EXCEPT !.login = @ + 1, !.wanted = "ssh"]
           q == Append(s.requests, LoginAt(to, s.login))
<1>1. /\ t \in Modem /\ SameCall(t, m) /\ SameLine(t, m)
      /\ t.sshMode /\ t.ask = "none" /\ t.known = m.known /\ t.login = m.login
      /\ t.requests = m.requests /\ t.asker = m.asker
  BY ModemIs DEF SameCall, SameLine
<1>2. StartCall(m, to) = [s EXCEPT !.requests = q] BY DEF StartCall, LoginAt
<1>a. Abort(t).asker = t.asker BY <1>1, ModemIs DEF Abort, SocketDisconnected
<1> HIDE DEF t
<1>3. /\ a \in Modem /\ a.tcp = "idle" /\ a.caller = t.caller /\ a.ring = t.ring
      /\ a.requests = t.requests /\ SameSsh(a, t)
      /\ t.tcp \in {"up", "closing"} => a.told = "offline"
      /\ t.tcp \notin {"up", "closing"} => a.told = t.told /\ a.online = t.online
  BY <1>1, AbortDoes DEF SameCall
<1>b. a.asker = m.asker BY <1>1, <1>a
<1> HIDE DEF a
<1>4. /\ e \in Modem /\ SameCall(e, a) /\ SameLine(e, a) /\ SameSsh(e, a)
      /\ e.requests = EndSsh(m).requests
  <2>1. /\ e \in Modem /\ SameCall(e, a) /\ SameLine(e, a) /\ SameSsh(e, a)
        /\ e.requests = IF a.known THEN Append(a.requests, [do |-> "end", n |-> a.asker]) ELSE a.requests
    BY <1>3, EndDoes
  <2>2. EndSsh(m).requests = IF m.known THEN Append(m.requests, [do |-> "end", n |-> m.asker]) ELSE m.requests
    BY EndDoes
  <2>3. a.known = m.known /\ a.requests = m.requests BY <1>1, <1>3 DEF SameSsh
  <2> HIDE DEF e
  <2> QED BY <1>b, <2>1, <2>2, <2>3
<1> HIDE DEF e
<1>5. s \in Modem /\ s.requests = e.requests /\ s.login = e.login + 1
      /\ s.wanted = "ssh" /\ s.sshMode = e.sshMode /\ s.ask = e.ask /\ s.known = e.known
      /\ SameLine(s, e) /\ s.told = e.told /\ s.online = e.online
  <2> DEFINE n == e.login + 1
  <2>1. n \in Nat BY <1>4, ModemIs
  <2> HIDE DEF n
  <2>2. LET x == [e EXCEPT !.login = n, !.wanted = "ssh"] IN
        /\ x \in Modem /\ x.requests = e.requests /\ x.login = n
        /\ x.wanted = "ssh" /\ x.sshMode = e.sshMode /\ x.ask = e.ask /\ x.known = e.known
        /\ SameLine(x, e) /\ x.told = e.told /\ x.online = e.online
    BY <1>4, <2>1, ModemIs DEF SameLine
  <2> QED BY <2>2 DEF n
<1> HIDE DEF s
<1>6. q \in Asked
  <2>1. s.requests \in Asked /\ s.login \in Nat BY <1>5, ModemIs
  <2>2. (IF to = "ssh" THEN "connect" ELSE "shell") \in Asking BY DEF Asking
  <2> QED BY <2>1, <2>2, Queued DEF LoginAt
<1>7. q = Append(EndSsh(m).requests, LoginAt(to, m.login + 1))
  BY <1>1, <1>3, <1>4, <1>5 DEF SameSsh
<1> HIDE DEF q
<1>8. LET r == [s EXCEPT !.requests = q] IN
      /\ r \in Modem /\ SameLine(r, s) /\ SameCall(r, s) /\ SameSsh(r, s) /\ r.requests = q
  BY <1>5, <1>6, ModemIs DEF SameLine, SameCall, SameSsh
<1>9. /\ s.tcp = "idle" /\ s.sshMode /\ s.ask = "none" /\ s.known = m.known /\ s.login = m.login + 1
      /\ s.caller = m.caller /\ s.ring = m.ring
  BY <1>1, <1>3, <1>4, <1>5 DEF SameLine, SameSsh
<1>10. /\ m.tcp \in {"up", "closing"} => s.told = "offline"
       /\ m.tcp \notin {"up", "closing"} => s.told = m.told /\ s.online = m.online
  BY <1>1, <1>3, <1>4, <1>5 DEF SameLine, SameCall
<1> DEFINE r == StartCall(m, to)
<1>11. r = [s EXCEPT !.requests = q] BY <1>2
<1> HIDE DEF r
<1>12. /\ r \in Modem /\ SameLine(r, s) /\ SameCall(r, s) /\ SameSsh(r, s)
       /\ r.requests = Append(EndSsh(m).requests, LoginAt(to, r.login))
  BY <1>7, <1>8, <1>9, <1>11 DEF SameSsh
<1>13. SshDialled(r, m, to)
  BY <1>5, <1>9, <1>10, <1>12 DEF SshDialled, SameCall, SameLine, SameSsh
<1> QED BY <1>13 DEF r

(* Answers to the login's questions.                                       *)
LEMMA PromptDoes ==
    ASSUME modem \in Modem, PromptBytes
    PROVE  /\ modem' \in Modem /\ SameCall(modem', modem) /\ SameLine(modem', modem)
           /\ modem'.sshMode = modem.sshMode /\ modem'.known = modem.known /\ modem'.login = modem.login
           /\ modem' # modem => modem'.ask = "none"
<1> DEFINE done == [modem EXCEPT !.ask = "none"]
<1>1. done \in Modem /\ SameCall(done, modem) /\ SameLine(done, modem) /\ done.sshMode = modem.sshMode
      /\ done.known = modem.known /\ done.login = modem.login /\ done.ask = "none"
  BY ModemIs DEF SameCall, SameLine
<1>2. "accept" \in Asking /\ "reject" \in Asking /\ "answer" \in Asking BY DEF Asking
<1>3. \/ modem' = modem \/ modem' = Request(done, "answer") \/ modem' = Request(done, "accept")
      \/ modem' = Request(done, "reject") \/ modem' = Request(Request(done, "accept"), "answer")
  BY DEF PromptBytes
<1> HIDE DEF done
<1>4. ASSUME NEW what \in Asking
      PROVE  LET r == Request(done, what) IN
             /\ r \in Modem /\ SameCall(r, modem) /\ SameLine(r, modem) /\ r.sshMode = modem.sshMode
             /\ r.known = modem.known /\ r.login = modem.login /\ r.ask = "none"
  BY <1>1, <1>4, RequestDoes DEF SameCall, SameLine, SameSsh
<1>5. LET r == Request(Request(done, "accept"), "answer") IN
      /\ r \in Modem /\ SameCall(r, modem) /\ SameLine(r, modem) /\ r.sshMode = modem.sshMode
      /\ r.known = modem.known /\ r.login = modem.login /\ r.ask = "none"
  <2> DEFINE a == Request(done, "accept")
  <2>1. /\ a \in Modem /\ SameCall(a, modem) /\ SameLine(a, modem) /\ a.sshMode = modem.sshMode
        /\ a.known = modem.known /\ a.login = modem.login /\ a.ask = "none"
    BY <1>2, <1>4
  <2> HIDE DEF a
  <2>2. LET r == Request(a, "answer") IN
        /\ r \in Modem /\ SameCall(r, a) /\ SameLine(r, a) /\ SameSsh(r, a)
    BY <1>2, <2>1, RequestDoes
  <2> QED BY <2>1, <2>2 DEF a, SameCall, SameLine, SameSsh
<1>6. CASE modem' = modem BY <1>6 DEF SameCall, SameLine
<1> QED BY <1>2, <1>3, <1>4, <1>5, <1>6

-----------------------------------------------------------------------------
(* Types.                                                                  *)
Words == Commands \cup {"x", "+++", ""}
Post  == ({"at", "bytes", "hangup"} \X Words) \cup ({"timer"} \X BOOLEAN)
Signals == {"connected", "disconnected", "error", "authFailed", "prompt", "hostKey"}
Event == [is : Signals, n : Nat]
Stage == {"none", "hostkey", "asking"}

Queues == /\ posts \in Seq(Post) /\ events \in Seq(Event)
          /\ back \in [at : {"none", "login", "up"}, stage : Stage, n : Nat]

Rings == modem \in Modem /\ autos \in Nat /\ (modem.caller => modem.ring \/ autos > 0)

Flags == {plus, armed} \subseteq BOOLEAN /\ upset \subseteq Races
         /\ autos \in Nat /\ callers \in Nat /\ autos <= callers

(* A caller is answered: the line is his.                                  *)
LEMMA AnswerDoes ==
    ASSUME NEW m \in Modem
    PROVE  LET r == Answer(m) IN
           /\ r \in Modem /\ r.tcp = "up" /\ ~r.caller /\ r.ring = m.ring
           /\ r.online /\ r.told = "online" /\ r.wanted = "caller"
           /\ SameSsh(r, m) /\ r.requests = m.requests
BY ModemIs DEF Answer, Tell, SameSsh

(* An AT command leaves no caller without something that will end his      *)
(* ringing.                                                                *)
LEMMA CommandRings == ASSUME Rings, NEW c, AtCommand(c)
                      PROVE  modem' \in Modem /\ (modem'.caller => modem'.ring \/ autos > 0)
<1> USE DEF Rings
<1>1. CASE c \in Dials /\ Dial(c)
  <2>1. CASE c = "tcp" BY <1>1, <2>1, TelnetCallDoes DEF Dial
  <2>2. CASE c \in {"ssh", "shell"}
    <3>1. /\ StartCall(modem, c) \in Modem /\ StartCall(modem, c).caller = modem.caller
          /\ StartCall(modem, c).ring = modem.ring
      <4>1. SshDialled(StartCall(modem, c), modem, c) BY <2>2, SshCallDoes
      <4> QED BY <4>1 DEF SshDialled
    <3>2. modem' = StartCall(modem, c) BY <1>1 DEF Dial
    <3> QED BY <3>1, <3>2
  <2> QED BY <1>1, <2>1, <2>2 DEF Dials
<1>2. CASE c = "A" /\ modem' = (IF modem.caller THEN [Answer(modem) EXCEPT !.ring = FALSE] ELSE modem)
  <2> DEFINE a == Answer(modem)
  <2>1. a \in Modem /\ ~a.caller BY AnswerDoes
  <2> HIDE DEF a
  <2>2. [a EXCEPT !.ring = FALSE] \in Modem /\ ~[a EXCEPT !.ring = FALSE].caller BY <2>1, ModemIs
  <2> QED BY <1>2, <2>2 DEF a
<1>3. CASE c = "O" /\ modem' = GoOnline(modem) BY <1>3, ModemIs DEF GoOnline, Tell
<1>4. CASE c = "H" /\ modem' \in HangUp(modem) BY <1>4, HangUpDoes DEF Freed
<1>5. CASE c = "Z" /\ modem' = Reset(modem) BY <1>5, ResetDoes DEF Freed
<1>6. CASE modem' = [modem EXCEPT !.s0 = (c = "S0=1")] BY <1>6, ModemIs
<1> QED BY <1>1, <1>2, <1>3, <1>4, <1>5, <1>6 DEF AtCommand

(* Neither does anything else that was posted to the GUI thread.           *)
LEMMA DeliverRings == Rings /\ Deliver => Rings'
<1> SUFFICES ASSUME Rings, Deliver PROVE modem' \in Modem /\ (modem'.caller => modem'.ring \/ autos > 0)
  BY DEF Rings, Deliver
<1>1. PICK p : \/ p[1] = "bytes" /\ Dispatch(p[2])
               \/ p[1] = "at" /\ AtCommand(p[2])
               \/ p[1] = "hangup" /\ modem' \in HangUp(modem)
               \/ p[1] = "timer" /\ UNCHANGED modem
  BY DEF Deliver
<1>2. CASE Dispatch(p[2])
  <2>1. CASE PromptBytes BY <2>1, PromptDoes DEF Rings, SameLine
  <2>2. CASE UNCHANGED modem BY <2>2 DEF Rings
  <2> QED BY <1>2, <2>1, <2>2 DEF Dispatch
<1>3. CASE AtCommand(p[2]) BY <1>3, CommandRings
<1>4. CASE modem' \in HangUp(modem) BY <1>4, HangUpDoes DEF Rings, Freed
<1>5. CASE UNCHANGED modem BY <1>5 DEF Rings
<1> QED BY <1>1, <1>2, <1>3, <1>4, <1>5

(* SshClient's signals leave the line alone.                               *)
LEMMA SignalDoes ==
    ASSUME modem \in Modem, events \in Seq(Event), SshSignal
    PROVE  modem' \in Modem /\ SameLine(modem', modem)
<1> DEFINE e == Head(events)
<1>1. e \in Event BY DEF SshSignal
<1> HIDE DEF e
<1>2. e.n \in Nat BY <1>1 DEF Event
<1>3. \/ modem' = SshConnected(modem) \/ modem' = SshDisconnected(modem, e.n)
      \/ modem' = SshError(modem, e.n) \/ modem' = SshAuthFailed(modem, e.n)
      \/ modem' = SshAsks(modem, "line", e.n) \/ modem' = SshAsks(modem, "hostkey", e.n)
      \/ modem' = IF modem.sshMode THEN Request([modem EXCEPT !.asker = e.n], "accept") ELSE modem
  BY DEF SshSignal, e
<1> USE ModemIs DEF SameLine, Tell, Over
<1>4. CASE modem' = SshConnected(modem) BY <1>4 DEF SshConnected
<1>5. CASE modem' = SshDisconnected(modem, e.n) BY <1>5 DEF SshDisconnected
<1>6. CASE modem' = SshError(modem, e.n) BY <1>6 DEF SshError
<1>7. CASE modem' = SshAuthFailed(modem, e.n)
  <2> DEFINE o == Over([modem EXCEPT !.ask = "none"], e.n)
             q == Request(o, "end")
  <2>1. o \in Modem /\ SameLine(o, modem) OBVIOUS
  <2> HIDE DEF o
  <2>a. "end" \in Asking /\ "accept" \in Asking BY DEF Asking
  <2>2. q \in Modem /\ SameLine(q, o)
    <3> HIDE DEF SameLine
    <3> QED BY <2>1, <2>a, RequestDoes
  <2>3. modem' = IF ~modem.sshMode THEN modem ELSE Tell(q, "offline") BY <1>7 DEF SshAuthFailed, o
  <2> HIDE DEF q
  <2> QED BY <2>1, <2>2, <2>3
<1>8. CASE modem' = SshAsks(modem, "line", e.n) BY <1>2, <1>8 DEF SshAsks
<1>9. CASE modem' = SshAsks(modem, "hostkey", e.n) BY <1>2, <1>9 DEF SshAsks
<1>10. CASE modem' = IF modem.sshMode THEN Request([modem EXCEPT !.asker = e.n], "accept") ELSE modem
  <2> DEFINE o == [modem EXCEPT !.asker = e.n]
             q == Request(o, "accept")
  <2>1. o \in Modem /\ SameLine(o, modem) BY <1>2
  <2> HIDE DEF o
  <2>a. "end" \in Asking /\ "accept" \in Asking BY DEF Asking
  <2>2. q \in Modem /\ SameLine(q, o)
    <3> HIDE DEF SameLine
    <3> QED BY <2>1, <2>a, RequestDoes
  <2>3. modem' = IF modem.sshMode THEN q ELSE modem BY <1>10 DEF o
  <2> HIDE DEF q
  <2> QED BY <2>1, <2>2, <2>3
<1> QED BY <1>3, <1>4, <1>5, <1>6, <1>7, <1>8, <1>9, <1>10

(* A caller who rings has a timer that will end it, after every step.      *)
LEMMA RingsNext == Rings /\ Queues /\ [Next]_vars => Rings'
<1> SUFFICES ASSUME Rings, Queues, [Next]_vars PROVE Rings' OBVIOUS
<1>0. modem \in Modem /\ autos \in Nat /\ (modem.caller => modem.ring \/ autos > 0) BY DEF Rings
<1>1. CASE Deliver BY <1>1, DeliverRings
<1>2. CASE SshSignal BY <1>0, <1>2, SignalDoes DEF SshSignal, Queues, Rings, SameLine, timers
<1>3. CASE EscapeTriggered BY <1>0, <1>3, ModemIs DEF EscapeTriggered, Rings, Tell
<1>4. CASE SocketConnected
  <2>1. CASE modem' = Tell([modem EXCEPT !.tcp = "up", !.online = TRUE], "online")
    BY <1>0, <1>4, <2>1, ModemIs DEF SocketConnected, Socket, Rings, Tell, timers
  <2>2. CASE modem' = Abort([modem EXCEPT !.tcp = "up"])
    <3> DEFINE u == [modem EXCEPT !.tcp = "up"]
    <3>2. u \in Modem /\ u.caller = modem.caller /\ u.ring = modem.ring BY <1>0, ModemIs
    <3> HIDE DEF u
    <3>3. Abort(u) \in Modem /\ Abort(u).caller = modem.caller /\ Abort(u).ring = modem.ring
      BY <3>2, AbortDoes
    <3> QED BY <1>0, <1>4, <2>2, <3>3 DEF SocketConnected, Socket, Rings, timers, u
  <2> QED BY <1>4, <2>1, <2>2 DEF SocketConnected
<1>5. CASE SocketError BY <1>0, <1>5, ModemIs DEF SocketError, Socket, Rings, timers
<1>6. CASE SocketEnds BY <1>0, <1>6, AbortDoes DEF SocketEnds, Socket, Rings, timers
<1>7. CASE NewConnection
  <2>1. modem' = [modem EXCEPT !.caller = TRUE, !.ring = ~modem.s0 \/ @] BY <1>7 DEF NewConnection
  <2>2. modem' \in Modem /\ (modem'.ring \/ modem.s0) BY <1>0, <2>1, ModemIs
  <2>3. autos' \in Nat /\ (modem.s0 => autos' > 0) BY <1>0, <1>7 DEF NewConnection
  <2> QED BY <2>2, <2>3 DEF Rings
<1>8. CASE CallerGone BY <1>0, <1>8, ModemIs DEF CallerGone, Socket, Rings, Tell, timers
<1>9. CASE RingTimeout BY <1>0, <1>9, ModemIs DEF RingTimeout, Socket, Rings, Tell, timers
<1>10. CASE AutoAnswerTriggered BY <1>0, <1>10, AnswerDoes DEF AutoAnswerTriggered, Rings
<1>11. CASE BackendTakes
  <2>1. Tail(modem.requests) \in Asked BY <1>0, <1>11, ModemIs DEF BackendTakes, Asked
  <2>2. modem' = [modem EXCEPT !.requests = Tail(modem.requests)] BY <1>11 DEF BackendTakes
  <2> QED BY <1>0, <1>11, <2>1, <2>2, ModemIs DEF BackendTakes, Rings, timers
<1>12. CASE BackendLost BY <1>0, <1>12 DEF BackendLost, Rings, timers
<1>13. CASE Types BY <1>0, <1>13 DEF Types, Write, Stream, Escape, DropDtr, Typing, Rings, timers
<1>14. CASE InjectDial BY <1>0, <1>14 DEF InjectDial, User, Rings, timers
<1>15. CASE ResetSession
  <2> DEFINE e == EndSsh(modem)
             s == [e EXCEPT !.ask = "none", !.sshMode = FALSE, !.online = FALSE]
             a == Abort(s)
  <2>1. e \in Modem /\ SameLine(e, modem) BY <1>0, EndDoes
  <2> HIDE DEF e
  <2>2. s \in Modem /\ s.caller = modem.caller /\ s.ring = modem.ring
    BY <2>1, ModemIs DEF SameLine
  <2> HIDE DEF s
  <2>3. a \in Modem /\ a.caller = modem.caller /\ a.ring = modem.ring BY <2>2, AbortDoes
  <2>4. modem' = [a EXCEPT !.told = "offline", !.wanted = "none"] BY <1>15 DEF ResetSession, e, s
  <2> HIDE DEF a
  <2> QED BY <1>0, <1>15, <2>3, <2>4, ModemIs DEF ResetSession, User, Rings, timers
<1>16. CASE Disable
  <2> DEFINE t == [EndSsh(modem) EXCEPT !.sshMode = FALSE]
  <2>1. t \in Modem /\ SameLine(t, modem) BY <1>0, TelnetDoes
  <2>2. \E m \in DisconnectFromHost(t) : modem' = Tell([m EXCEPT !.enabled = FALSE, !.wanted = "none"], "offline")
    BY <1>16 DEF Disable
  <2> HIDE DEF t
  <2>3. PICK m \in DisconnectFromHost(t) : modem' = Tell([m EXCEPT !.enabled = FALSE, !.wanted = "none"], "offline")
    BY <2>2
  <2>4. m \in Modem /\ m.caller = modem.caller /\ m.ring = modem.ring
    BY <2>1, <2>3, DisconnectDoes DEF Hung, SameLine
  <2> QED BY <1>0, <1>16, <2>3, <2>4, ModemIs DEF Disable, User, Rings, Tell, timers
<1>17. CASE Enable BY <1>0, <1>17, ModemIs DEF Enable, Rings, timers
<1>18. CASE UNCHANGED vars BY <1>0, <1>18 DEF vars, Rings, timers
<1> QED
  BY <1>1, <1>2, <1>3, <1>4, <1>5, <1>6, <1>7, <1>8, <1>9, <1>10, <1>11, <1>12, <1>13, <1>14,
     <1>15, <1>16, <1>17, <1>18 DEF Next, Gui

(* The back-end's report of what became of its session.                    *)
LEMMA BecomesTyped ==
    ASSUME NEW at \in {"none", "login", "up"}, NEW stage \in Stage, NEW n \in Nat,
           NEW signals \in Seq(Signals), events \in Seq(Event), Becomes(at, stage, n, signals)
    PROVE  /\ events' \in Seq(Event)
           /\ back' \in [at : {"none", "login", "up"}, stage : Stage, n : Nat]
<1> DEFINE told == [i \in DOMAIN signals |-> [is |-> signals[i], n |-> n]]
<1>1. told \in Seq(Event)
  <2>1. /\ DOMAIN signals = 1 .. Len(signals) /\ Len(signals) \in Nat
        /\ \A i \in 1 .. Len(signals) : signals[i] \in Signals
    OBVIOUS
  <2>2. told \in [1 .. Len(signals) -> Event] BY <2>1 DEF Event
  <2> HIDE DEF told
  <2> QED BY <2>1, <2>2, SeqDef
<1>2. events' = events \o told /\ back' = [at |-> at, stage |-> stage, n |-> n] BY DEF Becomes
<1> HIDE DEF told
<1> QED BY <1>1, <1>2

(* The signals that the back-end sends together.                           *)
LEMMA SignalLists ==
    /\ <<"connected">> \in Seq(Signals) /\ <<"error">> \in Seq(Signals)
    /\ <<"hostKey">> \in Seq(Signals) /\ <<"prompt">> \in Seq(Signals)
    /\ <<"disconnected">> \in Seq(Signals) /\ <<"authFailed">> \in Seq(Signals)
    /\ <<"error", "disconnected">> \in Seq(Signals)
BY DEF Signals

(* What the back-end does keeps the types of its session and its signals.  *)
LEMMA BackendQueues ==
    ASSUME Queues, Rings, BackendTakes \/ BackendLost
    PROVE  /\ events' \in Seq(Event)
           /\ back' \in [at : {"none", "login", "up"}, stage : Stage, n : Nat]
<1>1. /\ events \in Seq(Event) /\ back.at \in {"none", "login", "up"} /\ back.stage \in Stage /\ back.n \in Nat
      /\ back \in [at : {"none", "login", "up"}, stage : Stage, n : Nat]
  BY DEF Queues
<1>2. "none" \in Stage /\ "hostkey" \in Stage /\ "asking" \in Stage BY DEF Stage
<1> USE <1>1, <1>2, SignalLists
<1>3. CASE BackendLost
  <2>1. CASE Becomes("none", back.stage, back.n, <<"disconnected">>) BY <2>1, BecomesTyped
  <2>2. CASE Becomes("none", back.stage, back.n, <<"error", "disconnected">>)
    BY <2>2, BecomesTyped
  <2> QED BY <1>3, <2>1, <2>2 DEF BackendLost
<1>4. CASE BackendTakes
  <2> DEFINE r == Head(modem.requests)
  <2>1. modem.requests \in Asked /\ modem.requests # <<>> BY <1>4, ModemIs DEF BackendTakes, Rings
  <2>2. r \in Ask BY <2>1 DEF Asked
  <2>3. r.n \in Nat BY <2>2 DEF Ask
  <2>4. \/ Connect(r.n) \/ Shell(r.n) \/ Becomes("none", back.stage, back.n, <<"disconnected">>)
        \/ HostKeyDecision(r.do = "accept") \/ AuthAnswer
    BY <1>4 DEF BackendTakes
  <2> HIDE DEF r
  <2>5. CASE Connect(r.n)
    <3>1. CASE Becomes("up", back.stage, r.n, <<"connected">>) BY <2>3, <3>1, BecomesTyped
    <3>2. CASE Becomes("none", back.stage, r.n, <<"error">>) BY <2>3, <3>2, BecomesTyped
    <3> QED BY <2>5, <3>1, <3>2 DEF Connect
  <2>6. CASE Shell(r.n)
    <3>1. CASE Becomes("login", "hostkey", r.n, <<"hostKey">>) BY <2>3, <3>1, BecomesTyped
    <3>2. CASE Becomes("none", "none", r.n, <<"error">>) BY <2>3, <3>2, BecomesTyped
    <3> QED BY <2>6, <3>1, <3>2 DEF Shell
  <2>7. CASE Becomes("none", back.stage, back.n, <<"disconnected">>) BY <2>7, BecomesTyped
  <2>8. CASE HostKeyDecision(r.do = "accept")
    <3>1. CASE UNCHANGED <<back, events>> BY <3>1
    <3>2. CASE Becomes(back.at, "asking", back.n, <<"prompt">>) BY <3>2, BecomesTyped
    <3>3. CASE Becomes("none", back.stage, back.n, <<"disconnected">>) BY <3>3, BecomesTyped
    <3> QED BY <2>8, <3>1, <3>2, <3>3 DEF HostKeyDecision
  <2>9. CASE AuthAnswer
    <3>1. CASE UNCHANGED <<back, events>> BY <3>1
    <3>2. CASE Becomes(back.at, "asking", back.n, <<"prompt">>) BY <3>2, BecomesTyped
    <3>3. CASE Becomes("up", "none", back.n, <<"connected">>) BY <3>3, BecomesTyped
    <3>4. CASE Becomes("none", "none", back.n, <<"error">>) BY <3>4, BecomesTyped
    <3>5. CASE Becomes(back.at, "none", back.n, <<"authFailed">>) BY <3>5, BecomesTyped
    <3> QED BY <2>9, <3>1, <3>2, <3>3, <3>4, <3>5 DEF AuthAnswer
  <2> QED BY <2>4, <2>5, <2>6, <2>7, <2>8, <2>9
<1> QED BY <1>3, <1>4

(* A post that the SIO or the GUI thread queues.                           *)
LEMMA PostsAre ==
    /\ \A c \in Commands : <<"at", c>> \in Post
    /\ \A c \in Words : <<"bytes", c>> \in Post
    /\ <<"hangup", "">> \in Post /\ <<"timer", TRUE>> \in Post /\ <<"timer", FALSE>> \in Post
    /\ Lines \subseteq Words /\ Lines \subseteq Commands /\ "x" \in Words /\ "+++" \in Words
BY CallAssumption DEF Post, Words, CallAssumption

(* Posts that are made together.                                           *)
LEMMA Lists == ASSUME NEW a \in Post, NEW b \in Post
               PROVE  <<a>> \in Seq(Post) /\ <<a, b>> \in Seq(Post)
OBVIOUS

(* What the Atari types adds posts to the queue.                           *)
LEMMA TypesQueue == ASSUME posts \in Seq(Post), Types PROVE posts' \in Seq(Post)
<1>1. CASE Write
  <2>1. PICK c \in Lines : posts' = posts \o <<IF modem.online THEN <<"bytes", c>> ELSE <<"at", c>> >>
    BY <1>1 DEF Write, Typing
  <2>2. (IF modem.online THEN <<"bytes", c>> ELSE <<"at", c>>) \in Post BY PostsAre
  <2> QED BY <2>1, <2>2
<1>2. CASE Stream
  <2>1. PICK c \in Lines \cup {"x"} :
          posts' = posts \o ((IF modem.online THEN <<<<"timer", FALSE>>>> ELSE <<>>) \o <<<<"bytes", c>>>>)
    BY <1>2 DEF Stream, Typing
  <2>a. <<"bytes", c>> \in Post BY PostsAre
  <2>2. <<<<"bytes", c>>>> \in Seq(Post) BY <2>a, Lists, Zenon
  <2>3. (IF modem.online THEN <<<<"timer", FALSE>>>> ELSE <<>>) \in Seq(Post)
    <3>1. <<<<"timer", FALSE>>>> \in Seq(Post) BY PostsAre, Lists, Zenon
    <3>2. <<>> \in Seq(Post) OBVIOUS
    <3> QED BY <3>1, <3>2
  <2> QED BY <2>1, <2>2, <2>3
<1>3. CASE Escape
  <2> DEFINE e == <<<<"timer", TRUE>>, <<"bytes", "+++">>>>
  <2>1. e \in Seq(Post)
    <3>1. <<"timer", TRUE>> \in Post /\ <<"bytes", "+++">> \in Post BY PostsAre
    <3> QED BY <3>1, Lists, Zenon
  <2>2. posts' = posts \o e BY <1>3 DEF Escape, Typing
  <2> HIDE DEF e
  <2> QED BY <2>1, <2>2
<1>4. CASE DropDtr
  <2> DEFINE h == <<<<"hangup", "">>>>
  <2>1. h \in Seq(Post) BY PostsAre, Lists, Zenon
  <2>2. posts' = posts \o h BY <1>4 DEF DropDtr, Typing
  <2> HIDE DEF h
  <2> QED BY <2>1, <2>2
<1> QED BY <1>1, <1>2, <1>3, <1>4 DEF Types

(* What is delivered leaves the queue, and a timer's post says whether it  *)
(* runs.                                                                   *)
LEMMA DeliverQueue == ASSUME posts \in Seq(Post), Deliver
                      PROVE  posts' \in Seq(Post) /\ (armed \in BOOLEAN => armed' \in BOOLEAN)
<1> DEFINE p == Head(posts)
           rest == Tail(posts)
<1>1. p \in Post /\ rest \in Seq(Post) BY DEF Deliver
<1>2. \/ p[1] = "bytes" /\ Dispatch(p[2]) /\ UNCHANGED armed
      \/ p[1] = "at" /\ AtCommand(p[2]) /\ posts' = rest
      \/ p[1] = "hangup" /\ posts' = rest /\ UNCHANGED armed
      \/ p[1] = "timer" /\ armed' = p[2] /\ posts' = rest
  BY DEF Deliver
<1>3. posts' \in Seq(Post)
  <2>1. CASE Dispatch(p[2])
    <3>1. \/ posts' = rest
          \/ p[2] \in Commands /\ posts' = Append(rest, <<"at", p[2]>>)
      <4>1. CASE modem.ask # "none" BY <2>1, <4>1 DEF Dispatch
      <4>2. CASE modem.ask = "none" /\ modem.online BY <2>1, <4>2 DEF Dispatch
      <4>3. CASE modem.ask = "none" /\ ~modem.online BY <2>1, <4>3 DEF Dispatch
      <4> QED BY <4>1, <4>2, <4>3
    <3> HIDE DEF p, rest
    <3>2. CASE p[2] \in Commands /\ posts' = Append(rest, <<"at", p[2]>>)
      <4>1. <<"at", p[2]>> \in Post BY <3>2, PostsAre
      <4> QED BY <1>1, <3>2, <4>1
    <3> QED BY <1>1, <3>1, <3>2
  <2>2. CASE posts' = rest BY <1>1, <2>2
  <2> QED BY <1>2, <2>1, <2>2
<1>4. ASSUME armed \in BOOLEAN PROVE armed' \in BOOLEAN
  <2> HIDE DEF p, rest
  <2>1. CASE p[1] = "timer" /\ armed' = p[2] BY <1>1, <2>1 DEF Post
  <2>2. CASE AtCommand(p[2]) BY <1>4, <2>2 DEF AtCommand
  <2> QED BY <1>2, <1>4, <2>1, <2>2
<1> QED BY <1>3, <1>4

(* The queues hold posts and signals, after every step.                    *)
LEMMA QueuesNext == Queues /\ Rings /\ [Next]_vars => Queues'
<1> SUFFICES ASSUME Queues, Rings, [Next]_vars PROVE Queues' OBVIOUS
<1>0. /\ posts \in Seq(Post) /\ events \in Seq(Event)
      /\ back \in [at : {"none", "login", "up"}, stage : Stage, n : Nat]
  BY DEF Queues
<1>1. CASE Deliver BY <1>0, <1>1, DeliverQueue DEF Deliver, Queues, ssh
<1>2. CASE SshSignal BY <1>0, <1>2 DEF SshSignal, Queues, atari
<1>3. CASE BackendTakes \/ BackendLost
  <2>1. UNCHANGED posts BY <1>3 DEF BackendTakes, BackendLost, atari
  <2> QED BY <1>0, <1>3, <2>1, BackendQueues DEF Queues
<1>4. CASE Types
  <2>1. UNCHANGED <<back, events>> BY <1>4 DEF Types, Write, Stream, Escape, DropDtr, Typing, ssh
  <2> QED BY <1>0, <1>4, <2>1, TypesQueue DEF Queues
<1>5. CASE InjectDial
  <2>1. PICK to \in Dials \cap Lines : posts' = Append(posts, <<"at", to>>) /\ UNCHANGED <<back, events>>
    BY <1>5 DEF InjectDial, User, ssh
  <2>2. <<"at", to>> \in Post BY PostsAre
  <2> QED BY <1>0, <2>1, <2>2 DEF Queues
<1>6. CASE UNCHANGED <<posts, ssh>> BY <1>0, <1>6 DEF Queues, ssh
<1> QED
  BY <1>1, <1>2, <1>3, <1>4, <1>5, <1>6
  DEF Next, Gui, EscapeTriggered, SocketConnected, SocketError, SocketEnds, Socket, NewConnection,
      CallerGone, RingTimeout, AutoAnswerTriggered, ResetSession, Disable, Enable, User, vars, ssh, atari

(* What a step notes is one of the races, and no race is forgotten.        *)
LEMMA NextNotes == [Next]_vars /\ upset \subseteq Races => upset' \subseteq Races /\ upset \subseteq upset'
<1> SUFFICES ASSUME [Next]_vars, upset \subseteq Races PROVE upset' \subseteq Races /\ upset \subseteq upset'
  OBVIOUS
<1> USE DEF Races, Note, If, NoteHangUp, NoteDial, NoteAnswer
<1>1. CASE Deliver
  <2>1. \/ UNCHANGED upset \/ NoteHangUp(FALSE) \/ \E c : AtCommand(c) BY <1>1 DEF Deliver
  <2>2. ASSUME NEW c, AtCommand(c) PROVE upset' \subseteq Races /\ upset \subseteq upset'
    <3>1. \/ UNCHANGED upset \/ NoteHangUp(FALSE) \/ NoteHangUp(TRUE) \/ NoteAnswer \/ NoteDial(c)
      BY <2>2 DEF AtCommand, Dial
    <3> QED BY <3>1
  <2> QED BY <2>1, <2>2
<1>2. CASE AutoAnswerTriggered BY <1>2 DEF AutoAnswerTriggered
<1>3. CASE NewConnection BY <1>3 DEF NewConnection
<1>4. CASE ResetSession BY <1>4 DEF ResetSession
<1>5. CASE Disable BY <1>5 DEF Disable
<1>6. CASE UNCHANGED upset BY <1>6
<1> QED
  BY <1>1, <1>2, <1>3, <1>4, <1>5, <1>6
  DEF Next, Gui, SshSignal, BackendTakes, BackendLost, Types, Write, Stream, Escape, DropDtr, Typing,
      InjectDial, EscapeTriggered, SocketConnected, SocketError, SocketEnds, Socket,
      CallerGone, RingTimeout, Enable, User, vars

(* The flags are flags, and a timer runs for no more callers than there    *)
(* were.                                                                   *)
LEMMA FlagsNext == Flags /\ Queues /\ [Next]_vars => Flags'
<1> SUFFICES ASSUME Flags, Queues, [Next]_vars PROVE Flags' OBVIOUS
<1>0. /\ plus \in BOOLEAN /\ armed \in BOOLEAN /\ autos \in Nat /\ callers \in Nat /\ autos <= callers
      /\ posts \in Seq(Post)
  BY DEF Flags, Queues
<1>1. upset' \subseteq Races BY NextNotes DEF Flags
<1>2. plus' \in BOOLEAN /\ armed' \in BOOLEAN
  <2>1. CASE Deliver BY <1>0, <2>1, DeliverQueue DEF Deliver
  <2>2. CASE EscapeTriggered BY <2>2 DEF EscapeTriggered
  <2>3. CASE Types BY <1>0, <2>3 DEF Types, Write, Stream, Escape, DropDtr, Typing, timers
  <2>4. CASE UNCHANGED <<plus, armed>> BY <1>0, <2>4
  <2> QED
    BY <2>1, <2>2, <2>3, <2>4
    DEF Next, Gui, SshSignal, BackendTakes, BackendLost, AutoAnswerTriggered, NewConnection,
        ResetSession, Disable, InjectDial, SocketConnected, SocketError, SocketEnds, Socket,
        CallerGone, RingTimeout, Enable, User, vars, timers, atari
<1>3. autos' \in Nat /\ callers' \in Nat /\ autos' <= callers'
  <2>1. CASE AutoAnswerTriggered BY <1>0, <2>1 DEF AutoAnswerTriggered
  <2>2. CASE NewConnection BY <1>0, <2>2 DEF NewConnection
  <2>3. CASE UNCHANGED <<autos, callers>> BY <1>0, <2>3
  <2> QED
    BY <2>1, <2>2, <2>3
    DEF Next, Gui, Deliver, SshSignal, BackendTakes, BackendLost, Types, Write, Stream, Escape, DropDtr,
        Typing, EscapeTriggered, ResetSession, Disable, InjectDial, SocketConnected, SocketError,
        SocketEnds, Socket, CallerGone, RingTimeout, Enable, User, vars, timers
<1> QED BY <1>1, <1>2, <1>3 DEF Flags

(* Types, for any number of calls, callers and requests.                   *)
Typed == Rings /\ Queues /\ Flags

(* Types in every reachable state, for any number of calls, callers and    *)
(* requests: those of the state (Modem), of the three queues, and a ring   *)
(* timer or S0's for every caller.                                         *)
THEOREM CallTyped == Spec => []Typed
<1>1. Init => Typed
  <2>1. Init => Rings
    <3>1. <<>> \in Asked BY DEF Asked
    <3> QED BY <3>1, ModemIs DEF Init, Rings
  <2>2. Init => Queues BY DEF Init, Queues, Stage
  <2>3. Init => Flags
    <3>1. Init => plus \in BOOLEAN /\ armed \in BOOLEAN BY DEF Init
    <3>2. Init => upset \subseteq Races /\ autos = 0 /\ callers = 0 BY DEF Init
    <3> QED BY <3>1, <3>2 DEF Flags
  <2> QED BY <2>1, <2>2, <2>3 DEF Typed
<1>2. Typed /\ [Next]_vars => Typed' BY RingsNext, QueuesNext, FlagsNext DEF Typed
<1> QED BY <1>1, <1>2, PTL DEF Spec

(* ModemCall's TypeOK, so also that a caller never rings without a timer   *)
(* that ends it (startRing, onNewConnection), however many callers there   *)
(* are.                                                                    *)
THEOREM TypeCorrect == Spec => []TypeOK
<1>1. Typed => TypeOK BY DEF Typed, Rings, Flags, TypeOK
<1> QED BY <1>1, CallTyped, PTL

-----------------------------------------------------------------------------
(* One line. A login is among the requests.                                *)
Logins(q) == \E i \in DOMAIN q : q[i].do \in {"connect", "shell"}

(* A request that is not for a login adds none.                            *)
LEMMA LoginsAppended ==
    ASSUME NEW q \in Asked, NEW r \in Ask, r.do \notin {"connect", "shell"}
    PROVE  Logins(Append(q, r)) <=> Logins(q)
<1>1. q \in Seq(Ask) BY DEF Asked
<1>2. /\ DOMAIN q = 1 .. Len(q) /\ DOMAIN Append(q, r) = 1 .. Len(q) + 1 /\ Len(q) \in Nat
      /\ \A i \in 1 .. Len(q) : Append(q, r)[i] = q[i]
      /\ Append(q, r)[Len(q) + 1] = r
  BY <1>1
<1> QED BY <1>2 DEF Logins

(* Taking a request adds no login.                                         *)
LEMMA LoginsTaken ==
    ASSUME NEW q \in Asked, q # <<>>
    PROVE  /\ Logins(Tail(q)) => Logins(q)
           /\ Head(q).do \in {"connect", "shell"} => Logins(q)
<1>1. q \in Seq(Ask) BY DEF Asked
<1>2. /\ DOMAIN q = 1 .. Len(q) /\ DOMAIN Tail(q) = 1 .. Len(q) - 1 /\ Len(q) \in Nat /\ Len(q) # 0
      /\ \A i \in 1 .. Len(q) - 1 : Tail(q)[i] = q[i + 1]
      /\ Head(q) = q[1]
  BY <1>1
<1> QED BY <1>2 DEF Logins

(* Nor do the modem's other requests.                                      *)
LEMMA RequestLogins ==
    ASSUME NEW m \in Modem, NEW what \in Asking \ {"connect", "shell"}
    PROVE  Logins(Request(m, what).requests) <=> Logins(m.requests)
<1> DEFINE r == [do |-> what, n |-> m.asker]
<1>1. m.requests \in Asked /\ r \in Ask /\ r.do \notin {"connect", "shell"} BY ModemIs DEF Ask
<1>2. Request(m, what).requests = Append(m.requests, r) BY RequestDoes
<1> HIDE DEF r
<1> QED BY <1>1, <1>2, LoginsAppended

(* Nor does asking for the end of a session.                               *)
LEMMA EndLogins ==
    ASSUME NEW m \in Modem
    PROVE  Logins(EndSsh(m).requests) <=> Logins(m.requests)
<1>1. "end" \in Asking \ {"connect", "shell"} BY DEF Asking
<1> QED BY <1>1, RequestLogins DEF EndSsh

(* Nor do the answers to a login's questions.                              *)
LEMMA PromptLogins ==
    ASSUME modem \in Modem, PromptBytes
    PROVE  Logins(modem'.requests) <=> Logins(modem.requests)
<1> DEFINE done == [modem EXCEPT !.ask = "none"]
           both == Request(done, "accept")
<1>1. done \in Modem /\ done.requests = modem.requests BY ModemIs
<1>2. {"accept", "reject", "answer"} \subseteq Asking \ {"connect", "shell"} BY DEF Asking
<1>3. \/ modem' = modem
      \/ \E what \in {"accept", "reject", "answer"} : modem' = Request(done, what)
      \/ modem' = Request(both, "answer")
  BY DEF PromptBytes
<1> HIDE DEF done
<1>4. both \in Modem /\ (Logins(both.requests) <=> Logins(done.requests))
  BY <1>1, <1>2, RequestDoes, RequestLogins
<1> HIDE DEF both
<1>5. CASE \E what \in {"accept", "reject", "answer"} : modem' = Request(done, what)
  BY <1>1, <1>2, <1>5, RequestLogins
<1>6. CASE modem' = Request(both, "answer") BY <1>1, <1>2, <1>4, <1>6, RequestLogins
<1> QED BY <1>3, <1>5, <1>6

(* What is on the line: a telnet call, and an SSH call or its login.       *)
Telnet(m) == m.tcp \in {"dialing", "up"}
SshLine   == back.at # "none" \/ Logins(modem.requests)

Exclusive ==
    upset \cap {"hasty", "ringing"} = {} =>
        /\ Telnet(modem) \/ modem.caller => ~SshLine
        /\ modem.caller => ~Telnet(modem)

(* A step that puts nothing on the line.                                   *)
LEMMA NothingNew ==
    ASSUME Exclusive, upset \subseteq upset',
           Telnet(modem') => Telnet(modem), modem'.caller => modem.caller, SshLine' => SshLine
    PROVE  Exclusive'
BY DEF Exclusive

(* A call that ends asks for no login.                                     *)
LEMMA FreedLine ==
    ASSUME NEW m \in Modem, NEW r, Freed(r, m)
    PROVE  Logins(r.requests) => Logins(m.requests)
BY EndLogins DEF Freed

(* Nothing of an SSH call is under way.                                    *)
LEMMA NoSsh == ASSUME modem \in Modem, ~SshUnfinished
               PROVE  ~SshLine /\ ~modem.known /\ back.at = "none" /\ modem.requests = <<>>
<1>1. modem.requests = <<>> /\ back.at = "none" /\ ~modem.known BY DEF SshUnfinished
<1>2. ~Logins(<<>>) BY DEF Logins
<1> QED BY <1>1, <1>2 DEF SshLine

(* A dial takes the line: what was on it is aborted, or was noted as a     *)
(* race.                                                                   *)
LEMMA DialExclusive ==
    ASSUME Exclusive, modem \in Modem, NEW to \in Dials, Dial(to), UNCHANGED back
    PROVE  Exclusive'
<1> SUFFICES ASSUME upset' \cap {"hasty", "ringing"} = {}
             PROVE  (Telnet(modem') => ~SshLine') /\ ~modem'.caller
  BY DEF Exclusive
<1>1. ~modem.caller /\ (to = "tcp" => ~SshUnfinished) BY DEF Dial, NoteDial, Note, If
<1>2. CASE to = "tcp"
  <2>1. modem' = StartCall(modem, "tcp") BY <1>2 DEF Dial
  <2>2. modem'.caller = modem.caller /\ modem'.requests = EndSsh(modem).requests
    BY <2>1, TelnetCallDoes
  <2>3. ~SshLine /\ EndSsh(modem) = modem BY <1>1, <1>2, NoSsh DEF EndSsh
  <2> QED BY <1>1, <2>2, <2>3 DEF SshLine
<1>3. CASE to \in {"ssh", "shell"}
  <2>1. modem' = StartCall(modem, to) BY DEF Dial
  <2>2. SshDialled(modem', modem, to) BY <1>3, <2>1, SshCallDoes
  <2>3. modem'.caller = modem.caller /\ modem'.tcp = "idle" BY <2>2 DEF SshDialled
  <2> QED BY <1>1, <2>3 DEF Telnet
<1> QED BY <1>2, <1>3 DEF Dials

(* A caller is let in or answered.                                         *)
LEMMA AnswerExclusive ==
    ASSUME Exclusive, modem \in Modem, NoteAnswer, UNCHANGED back,
           modem' = modem \/ (modem.caller /\ modem'.requests = modem.requests /\ ~modem'.caller)
    PROVE  Exclusive'
<1> SUFFICES ASSUME upset' \cap {"hasty", "ringing"} = {}
             PROVE  (Telnet(modem') \/ modem'.caller => ~SshLine') /\ (modem'.caller => ~Telnet(modem'))
  BY DEF Exclusive
<1>1. CASE modem' = modem
  <2>1. upset \cap {"hasty", "ringing"} = {} BY DEF NoteAnswer, Note
  <2> QED BY <1>1, <2>1 DEF Exclusive, SshLine
<1>2. CASE modem.caller /\ modem'.requests = modem.requests /\ ~modem'.caller
  <2>1. ~SshUnfinished BY <1>2 DEF NoteAnswer, Note, If
  <2> QED BY <1>2, <2>1, NoSsh DEF SshLine
<1> QED BY <1>1, <1>2

(* One line after every AT command,                                        *)
LEMMA CommandExclusive ==
    ASSUME Exclusive, modem \in Modem, upset \subseteq upset', NEW c, AtCommand(c), UNCHANGED back
    PROVE  Exclusive'
<1>1. CASE c \in Dials /\ Dial(c) BY <1>1, DialExclusive
<1>2. CASE NoteAnswer /\ modem' = (IF modem.caller THEN [Answer(modem) EXCEPT !.ring = FALSE] ELSE modem)
  <2> DEFINE a == Answer(modem)
  <2>1. a \in Modem /\ ~a.caller /\ a.requests = modem.requests BY AnswerDoes
  <2>2. modem' = IF modem.caller THEN [a EXCEPT !.ring = FALSE] ELSE modem BY <1>2
  <2> HIDE DEF a
  <2>3. modem.caller => modem'.requests = modem.requests /\ ~modem'.caller BY <2>1, <2>2, ModemIs
  <2> QED BY <1>2, <2>2, <2>3, AnswerExclusive
<1>3. CASE modem' = GoOnline(modem)
  <2>1. SameLine(modem', modem) /\ modem'.requests = modem.requests
    BY <1>3, ModemIs DEF GoOnline, Tell, SameLine
  <2> QED BY <2>1, NothingNew DEF SameLine, Telnet, SshLine
<1>4. CASE modem' \in HangUp(modem)
  <2>1. /\ Freed(modem', modem) /\ ~modem'.caller
        /\ modem.tcp = "up" => modem'.tcp \in {"closing", "idle"}
        /\ modem.tcp # "up" => modem'.tcp = modem.tcp
    BY <1>4, HangUpDoes
  <2>2. SshLine' => SshLine BY <2>1, FreedLine DEF SshLine
  <2> QED BY <2>1, <2>2, NothingNew DEF Telnet
<1>5. CASE modem' = Reset(modem)
  <2>1. Freed(modem', modem) /\ ~modem'.caller /\ modem'.tcp = "idle" BY <1>5, ResetDoes
  <2>2. SshLine' => SshLine BY <2>1, FreedLine DEF SshLine
  <2> QED BY <2>1, <2>2, NothingNew DEF Telnet
<1>6. CASE modem' = [modem EXCEPT !.s0 = (c = "S0=1")]
  <2>1. SameLine(modem', modem) /\ modem'.requests = modem.requests BY <1>6, ModemIs DEF SameLine
  <2> QED BY <2>1, NothingNew DEF SameLine, Telnet, SshLine
<1> QED BY <1>1, <1>2, <1>3, <1>4, <1>5, <1>6 DEF AtCommand

(* after everything posted to the GUI thread,                              *)
LEMMA DeliverExclusive ==
    ASSUME Exclusive, modem \in Modem, upset \subseteq upset', Deliver
    PROVE  Exclusive'
<1>1. PICK p : \/ p[1] = "bytes" /\ Dispatch(p[2])
               \/ p[1] = "at" /\ AtCommand(p[2])
               \/ p[1] = "hangup" /\ modem' \in HangUp(modem)
               \/ p[1] = "timer" /\ UNCHANGED modem
  BY DEF Deliver
<1>a. UNCHANGED back BY DEF Deliver, ssh
<1>2. CASE Dispatch(p[2])
  <2>1. CASE PromptBytes
    <3>1. SshLine' <=> SshLine BY <1>a, <2>1, PromptLogins DEF SshLine
    <3> QED BY <2>1, <3>1, PromptDoes, NothingNew DEF SameLine, Telnet
  <2>2. CASE UNCHANGED modem BY <1>a, <2>2, NothingNew DEF SshLine
  <2> QED BY <1>2, <2>1, <2>2 DEF Dispatch
<1>3. CASE AtCommand(p[2]) BY <1>a, <1>3, CommandExclusive
<1>4. CASE modem' \in HangUp(modem)
  <2>1. /\ Freed(modem', modem) /\ ~modem'.caller
        /\ modem.tcp = "up" => modem'.tcp \in {"closing", "idle"}
        /\ modem.tcp # "up" => modem'.tcp = modem.tcp
    BY <1>4, HangUpDoes
  <2>2. SshLine' => SshLine BY <1>a, <2>1, FreedLine DEF SshLine
  <2> QED BY <2>1, <2>2, NothingNew DEF Telnet
<1>5. CASE UNCHANGED modem BY <1>a, <1>5, NothingNew DEF SshLine
<1> QED BY <1>1, <1>2, <1>3, <1>4, <1>5

(* after every signal of the back-end,                                     *)
LEMMA SignalExclusive ==
    ASSUME Exclusive, modem \in Modem, events \in Seq(Event), upset \subseteq upset', SshSignal
    PROVE  Exclusive'
<1> DEFINE e == Head(events)
<1>1. e \in Event BY DEF SshSignal
<1> HIDE DEF e
<1>2. e.n \in Nat BY <1>1 DEF Event
<1>3. \/ modem' = SshConnected(modem) \/ modem' = SshDisconnected(modem, e.n)
      \/ modem' = SshError(modem, e.n) \/ modem' = SshAuthFailed(modem, e.n)
      \/ modem' = SshAsks(modem, "line", e.n) \/ modem' = SshAsks(modem, "hostkey", e.n)
      \/ modem' = IF modem.sshMode THEN Request([modem EXCEPT !.asker = e.n], "accept") ELSE modem
  BY DEF SshSignal, e
<1>a. "end" \in Asking \ {"connect", "shell"} /\ "accept" \in Asking \ {"connect", "shell"}
  BY DEF Asking
<1>4. Logins(modem'.requests) => Logins(modem.requests)
  <2>1. CASE modem' = SshAuthFailed(modem, e.n)
    <3> DEFINE o == Over([modem EXCEPT !.ask = "none"], e.n)
               q == Request(o, "end")
    <3>1. o \in Modem /\ o.requests = modem.requests BY ModemIs DEF Over
    <3> HIDE DEF o
    <3>2. q \in Modem /\ (Logins(q.requests) <=> Logins(o.requests))
      BY <1>a, <3>1, RequestDoes, RequestLogins
    <3>3. modem' = IF ~modem.sshMode THEN modem ELSE Tell(q, "offline")
      BY <2>1 DEF SshAuthFailed, o
    <3> HIDE DEF q
    <3>4. Tell(q, "offline").requests = q.requests BY <3>2, ModemIs DEF Tell
    <3> QED BY <3>1, <3>2, <3>3, <3>4
  <2>2. CASE modem' = IF modem.sshMode THEN Request([modem EXCEPT !.asker = e.n], "accept") ELSE modem
    <3> DEFINE o == [modem EXCEPT !.asker = e.n]
    <3>1. o \in Modem /\ o.requests = modem.requests BY <1>2, ModemIs
    <3> HIDE DEF o
    <3>2. Logins(Request(o, "accept").requests) <=> Logins(o.requests)
      BY <1>a, <3>1, RequestLogins
    <3> QED BY <2>2, <3>1, <3>2 DEF o
  <2>3. CASE modem' = SshConnected(modem) BY <2>3, ModemIs DEF SshConnected, Tell
  <2>4. CASE modem' = SshDisconnected(modem, e.n) BY <2>4, ModemIs DEF SshDisconnected, Tell, Over
  <2>5. CASE modem' = SshError(modem, e.n) BY <2>5, ModemIs DEF SshError, Tell, Over
  <2>6. CASE modem' = SshAsks(modem, "line", e.n) BY <2>6, ModemIs DEF SshAsks
  <2>7. CASE modem' = SshAsks(modem, "hostkey", e.n) BY <2>7, ModemIs DEF SshAsks
  <2> QED BY <1>3, <2>1, <2>2, <2>3, <2>4, <2>5, <2>6, <2>7
<1>5. SameLine(modem', modem) BY SignalDoes
<1>6. UNCHANGED back BY DEF SshSignal
<1> QED BY <1>4, <1>5, <1>6, NothingNew DEF SameLine, Telnet, SshLine

(* after every request that it takes,                                      *)
LEMMA BackendExclusive ==
    ASSUME Exclusive, Rings, upset \subseteq upset', BackendTakes
    PROVE  Exclusive'
<1> DEFINE q == modem.requests
           r == Head(q)
<1>1. q \in Asked /\ q # <<>> /\ modem' = [modem EXCEPT !.requests = Tail(q)]
  BY ModemIs DEF BackendTakes, Rings
<1>2. modem'.requests = Tail(q) /\ modem'.tcp = modem.tcp /\ modem'.caller = modem.caller
  BY <1>1, ModemIs DEF Rings
<1>3. \/ r.do \in {"connect", "shell"}
      \/ Becomes("none", back.stage, back.n, <<"disconnected">>)
      \/ HostKeyDecision(r.do = "accept") \/ AuthAnswer
  BY DEF BackendTakes
<1>4. SshLine' => SshLine
  <2>1. CASE r.do \in {"connect", "shell"} BY <1>1, <2>1, LoginsTaken DEF SshLine
  <2>2. CASE Becomes("none", back.stage, back.n, <<"disconnected">>)
    <3>1. back'.at = "none" BY <2>2 DEF Becomes
    <3> QED BY <1>1, <1>2, <3>1, LoginsTaken DEF SshLine
  <2>3. CASE back.at # "none" BY <2>3 DEF SshLine
  <2>4. CASE back.at = "none" /\ UNCHANGED back BY <1>1, <1>2, <2>4, LoginsTaken DEF SshLine
  <2> QED BY <1>3, <2>1, <2>2, <2>3, <2>4 DEF HostKeyDecision, AuthAnswer
<1> QED BY <1>2, <1>4, NothingNew DEF Telnet

(* and so after every step.                                                *)
LEMMA ExclusiveNext == Exclusive /\ Typed /\ [Next]_vars => Exclusive'
<1> SUFFICES ASSUME Exclusive, Typed, [Next]_vars PROVE Exclusive' OBVIOUS
<1>0. modem \in Modem /\ Rings /\ events \in Seq(Event) /\ upset \subseteq upset'
  BY NextNotes DEF Typed, Rings, Queues, Flags
<1>1. CASE Deliver BY <1>0, <1>1, DeliverExclusive
<1>2. CASE SshSignal BY <1>0, <1>2, SignalExclusive
<1>3. CASE EscapeTriggered
  <2>1. SameLine(modem', modem) /\ modem'.requests = modem.requests /\ UNCHANGED back
    BY <1>0, <1>3, ModemIs DEF EscapeTriggered, Tell, SameLine, ssh
  <2> QED BY <1>0, <2>1, NothingNew DEF SameLine, Telnet, SshLine
<1>4. CASE SocketConnected
  <2>1. /\ modem'.caller = modem.caller /\ modem'.requests = modem.requests
        /\ Telnet(modem') => Telnet(modem)
    <3>1. CASE modem.tcp = "dialing" /\ modem' = Tell([modem EXCEPT !.tcp = "up", !.online = TRUE], "online")
      BY <1>0, <3>1, ModemIs DEF Tell, Telnet
    <3>2. CASE modem' = Abort([modem EXCEPT !.tcp = "up"])
      <4> DEFINE u == [modem EXCEPT !.tcp = "up"]
      <4>1. u \in Modem /\ u.caller = modem.caller /\ u.requests = modem.requests BY <1>0, ModemIs
      <4> HIDE DEF u
      <4>2. Abort(u).tcp = "idle" /\ Abort(u).caller = u.caller /\ Abort(u).requests = u.requests
        BY <4>1, AbortDoes
      <4> QED BY <3>2, <4>1, <4>2 DEF u, Telnet
    <3> QED BY <1>4, <3>1, <3>2 DEF SocketConnected
  <2>2. UNCHANGED back BY <1>4 DEF SocketConnected, Socket, ssh
  <2> QED BY <1>0, <2>1, <2>2, NothingNew DEF SshLine
<1>5. CASE SocketError
  <2>1. modem'.tcp = "idle" /\ modem'.caller = modem.caller /\ modem'.requests = modem.requests /\ UNCHANGED back
    BY <1>0, <1>5, ModemIs DEF SocketError, Socket, ssh
  <2> QED BY <1>0, <2>1, NothingNew DEF Telnet, SshLine
<1>6. CASE SocketEnds
  <2>1. modem'.tcp = "idle" /\ modem'.caller = modem.caller /\ modem'.requests = modem.requests /\ UNCHANGED back
    BY <1>0, <1>6, AbortDoes DEF SocketEnds, Socket, ssh
  <2> QED BY <1>0, <2>1, NothingNew DEF Telnet, SshLine
<1>7. CASE NewConnection
  <2>1. modem' = [modem EXCEPT !.caller = TRUE, !.ring = ~modem.s0 \/ @] /\ modem.tcp = "idle" /\ UNCHANGED back
    BY <1>7 DEF NewConnection, Busy, ssh
  <2>2. modem'.tcp = "idle" /\ modem'.requests = modem.requests BY <1>0, <2>1, ModemIs
  <2>3. "ringing" \notin upset' => ~SshUnfinished BY <1>7 DEF NewConnection, Note, If
  <2> QED BY <1>0, <2>1, <2>2, <2>3, NoSsh DEF Exclusive, Telnet, SshLine
<1>8. CASE CallerGone
  <2>1. modem'.tcp = modem.tcp /\ ~modem'.caller /\ modem'.requests = modem.requests /\ UNCHANGED back
    BY <1>0, <1>8, ModemIs DEF CallerGone, Socket, Tell, ssh
  <2> QED BY <1>0, <2>1, NothingNew DEF Telnet, SshLine
<1>9. CASE RingTimeout
  <2>1. modem'.tcp = modem.tcp /\ ~modem'.caller /\ modem'.requests = modem.requests /\ UNCHANGED back
    BY <1>0, <1>9, ModemIs DEF RingTimeout, Socket, Tell, ssh
  <2> QED BY <1>0, <2>1, NothingNew DEF Telnet, SshLine
<1>10. CASE AutoAnswerTriggered
  <2>1. modem' = (IF modem.caller THEN Answer(modem) ELSE modem) /\ NoteAnswer /\ UNCHANGED back
    BY <1>10 DEF AutoAnswerTriggered, ssh
  <2>2. Answer(modem).requests = modem.requests /\ ~Answer(modem).caller BY <1>0, AnswerDoes
  <2> QED BY <1>0, <2>1, <2>2, AnswerExclusive
<1>11. CASE BackendTakes BY <1>0, <1>11, BackendExclusive
<1>12. CASE BackendLost
  <2>1. UNCHANGED modem /\ SshLine BY <1>12 DEF BackendLost, SshLine
  <2> QED BY <1>0, <2>1, NothingNew
<1>13. CASE Types
  <2>1. UNCHANGED <<modem, back>> BY <1>13 DEF Types, Write, Stream, Escape, DropDtr, Typing, ssh
  <2> QED BY <1>0, <2>1, NothingNew DEF SshLine
<1>14. CASE InjectDial
  <2>1. UNCHANGED <<modem, back>> BY <1>14 DEF InjectDial, User, ssh
  <2> QED BY <1>0, <2>1, NothingNew DEF SshLine
<1>15. CASE ResetSession
  <2> DEFINE e == EndSsh(modem)
             s == [e EXCEPT !.ask = "none", !.sshMode = FALSE, !.online = FALSE]
             a == Abort(s)
  <2>1. e \in Modem /\ e.caller = modem.caller /\ (Logins(e.requests) <=> Logins(modem.requests))
    BY <1>0, EndDoes, EndLogins DEF SameLine
  <2> HIDE DEF e
  <2>2. s \in Modem /\ s.caller = e.caller /\ s.requests = e.requests BY <2>1, ModemIs
  <2> HIDE DEF s
  <2>3. a \in Modem /\ a.tcp = "idle" /\ a.caller = s.caller /\ a.requests = s.requests
    BY <2>2, AbortDoes
  <2>4. modem' = [a EXCEPT !.told = "offline", !.wanted = "none"] /\ UNCHANGED back
    BY <1>15 DEF ResetSession, User, ssh, e, s
  <2> HIDE DEF a
  <2>5. modem'.tcp = a.tcp /\ modem'.caller = a.caller /\ modem'.requests = a.requests
    BY <2>3, <2>4, ModemIs
  <2> QED BY <1>0, <2>1, <2>2, <2>3, <2>4, <2>5, NothingNew DEF Telnet, SshLine
<1>16. CASE Disable
  <2> DEFINE t == [EndSsh(modem) EXCEPT !.sshMode = FALSE]
  <2>1. t \in Modem /\ SameLine(t, modem) /\ (Logins(t.requests) <=> Logins(modem.requests))
    BY <1>0, TelnetDoes, EndLogins
  <2>2. \E m \in DisconnectFromHost(t) : modem' = Tell([m EXCEPT !.enabled = FALSE, !.wanted = "none"], "offline")
    BY <1>16 DEF Disable
  <2> HIDE DEF t
  <2>3. PICK m \in DisconnectFromHost(t) : modem' = Tell([m EXCEPT !.enabled = FALSE, !.wanted = "none"], "offline")
    BY <2>2
  <2>4. Hung(m, t) BY <2>1, <2>3, DisconnectDoes
  <2>5. /\ m \in Modem /\ m.caller = modem.caller /\ (Telnet(m) => Telnet(modem))
        /\ Logins(m.requests) <=> Logins(modem.requests)
    BY <2>1, <2>4 DEF Hung, SameLine, Telnet
  <2>6. modem'.tcp = m.tcp /\ modem'.caller = m.caller /\ modem'.requests = m.requests
    BY <2>3, <2>5, ModemIs DEF Tell
  <2>7. UNCHANGED back BY <1>16 DEF Disable, User, ssh
  <2> QED BY <1>0, <2>5, <2>6, <2>7, NothingNew DEF Telnet, SshLine
<1>17. CASE Enable
  <2>1. SameLine(modem', modem) /\ modem'.requests = modem.requests /\ UNCHANGED back
    BY <1>0, <1>17, ModemIs DEF Enable, SameLine, ssh
  <2> QED BY <1>0, <2>1, NothingNew DEF SameLine, Telnet, SshLine
<1>18. CASE UNCHANGED vars BY <1>0, <1>18, NothingNew DEF vars, ssh, SshLine
<1> QED
  BY <1>1, <1>2, <1>3, <1>4, <1>5, <1>6, <1>7, <1>8, <1>9, <1>10, <1>11, <1>12, <1>13, <1>14,
     <1>15, <1>16, <1>17, <1>18 DEF Next, Gui

(* Of three conditions that exclude each other at most one holds.          *)
LEMMA AtMostOne ==
    ASSUME NEW A \in BOOLEAN, NEW B \in BOOLEAN, NEW C \in BOOLEAN, ~(A /\ B), ~(A /\ C), ~(B /\ C)
    PROVE  Cardinality({p \in {<<"telnet", A>>, <<"ssh", B>>, <<"caller", C>>} : p[2]}) <= 1
<1> DEFINE set == {p \in {<<"telnet", A>>, <<"ssh", B>>, <<"caller", C>>} : p[2]}
<1>1. ASSUME NEW x, set \subseteq {x} PROVE Cardinality(set) <= 1
  <2>1. IsFiniteSet({x}) /\ Cardinality({x}) = 1 BY FS_Singleton
  <2> HIDE DEF set
  <2> QED BY <1>1, <2>1, FS_Subset
<1>2. CASE A
  <2>1. ~B /\ ~C BY <1>2
  <2>2. set \subseteq {<<"telnet", A>>} BY <2>1
  <2> QED BY <1>1, <2>2
<1>3. CASE B
  <2>1. ~A /\ ~C BY <1>3
  <2>2. set \subseteq {<<"ssh", B>>} BY <2>1
  <2> QED BY <1>1, <2>2
<1>4. CASE ~A /\ ~B
  <2>1. ~A /\ ~B BY <1>4
  <2>2. set \subseteq {<<"caller", C>>} BY <2>1
  <2> QED BY <1>1, <2>2
<1> QED BY <1>2, <1>3, <1>4

(* The line is one (OneLine: onNewConnection's busy check, startCall's     *)
(* aborts): a telnet call, an SSH call and a ringing caller exclude each   *)
(* other, for any number of calls, except after the races OneLine names.   *)
THEOREM OneCall == Spec => []OneLine
<1>1. Init => Exclusive BY DEF Init, Exclusive, Telnet
<1>2. Exclusive /\ Typed /\ [Next]_vars => Exclusive' BY ExclusiveNext
<1>3. Exclusive /\ Typed => OneLine
  <2> SUFFICES ASSUME Exclusive, Typed, upset \cap {"hasty", "ringing"} = {}
               PROVE  Cardinality({p \in {<<"telnet", modem.tcp \in {"dialing", "up"}>>,
                                          <<"ssh", LiveSsh>>, <<"caller", modem.caller>>} : p[2]}) <= 1
    BY DEF OneLine
  <2>1. LiveSsh => SshLine
    <3>1. modem.requests \in Seq(Ask) BY ModemIs DEF Typed, Rings, Asked
    <3>2. ASSUME modem.requests # <<>>, Last(modem.requests).do \in {"connect", "shell"} PROVE Logins(modem.requests)
      <4>1. /\ Len(modem.requests) \in DOMAIN modem.requests
            /\ Last(modem.requests) = modem.requests[Len(modem.requests)]
        BY <3>1, <3>2 DEF Last
      <4> QED BY <3>2, <4>1 DEF Logins
    <3> QED BY <3>2 DEF LiveSsh, SshLine
  <2>2. /\ ~(modem.tcp \in {"dialing", "up"} /\ LiveSsh)
        /\ ~(modem.tcp \in {"dialing", "up"} /\ modem.caller)
        /\ ~(LiveSsh /\ modem.caller)
    BY <2>1 DEF Exclusive, Telnet
  <2>3. /\ (modem.tcp \in {"dialing", "up"}) \in BOOLEAN /\ LiveSsh \in BOOLEAN /\ modem.caller \in BOOLEAN
    BY ModemIs DEF LiveSsh, Typed, Rings
  <2> HIDE DEF LiveSsh
  <2> QED BY <2>2, <2>3, AtMostOne
<1> QED BY <1>1, <1>2, <1>3, CallTyped, PTL DEF Spec

-----------------------------------------------------------------------------
(* What the Atari was told. First, what the two queues between the GUI     *)
(* thread and the back-end hold, and how they change at their ends.        *)
Decisions == {"accept", "reject"}
Overs     == {"disconnected", "error", "authFailed"}

Decided(q) == \E i \in DOMAIN q : q[i].do \in Decisions
Ended(q)   == \E i \in DOMAIN q : q[i].do = "end"
Made(q, D) == \A i \in DOMAIN q : q[i].do \in D
DecidedOnce(q) == \A i, j \in DOMAIN q : q[i].do \in Decisions /\ q[j].do \in Decisions => i = j
LoginLast(q, n) == /\ q # <<>> /\ q[Len(q)].do \in {"connect", "shell"} /\ q[Len(q)].n = n
                   /\ \A i \in 1 .. Len(q) - 1 : q[i].do \in {"end", "answer"}

Has(e, what)  == \E i \in DOMAIN e : e[i].is = what
Only(e, S)    == \A i \in DOMAIN e : e[i].is \in S
Bounded(e, n) == \A i \in DOMAIN e : e[i].n <= n
Older(e, n)   == \A i \in DOMAIN e : e[i].is \in Overs => e[i].n < n
KeyOnce(e)    == \A i, j \in DOMAIN e : e[i].is = "hostKey" /\ e[j].is = "hostKey" => i = j
EndFirst(e)   == \A i \in DOMAIN e : e[i].is = "hostKey" =>
                                         \E j \in DOMAIN e : j < i /\ e[j].is = "disconnected"
Fresh(e, n)   == \A i, j \in DOMAIN e : e[i].is = "connected" /\ j < i /\ e[j].is \in Overs => e[j].n < n

(* A request at the end of the queue,                                      *)
LEMMA AppendedRequest ==
    ASSUME NEW q \in Asked, NEW r \in Ask
    PROVE  LET a == Append(q, r) IN
           /\ Logins(a) <=> Logins(q) \/ r.do \in {"connect", "shell"}
           /\ Decided(a) <=> Decided(q) \/ r.do \in Decisions
           /\ Ended(a) <=> Ended(q) \/ r.do = "end"
           /\ \A D : Made(a, D) <=> Made(q, D) /\ r.do \in D
           /\ DecidedOnce(q) /\ ~(Decided(q) /\ r.do \in Decisions) => DecidedOnce(a)
           /\ Made(q, {"end", "answer"}) /\ r.do \in {"connect", "shell"} => LoginLast(a, r.n)
<1> DEFINE a == Append(q, r)
           n == Len(q)
<1>1. /\ DOMAIN q = 1 .. n /\ DOMAIN a = 1 .. n + 1 /\ n \in Nat /\ Len(a) = n + 1 /\ a # <<>>
      /\ \A i \in 1 .. n : a[i] = q[i]
      /\ a[n + 1] = r
  BY DEF Asked
<1> HIDE DEF a, n
<1>2. Logins(a) <=> Logins(q) \/ r.do \in {"connect", "shell"} BY <1>1 DEF Logins
<1>3. Decided(a) <=> Decided(q) \/ r.do \in Decisions BY <1>1 DEF Decided
<1>4. Ended(a) <=> Ended(q) \/ r.do = "end" BY <1>1 DEF Ended
<1>5. \A D : Made(a, D) <=> Made(q, D) /\ r.do \in D BY <1>1 DEF Made
<1>6. DecidedOnce(q) /\ ~(Decided(q) /\ r.do \in Decisions) => DecidedOnce(a)
  BY <1>1 DEF DecidedOnce, Decided
<1>7. Made(q, {"end", "answer"}) /\ r.do \in {"connect", "shell"} => LoginLast(a, r.n)
  BY <1>1 DEF Made, LoginLast
<1> QED BY <1>2, <1>3, <1>4, <1>5, <1>6, <1>7 DEF a

(* The rest of a sequence, by the places its elements had.                 *)
LEMMA TailIs ==
    ASSUME NEW S, NEW q \in Seq(S), q # <<>>
    PROVE  /\ Head(q) = q[1] /\ Head(q) \in S /\ Tail(q) \in Seq(S)
           /\ Len(q) \in Nat /\ Len(q) >= 1 /\ Len(Tail(q)) = Len(q) - 1
           /\ DOMAIN q = 1 .. Len(q) /\ DOMAIN Tail(q) = 1 .. Len(q) - 1
           /\ \A i \in 1 .. Len(q) - 1 : Tail(q)[i] = q[i + 1]
           /\ \A i \in 1 .. Len(q) : i = 1 \/ (i - 1 \in 1 .. Len(q) - 1 /\ q[i] = Tail(q)[i - 1])
<1>1. /\ Head(q) = q[1] /\ Head(q) \in S /\ Tail(q) \in Seq(S)
      /\ Len(q) \in Nat /\ Len(q) >= 1 /\ Len(Tail(q)) = Len(q) - 1
      /\ DOMAIN q = 1 .. Len(q) /\ DOMAIN Tail(q) = 1 .. Len(q) - 1
      /\ \A i \in 1 .. Len(q) - 1 : Tail(q)[i] = q[i + 1]
  OBVIOUS
<1>2. ASSUME NEW i \in 1 .. Len(q), i # 1
      PROVE  i - 1 \in 1 .. Len(q) - 1 /\ q[i] = Tail(q)[i - 1]
  <2> DEFINE j == i - 1
  <2>1. j \in 1 .. Len(q) - 1 /\ j + 1 = i BY <1>1, <1>2
  <2> HIDE DEF j
  <2>2. Tail(q)[j] = q[j + 1] BY <1>1, <2>1
  <2> QED BY <2>1, <2>2 DEF j
<1> QED BY <1>1, <1>2

(* one taken from its front,                                               *)
LEMMA TakenRequest ==
    ASSUME NEW q \in Asked, q # <<>>
    PROVE  LET t == Tail(q)
               r == Head(q) IN
           /\ r \in Ask /\ t \in Asked
           /\ Logins(q) <=> Logins(t) \/ r.do \in {"connect", "shell"}
           /\ Decided(q) <=> Decided(t) \/ r.do \in Decisions
           /\ Ended(q) <=> Ended(t) \/ r.do = "end"
           /\ \A D : Made(q, D) <=> Made(t, D) /\ r.do \in D
           /\ DecidedOnce(q) => DecidedOnce(t) /\ ~(Decided(t) /\ r.do \in Decisions)
           /\ \A k : LoginLast(q, k) /\ r.do \in {"connect", "shell"} => t = <<>> /\ r.n = k
           /\ \A k : LoginLast(q, k) /\ r.do \notin {"connect", "shell"} =>
                         LoginLast(t, k) /\ r.do \in {"end", "answer"}
<1> DEFINE t == Tail(q)
           r == Head(q)
           n == Len(q)
<1>1. /\ DOMAIN q = 1 .. n /\ DOMAIN t = 1 .. n - 1 /\ n \in Nat /\ n # 0 /\ Len(t) = n - 1
      /\ \A i \in 1 .. n - 1 : t[i] = q[i + 1]
      /\ r = q[1] /\ r \in Ask /\ t \in Asked
  BY TailIs DEF Asked
<1>a. \A i \in 1 .. n : i = 1 \/ (i - 1 \in 1 .. n - 1 /\ q[i] = t[i - 1]) BY TailIs DEF Asked
<1>c. 1 \in 1 .. n /\ \A i \in 1 .. n - 1 : i + 1 \in 1 .. n /\ t[i] = q[i + 1] /\ i + 1 # 1
  BY <1>1
<1>b. (n = 1 => t = <<>>) /\ (n # 1 => t # <<>>)
  <2>1. t \in Seq(Ask) BY <1>1 DEF Asked
  <2> HIDE DEF t
  <2> QED BY <1>1, <2>1
<1> HIDE DEF t, n, r
<1>2. Logins(q) <=> Logins(t) \/ r.do \in {"connect", "shell"}
  <2>1. ASSUME Logins(t) \/ r.do \in {"connect", "shell"} PROVE Logins(q)
    BY <1>1, <1>c, <2>1 DEF Logins
  <2> QED BY <1>1, <1>a, <2>1 DEF Logins
<1>3. Decided(q) <=> Decided(t) \/ r.do \in Decisions
  <2>1. ASSUME Decided(t) \/ r.do \in Decisions PROVE Decided(q) BY <1>1, <1>c, <2>1 DEF Decided
  <2> QED BY <1>1, <1>a, <2>1 DEF Decided
<1>4. Ended(q) <=> Ended(t) \/ r.do = "end"
  <2>1. ASSUME Ended(t) \/ r.do = "end" PROVE Ended(q) BY <1>1, <1>c, <2>1 DEF Ended
  <2> QED BY <1>1, <1>a, <2>1 DEF Ended
<1>5. \A D : Made(q, D) <=> Made(t, D) /\ r.do \in D
  <2>1. ASSUME NEW D, Made(q, D) PROVE Made(t, D) /\ r.do \in D BY <1>1, <1>c, <2>1 DEF Made
  <2>2. ASSUME NEW D, Made(t, D), r.do \in D PROVE Made(q, D) BY <1>1, <1>a, <2>2 DEF Made
  <2> QED BY <2>1, <2>2
<1>6. DecidedOnce(q) => DecidedOnce(t) /\ ~(Decided(t) /\ r.do \in Decisions)
  <2> SUFFICES ASSUME DecidedOnce(q) PROVE DecidedOnce(t) /\ ~(Decided(t) /\ r.do \in Decisions) OBVIOUS
  <2>1. DecidedOnce(t)
    <3> SUFFICES ASSUME NEW i \in 1 .. n - 1, NEW j \in 1 .. n - 1,
                        t[i].do \in Decisions, t[j].do \in Decisions
                 PROVE  i = j
      BY <1>1 DEF DecidedOnce
    <3>1. i + 1 = j + 1 BY <1>1, <1>c DEF DecidedOnce
    <3> QED BY <3>1
  <2>2. ~(Decided(t) /\ r.do \in Decisions) BY <1>1, <1>c DEF DecidedOnce, Decided
  <2> QED BY <2>1, <2>2
<1>7. \A k : LoginLast(q, k) /\ r.do \in {"connect", "shell"} => t = <<>> /\ r.n = k
  <2> SUFFICES ASSUME NEW k, LoginLast(q, k), r.do \in {"connect", "shell"} PROVE n = 1 /\ r.n = k
    BY <1>b
  <2>1. n = 1 BY <1>1 DEF LoginLast, n
  <2> QED BY <1>1, <2>1 DEF LoginLast, n
<1>8. \A k : LoginLast(q, k) /\ r.do \notin {"connect", "shell"} =>
                 LoginLast(t, k) /\ r.do \in {"end", "answer"}
  <2> SUFFICES ASSUME NEW k, LoginLast(q, k), r.do \notin {"connect", "shell"}
               PROVE  LoginLast(t, k) /\ r.do \in {"end", "answer"}
    OBVIOUS
  <2>1. q[n].do \in {"connect", "shell"} /\ q[n].n = k /\ \A i \in 1 .. n - 1 : q[i].do \in {"end", "answer"}
    BY DEF LoginLast, n
  <2>2. n # 1 BY <1>1, <2>1
  <2>3. r.do \in {"end", "answer"} BY <1>1, <2>1, <2>2
  <2>4. n - 1 \in 1 .. n - 1 /\ t[n - 1] = q[n] BY <1>1, <1>a, <2>2
  <2>5. \A i \in 1 .. (n - 1) - 1 : i \in 1 .. n - 1 /\ i + 1 \in 1 .. n - 1 /\ t[i] = q[i + 1]
    BY <1>1, <2>2
  <2> QED BY <1>1, <1>b, <2>1, <2>2, <2>3, <2>4, <2>5 DEF LoginLast
<1> QED BY <1>1, <1>2, <1>3, <1>4, <1>5, <1>6, <1>7, <1>8 DEF t, r

(* and none.                                                               *)
LEMMA NoRequest ==
    /\ ~Logins(<<>>) /\ ~Decided(<<>>) /\ ~Ended(<<>>) /\ \A D : Made(<<>>, D)
    /\ DecidedOnce(<<>>)
BY DEF Logins, Decided, Ended, Made, DecidedOnce

(* A signal at the end of the queue,                                       *)
LEMMA AppendedEvent ==
    ASSUME NEW e \in Seq(Event), NEW v \in Event
    PROVE  LET a == Append(e, v) IN
           /\ a \in Seq(Event) /\ a # <<>>
           /\ \A x : Has(a, x) <=> Has(e, x) \/ v.is = x
           /\ \A S : Only(a, S) <=> Only(e, S) /\ v.is \in S
           /\ \A k : Bounded(a, k) <=> Bounded(e, k) /\ v.n <= k
           /\ \A k : Older(a, k) <=> Older(e, k) /\ (v.is \in Overs => v.n < k)
           /\ KeyOnce(e) /\ ~(Has(e, "hostKey") /\ v.is = "hostKey") => KeyOnce(a)
           /\ EndFirst(e) /\ (v.is = "hostKey" => Has(e, "disconnected")) => EndFirst(a)
           /\ \A k : Fresh(e, k) /\ (v.is = "connected" => Older(e, k)) => Fresh(a, k)
<1> DEFINE a == Append(e, v)
           n == Len(e)
<1>1. /\ DOMAIN e = 1 .. n /\ DOMAIN a = 1 .. n + 1 /\ n \in Nat /\ a \in Seq(Event) /\ a # <<>>
      /\ \A i \in 1 .. n : a[i] = e[i]
      /\ a[n + 1] = v
  OBVIOUS
<1> HIDE DEF a, n
<1>2. \A x : Has(a, x) <=> Has(e, x) \/ v.is = x BY <1>1 DEF Has
<1>3. \A S : Only(a, S) <=> Only(e, S) /\ v.is \in S BY <1>1 DEF Only
<1>4. \A k : Bounded(a, k) <=> Bounded(e, k) /\ v.n <= k BY <1>1 DEF Bounded
<1>5. \A k : Older(a, k) <=> Older(e, k) /\ (v.is \in Overs => v.n < k) BY <1>1 DEF Older
<1>6. KeyOnce(e) /\ ~(Has(e, "hostKey") /\ v.is = "hostKey") => KeyOnce(a)
  BY <1>1 DEF KeyOnce, Has
<1>7. EndFirst(e) /\ (v.is = "hostKey" => Has(e, "disconnected")) => EndFirst(a)
  BY <1>1 DEF EndFirst, Has
<1>8. \A k : Fresh(e, k) /\ (v.is = "connected" => Older(e, k)) => Fresh(a, k)
  <2> SUFFICES ASSUME NEW k, Fresh(e, k), v.is = "connected" => Older(e, k),
                      NEW i \in 1 .. n + 1, NEW j \in 1 .. n + 1,
                      a[i].is = "connected", j < i, a[j].is \in Overs
               PROVE  a[j].n < k
    BY <1>1 DEF Fresh
  <2>1. j \in 1 .. n /\ a[j] = e[j] BY <1>1
  <2>2. CASE i = n + 1 BY <1>1, <2>1, <2>2 DEF Older
  <2>3. CASE i # n + 1
    <3>1. i \in 1 .. n /\ a[i] = e[i] BY <1>1, <2>3
    <3> QED BY <1>1, <2>1, <3>1 DEF Fresh
  <2> QED BY <2>2, <2>3
<1> QED BY <1>1, <1>2, <1>3, <1>4, <1>5, <1>6, <1>7, <1>8 DEF a

(* one delivered from its front,                                           *)
LEMMA TakenEvent ==
    ASSUME NEW e \in Seq(Event), e # <<>>
    PROVE  LET t == Tail(e)
               v == Head(e) IN
           /\ v \in Event /\ t \in Seq(Event)
           /\ \A x : Has(e, x) <=> Has(t, x) \/ v.is = x
           /\ \A S : Only(e, S) <=> Only(t, S) /\ v.is \in S
           /\ \A k : Bounded(e, k) <=> Bounded(t, k) /\ v.n <= k
           /\ \A k : Older(e, k) <=> Older(t, k) /\ (v.is \in Overs => v.n < k)
           /\ KeyOnce(e) => KeyOnce(t) /\ ~(Has(t, "hostKey") /\ v.is = "hostKey")
           /\ EndFirst(e) => v.is # "hostKey" /\ (v.is # "disconnected" => EndFirst(t))
           /\ \A k : Fresh(e, k) => Fresh(t, k) /\ (Has(t, "connected") /\ v.is \in Overs => v.n < k)
<1> DEFINE t == Tail(e)
           v == Head(e)
           n == Len(e)
<1>1. /\ DOMAIN e = 1 .. n /\ DOMAIN t = 1 .. n - 1 /\ n \in Nat /\ n # 0
      /\ \A i \in 1 .. n - 1 : t[i] = e[i + 1]
      /\ v = e[1] /\ v \in Event /\ t \in Seq(Event)
  BY TailIs
<1>a. \A i \in 1 .. n : i = 1 \/ (i - 1 \in 1 .. n - 1 /\ e[i] = t[i - 1]) BY TailIs
<1>c. 1 \in 1 .. n /\ \A i \in 1 .. n - 1 : i + 1 \in 1 .. n /\ t[i] = e[i + 1] /\ i + 1 # 1
  BY <1>1
<1> HIDE DEF t, n, v
<1>2. \A x : Has(e, x) <=> Has(t, x) \/ v.is = x
  <2>1. ASSUME NEW x, Has(t, x) \/ v.is = x PROVE Has(e, x) BY <1>1, <1>c, <2>1 DEF Has
  <2>2. ASSUME NEW x, Has(e, x) PROVE Has(t, x) \/ v.is = x BY <1>1, <1>a, <2>2 DEF Has
  <2> QED BY <2>1, <2>2
<1>3. \A S : Only(e, S) <=> Only(t, S) /\ v.is \in S
  <2>1. ASSUME NEW S, Only(e, S) PROVE Only(t, S) /\ v.is \in S BY <1>1, <1>c, <2>1 DEF Only
  <2>2. ASSUME NEW S, Only(t, S), v.is \in S PROVE Only(e, S) BY <1>1, <1>a, <2>2 DEF Only
  <2> QED BY <2>1, <2>2
<1>4. \A k : Bounded(e, k) <=> Bounded(t, k) /\ v.n <= k
  <2>1. ASSUME NEW k, Bounded(e, k) PROVE Bounded(t, k) /\ v.n <= k
    BY <1>1, <1>c, <2>1 DEF Bounded
  <2>2. ASSUME NEW k, Bounded(t, k), v.n <= k PROVE Bounded(e, k) BY <1>1, <1>a, <2>2 DEF Bounded
  <2> QED BY <2>1, <2>2
<1>5. \A k : Older(e, k) <=> Older(t, k) /\ (v.is \in Overs => v.n < k)
  <2>1. ASSUME NEW k, Older(e, k) PROVE Older(t, k) /\ (v.is \in Overs => v.n < k)
    BY <1>1, <1>c, <2>1 DEF Older
  <2>2. ASSUME NEW k, Older(t, k), (v.is \in Overs => v.n < k) PROVE Older(e, k)
    BY <1>1, <1>a, <2>2 DEF Older
  <2> QED BY <2>1, <2>2
<1>6. KeyOnce(e) => KeyOnce(t) /\ ~(Has(t, "hostKey") /\ v.is = "hostKey")
  <2> SUFFICES ASSUME KeyOnce(e) PROVE KeyOnce(t) /\ ~(Has(t, "hostKey") /\ v.is = "hostKey") OBVIOUS
  <2>1. KeyOnce(t)
    <3> SUFFICES ASSUME NEW i \in 1 .. n - 1, NEW j \in 1 .. n - 1,
                        t[i].is = "hostKey", t[j].is = "hostKey"
                 PROVE  i = j
      BY <1>1 DEF KeyOnce
    <3>1. i + 1 = j + 1 BY <1>1, <1>c DEF KeyOnce
    <3> QED BY <3>1
  <2>2. ~(Has(t, "hostKey") /\ v.is = "hostKey") BY <1>1, <1>c DEF KeyOnce, Has
  <2> QED BY <2>1, <2>2
<1>7. EndFirst(e) => v.is # "hostKey" /\ (v.is # "disconnected" => EndFirst(t))
  <2> SUFFICES ASSUME EndFirst(e) PROVE v.is # "hostKey" /\ (v.is # "disconnected" => EndFirst(t)) OBVIOUS
  <2>1. v.is # "hostKey" BY <1>1 DEF EndFirst
  <2>2. ASSUME v.is # "disconnected", NEW i \in 1 .. n - 1, t[i].is = "hostKey"
        PROVE  \E j \in 1 .. n - 1 : j < i /\ t[j].is = "disconnected"
    <3>1. i + 1 \in 1 .. n /\ e[i + 1].is = "hostKey" BY <1>1, <2>2
    <3>2. PICK j \in 1 .. n : j < i + 1 /\ e[j].is = "disconnected" BY <1>1, <3>1 DEF EndFirst
    <3>3. j # 1 BY <1>1, <2>2, <3>2
    <3>4. j - 1 \in 1 .. n - 1 /\ j - 1 < i /\ t[j - 1].is = "disconnected" BY <1>a, <3>2, <3>3
    <3> QED BY <3>4
  <2> QED BY <1>1, <2>1, <2>2 DEF EndFirst
<1>8. \A k : Fresh(e, k) => Fresh(t, k) /\ (Has(t, "connected") /\ v.is \in Overs => v.n < k)
  <2> SUFFICES ASSUME NEW k, Fresh(e, k)
               PROVE  Fresh(t, k) /\ (Has(t, "connected") /\ v.is \in Overs => v.n < k)
    OBVIOUS
  <2>1. Fresh(t, k)
    <3> SUFFICES ASSUME NEW i \in 1 .. n - 1, NEW j \in 1 .. n - 1,
                        t[i].is = "connected", j < i, t[j].is \in Overs
                 PROVE  t[j].n < k
      BY <1>1 DEF Fresh
    <3>1. i + 1 \in 1 .. n /\ j + 1 \in 1 .. n /\ j + 1 < i + 1 /\ t[i] = e[i + 1] /\ t[j] = e[j + 1]
      BY <1>1
    <3> QED BY <1>1, <3>1 DEF Fresh
  <2>2. ASSUME Has(t, "connected"), v.is \in Overs PROVE v.n < k
    <3>1. PICK i \in 1 .. n - 1 : t[i].is = "connected" BY <1>1, <2>2 DEF Has
    <3>2. i + 1 \in 1 .. n /\ 1 \in 1 .. n /\ 1 < i + 1 /\ e[i + 1].is = "connected" /\ v = e[1]
      BY <1>1, <3>1
    <3> QED BY <1>1, <2>2, <3>2 DEF Fresh
  <2> QED BY <2>1, <2>2
<1> QED BY <1>1, <1>2, <1>3, <1>4, <1>5, <1>6, <1>7, <1>8 DEF t, v

(* and none.                                                               *)
LEMMA NoEvent ==
    /\ \A x : ~Has(<<>>, x)
    /\ \A S : Only(<<>>, S)
    /\ \A k : Bounded(<<>>, k) /\ Older(<<>>, k) /\ Fresh(<<>>, k)
    /\ KeyOnce(<<>>) /\ EndFirst(<<>>)
BY DEF Has, Only, Bounded, Older, Fresh, KeyOnce, EndFirst

-----------------------------------------------------------------------------
(* What a call's state tells of the others, as long as no race happened.   *)
Clean == upset \cap {"dialing", "hasty", "deaf"} = {}

(* A telnet call and a caller have the modem to themselves.                *)
Alone ==
    /\ modem.tcp \in {"dialing", "up"} => modem.wanted \in {"tcp", "caller"}
    /\ modem.tcp # "dying"
    /\ modem.wanted = "tcp" => modem.tcp \in {"dialing", "up"}
    /\ modem.wanted = "caller" => modem.tcp = "up"
    /\ modem.wanted \in {"tcp", "caller"} =>
          /\ ~modem.sshMode /\ ~modem.known /\ back.at = "none" /\ events = <<>>
          /\ Made(modem.requests, {"answer"})

(* CONNECT was for the call that is up.                                    *)
Told ==
    modem.told = "online" =>
        /\ modem.online
        /\ \/ modem.wanted \in {"tcp", "caller"} /\ modem.tcp = "up"
           \/ modem.wanted = "ssh" /\ modem.sshMode /\ modem.known

(* Logins are numbered in the order they were asked for.                   *)
Numbered ==
    /\ back.n <= modem.login /\ Bounded(events, modem.login)
    /\ back.stage = "asking" => back.at = "login"

(* A host key is asked about in one place: a signal that brings it, the    *)
(* question to the user, or the user's decision; and a login waits for it. *)
OneKey ==
    /\ Decided(modem.requests) \/ Has(events, "hostKey") \/ modem.ask = "hostkey" =>
          back.at = "login" /\ back.stage = "hostkey"
    /\ KeyOnce(events) /\ DecidedOnce(modem.requests)
    /\ ~(Has(events, "hostKey") /\ Decided(modem.requests))
    /\ ~(Has(events, "hostKey") /\ modem.ask = "hostkey")
    /\ ~(Decided(modem.requests) /\ modem.ask = "hostkey")

(* A session the modem still knows of while the next login has begun: the  *)
(* signal of its end comes before the new one's host key.                  *)
Knew == back.at = "login" /\ modem.known => Has(events, "hostKey") /\ EndFirst(events)

(* A login under way is the last one asked for, and nothing ends it.       *)
LoggingIn ==
    back.at = "login" /\ back.stage # "none" =>
        /\ modem.wanted = "ssh" /\ modem.sshMode
        /\ ~Has(events, "connected") /\ ~Has(events, "authFailed")
        /\ Made(modem.requests, {"accept", "reject", "answer"})
        /\ back.n = modem.login /\ Older(events, modem.login)

(* A login that was asked for is the last request, after the end of the    *)
(* call before it.                                                         *)
LoginAsked ==
    Logins(modem.requests) =>
        /\ modem.wanted = "ssh" /\ modem.sshMode /\ modem.ask = "none"
        /\ LoginLast(modem.requests, modem.login)
        /\ Only(events, {"disconnected", "error"}) /\ Older(events, modem.login)
        /\ back.at # "login" /\ back.n < modem.login
        /\ modem.known => Ended(modem.requests) \/ Has(events, "disconnected")

(* A connection reported and not heard of is the one that is wanted.       *)
Reported ==
    Has(events, "connected") =>
        /\ modem.wanted = "ssh" /\ modem.sshMode /\ back.at # "login"
        /\ Fresh(events, modem.login)

Ssh == Numbered /\ OneKey /\ Knew /\ LoggingIn /\ LoginAsked /\ Reported

Calls == Alone /\ Told /\ Ssh

(* What is known of the types where they are needed.                       *)
Kinds == modem \in Modem /\ events \in Seq(Event)
         /\ back \in [at : {"none", "login", "up"}, stage : Stage, n : Nat]

(* What is in the queue of requests,                                       *)
LEMMA RequestIs ==
    ASSUME NEW q \in Asked, NEW i \in DOMAIN q
    PROVE  q[i] \in Ask /\ q[i].do \in Asking /\ q[i].n \in Nat
<1>1. q \in Seq(Ask) BY DEF Asked
<1>2. q[i] \in Ask BY <1>1
<1> HIDE DEF Asking
<1> QED BY <1>2 DEF Ask

(* and in that of signals.                                                 *)
LEMMA EventIs ==
    ASSUME NEW e \in Seq(Event), NEW i \in DOMAIN e
    PROVE  e[i] \in Event /\ e[i].is \in Signals /\ e[i].n \in Nat
<1>1. e[i] \in Event OBVIOUS
<1> QED BY <1>1 DEF Event

(* Signals of logins up to one are older than the next.                    *)
LEMMA Later ==
    ASSUME NEW e \in Seq(Event), NEW k \in Nat, NEW l \in Nat, k < l, Bounded(e, k)
    PROVE  Older(e, l) /\ Bounded(e, l)
<1>1. \A i \in DOMAIN e : e[i].n \in Nat BY EventIs
<1> QED BY <1>1 DEF Older, Bounded

(* A step that concerns neither the SSH client nor the back-end.           *)
LEMMA SshUntouched ==
    ASSUME Ssh, UNCHANGED <<back, events>>, modem'.requests = modem.requests,
           SameSsh(modem', modem), modem.wanted = "ssh" => modem'.wanted = "ssh"
    PROVE  Ssh'
<1> USE DEF SameSsh
<1>1. Numbered' BY DEF Ssh, Numbered
<1>2. OneKey' BY DEF Ssh, OneKey
<1>3. Knew' BY DEF Ssh, Knew
<1>4. LoggingIn' BY DEF Ssh, LoggingIn
<1>5. LoginAsked' BY DEF Ssh, LoginAsked
<1>6. Reported' BY DEF Ssh, Reported
<1> QED BY <1>1, <1>2, <1>3, <1>4, <1>5, <1>6 DEF Ssh

(* When only ends of sessions are signalled, nothing else is.              *)
LEMMA OnlyHas == \A e, x : Only(e, {"disconnected"}) /\ x # "disconnected" => ~Has(e, x)
BY DEF Only, Has

(* No login is under way.                                                  *)
Idle == /\ ~Logins(modem.requests) /\ ~Decided(modem.requests) /\ Only(events, {"disconnected"})
        /\ modem.ask # "hostkey" /\ back.at # "login"

(* Without a login under way nothing waits for one.                        *)
LEMMA NoLogin == ASSUME Kinds, Ssh, ~LoginUnderWay PROVE Idle
<1>1. ~Logins(modem.requests) BY DEF LoginUnderWay, Logins
<1>2. Only(events, {"disconnected"}) BY DEF LoginUnderWay, Only
<1>3. back.at # "login"
  <2>1. back.at = "none" \/ modem.known BY DEF LoginUnderWay
  <2>2. ~Has(events, "hostKey") BY <1>2, OnlyHas
  <2> QED BY <2>1, <2>2 DEF Ssh, Knew
<1> QED BY <1>1, <1>2, <1>3 DEF Ssh, OneKey, Idle

(* A step that begins no login keeps it so.                                *)
LEMMA IdleStays ==
    ASSUME Ssh, Idle, UNCHANGED <<back, events>>,
           ~Logins(modem'.requests), ~Decided(modem'.requests),
           modem'.ask # "hostkey", modem'.login = modem.login
    PROVE  Ssh'
<1>1. Numbered' BY DEF Ssh, Numbered
<1>2. ~Has(events, "hostKey") /\ ~Has(events, "connected") BY OnlyHas DEF Idle
<1>3. OneKey'
  <2>1. DecidedOnce(modem'.requests) BY DEF DecidedOnce, Decided
  <2> QED BY <1>2, <2>1 DEF Ssh, OneKey
<1>4. Knew' /\ LoggingIn' BY DEF Idle, Knew, LoggingIn
<1>5. LoginAsked' BY DEF LoginAsked
<1>6. Reported' BY <1>2 DEF Reported
<1> QED BY <1>1, <1>3, <1>4, <1>5, <1>6 DEF Ssh

(* Asking for the end of a session decides nothing.                        *)
LEMMA EndDecided ==
    ASSUME NEW m \in Modem
    PROVE  /\ Decided(EndSsh(m).requests) <=> Decided(m.requests)
           /\ m.known => Ended(EndSsh(m).requests)
           /\ Made(m.requests, {"end", "answer"}) => Made(EndSsh(m).requests, {"end", "answer"})
<1>1. CASE m.known
  <2> DEFINE r == [do |-> "end", n |-> m.asker]
             q == m.requests
  <2>1. q \in Asked /\ r \in Ask /\ r.do = "end" /\ EndSsh(m).requests = Append(q, r)
    BY <1>1, EndDoes, ModemIs DEF Ask, Asking
  <2> HIDE DEF r, q
  <2>2. Decided(Append(q, r)) <=> Decided(q) BY <2>1, AppendedRequest DEF Decisions
  <2>3. Ended(Append(q, r)) BY <2>1, AppendedRequest
  <2>4. Made(q, {"end", "answer"}) => Made(Append(q, r), {"end", "answer"})
    BY <2>1, AppendedRequest
  <2> QED BY <2>1, <2>2, <2>3, <2>4 DEF q
<1>2. CASE ~m.known BY <1>2 DEF EndSsh
<1> QED BY <1>1, <1>2

(* A call ends, see Freed.                                                 *)
LEMMA FreedCalls ==
    ASSUME Kinds, Calls, ~LoginUnderWay, Freed(modem', modem), UNCHANGED <<back, events>>,
           modem'.tcp \notin {"dialing", "up", "dying"}
    PROVE  Calls'
<1>1. Idle BY NoLogin DEF Calls
<1>2. ~Logins(modem'.requests) /\ ~Decided(modem'.requests)
  BY <1>1, EndLogins, EndDecided DEF Freed, Kinds, Idle
<1>3. Ssh' BY <1>1, <1>2, IdleStays DEF Calls, Freed, Idle
<1>4. Alone' /\ Told' BY DEF Freed, Alone, Told
<1> QED BY <1>3, <1>4 DEF Calls

(* No SSH call is left when one begins that is not SSH's.                  *)
LEMMA Unused ==
    ASSUME Kinds, ~SshUnfinished
    PROVE  /\ ~modem.known /\ modem.requests = <<>> /\ back.at = "none" /\ events = <<>>
           /\ ~LoginUnderWay
           /\ Made(modem.requests, {"answer"}) /\ ~Logins(modem.requests) /\ ~Decided(modem.requests)
<1>1. ~modem.known /\ modem.requests = <<>> /\ back.at = "none" /\ events = <<>>
  BY DEF SshUnfinished
<1>2. ~LoginUnderWay BY <1>1 DEF LoginUnderWay
<1> QED BY <1>1, <1>2, NoRequest

(* A telnet call is dialled.                                               *)
LEMMA TelnetCalls ==
    ASSUME Kinds, Calls, ~SshUnfinished, modem' = StartCall(modem, "tcp"), UNCHANGED <<back, events>>
    PROVE  Calls'
<1>1. /\ ~modem.known /\ back.at = "none" /\ events = <<>> /\ Idle
      /\ Made(modem.requests, {"answer"}) /\ ~Logins(modem.requests) /\ ~Decided(modem.requests)
  BY Unused, NoLogin DEF Calls
<1>2. EndSsh(modem) = modem BY <1>1 DEF EndSsh
<1>3. /\ modem'.tcp = "dialing" /\ modem'.wanted = "tcp" /\ ~modem'.sshMode
      /\ modem'.ask = modem.ask /\ ~modem'.known /\ modem'.login = modem.login
      /\ modem'.requests = modem.requests
      /\ modem.tcp \in {"up", "closing"} => modem'.told = "offline"
      /\ modem.tcp \notin {"up", "closing"} => modem'.told = modem.told
  BY <1>1, <1>2, TelnetCallDoes DEF Kinds
<1>4. Ssh' BY <1>1, <1>3, IdleStays DEF Calls, Idle
<1>5. Alone' BY <1>1, <1>3 DEF Alone
<1>6. Told' BY <1>1, <1>3 DEF Calls, Told
<1> QED BY <1>4, <1>5, <1>6 DEF Calls

(* An SSH call is dialled, after every call and login before it.           *)
LEMMA SshCalls ==
    ASSUME Kinds, Calls, ~LoginUnderWay, NEW to \in {"ssh", "shell"},
           modem' = StartCall(modem, to), UNCHANGED <<back, events>>
    PROVE  Calls'
<1> DEFINE q == EndSsh(modem).requests
           r == LoginAt(to, modem'.login)
<1>1. Idle BY NoLogin DEF Calls
<1>2. /\ modem'.tcp = "idle" /\ modem'.wanted = "ssh" /\ modem'.sshMode /\ modem'.ask = "none"
      /\ modem'.known = modem.known /\ modem'.login = modem.login + 1
      /\ modem'.requests = Append(q, r) /\ modem' \in Modem
      /\ modem.tcp \in {"up", "closing"} => modem'.told = "offline"
      /\ modem.tcp \notin {"up", "closing"} => modem'.told = modem.told /\ modem'.online = modem.online
  <2>1. modem \in Modem BY DEF Kinds
  <2>2. SshDialled(modem', modem, to) BY <2>1, SshCallDoes
  <2> QED BY <2>2 DEF SshDialled
<1>3. modem.login \in Nat /\ q \in Asked /\ r \in Ask /\ r.do \in {"connect", "shell"} /\ r.n = modem'.login
  <2>1. modem.login \in Nat /\ EndSsh(modem) \in Modem BY EndDoes, ModemIs DEF Kinds
  <2>2. q \in Asked BY <2>1, ModemIs
  <2>3. modem'.login \in Nat BY <1>2, <2>1
  <2> QED BY <2>1, <2>2, <2>3 DEF Ask, Asking, LoginAt
<1>4. Made(modem.requests, {"end", "answer"})
  <2>1. modem.requests \in Asked BY ModemIs DEF Kinds
  <2>2. \A i \in DOMAIN modem.requests : modem.requests[i].do \in Asking BY <2>1, RequestIs
  <2> QED BY <1>1, <2>2 DEF Idle, Logins, Decided, Decisions, Made, Asking
<1>5. /\ ~Decided(q) /\ Made(q, {"end", "answer"}) /\ (modem.known => Ended(q))
  BY <1>1, <1>4, EndDecided DEF Kinds, Idle
<1> HIDE DEF q, r
<1>6. /\ ~Decided(modem'.requests) /\ LoginLast(modem'.requests, modem'.login)
      /\ modem.known => Ended(modem'.requests)
  BY <1>2, <1>3, <1>5, AppendedRequest DEF Decisions
<1>7. /\ ~Has(events, "hostKey") /\ ~Has(events, "connected") /\ Only(events, {"disconnected", "error"})
  BY <1>1, OnlyHas DEF Idle, Only
<1>8. Older(events, modem'.login) /\ Bounded(events, modem'.login) /\ back.n < modem'.login
  <2>1. back.n \in Nat /\ back.n <= modem.login /\ Bounded(events, modem.login)
    BY DEF Kinds, Calls, Ssh, Numbered
  <2>2. modem'.login \in Nat /\ modem.login < modem'.login BY <1>2, <1>3
  <2>3. events \in Seq(Event) BY DEF Kinds
  <2>4. Older(events, modem'.login) /\ Bounded(events, modem'.login)
    BY <1>3, <2>1, <2>2, <2>3, Later
  <2> QED BY <1>3, <2>1, <2>2, <2>4
<1>9. Numbered'
  <2>1. back.n <= modem'.login
    <3>1. back.n \in Nat /\ modem'.login \in Nat BY <1>2, <1>3 DEF Kinds
    <3> QED BY <1>8, <3>1
  <2> QED BY <1>8, <2>1 DEF Calls, Ssh, Numbered
<1>10. OneKey'
  <2>1. DecidedOnce(modem'.requests) BY <1>6 DEF DecidedOnce, Decided
  <2> QED BY <1>2, <1>6, <1>7, <2>1 DEF Calls, Ssh, OneKey
<1>11. Knew' /\ LoggingIn' BY <1>1 DEF Idle, Knew, LoggingIn
<1>12. LoginAsked' BY <1>1, <1>2, <1>6, <1>7, <1>8 DEF LoginAsked, Idle
<1>13. Reported' BY <1>7 DEF Reported
<1>14. Alone' BY <1>2 DEF Alone
<1>15. Told' BY <1>2 DEF Calls, Told
<1> QED BY <1>9, <1>10, <1>11, <1>12, <1>13, <1>14, <1>15 DEF Calls, Ssh

(* A caller is answered.                                                   *)
LEMMA AnswerCalls ==
    ASSUME Kinds, Calls, ~SshUnfinished, ~modem.sshMode, UNCHANGED <<back, events>>,
           modem'.tcp = "up", modem'.wanted = "caller", modem'.online,
           SameSsh(modem', modem), modem'.requests = modem.requests
    PROVE  Calls'
<1>1. /\ ~modem.known /\ back.at = "none" /\ events = <<>> /\ Idle
      /\ Made(modem.requests, {"answer"}) /\ ~Logins(modem.requests) /\ ~Decided(modem.requests)
  BY Unused, NoLogin DEF Calls
<1>2. Ssh' BY <1>1, IdleStays DEF Calls, Idle, SameSsh
<1>3. Alone' BY <1>1 DEF Alone, SameSsh
<1>4. Told' BY DEF Told
<1> QED BY <1>2, <1>3, <1>4 DEF Calls

(* An answer to a login's question is one more request, or two.            *)
LEMMA AnswerRequests ==
    ASSUME NEW m \in Modem, NEW what \in {"accept", "reject", "answer"}
    PROVE  LET q == m.requests
               p == Request(m, what).requests IN
           /\ Made(q, {"accept", "reject", "answer"}) => Made(p, {"accept", "reject", "answer"})
           /\ ~Decided(q) => DecidedOnce(p)
           /\ what = "answer" =>
                 /\ Made(q, {"answer"}) => Made(p, {"answer"})
                 /\ Decided(p) <=> Decided(q)
                 /\ DecidedOnce(q) => DecidedOnce(p)
<1> DEFINE q == m.requests
           p == Request(m, what).requests
           r == [do |-> what, n |-> m.asker]
<1>1. q \in Asked /\ r \in Ask /\ r.do = what BY ModemIs DEF Ask, Asking
<1>2. what \in Asking BY DEF Asking
<1>3. p = Append(q, r) BY <1>2, RequestDoes
<1> HIDE DEF q, p, r
<1>4. /\ Decided(p) <=> Decided(q) \/ r.do \in Decisions
      /\ Made(p, {"accept", "reject", "answer"}) <=>
             Made(q, {"accept", "reject", "answer"}) /\ r.do \in {"accept", "reject", "answer"}
      /\ Made(p, {"answer"}) <=> Made(q, {"answer"}) /\ r.do \in {"answer"}
      /\ DecidedOnce(q) /\ ~(Decided(q) /\ r.do \in Decisions) => DecidedOnce(p)
  BY <1>1, <1>3, AppendedRequest
<1>5. ~Decided(q) => DecidedOnce(q) BY DEF Decided, DecidedOnce
<1> QED BY <1>1, <1>4, <1>5 DEF Decisions, q, p

(* What the answers to a login's question add to the requests.             *)
LEMMA PromptRequests ==
    ASSUME modem \in Modem, PromptBytes, modem.ask # "none"
    PROVE  LET q == modem.requests
               p == modem'.requests IN
           modem' = modem \/
           /\ modem'.ask = "none"
           /\ Made(q, {"accept", "reject", "answer"}) => Made(p, {"accept", "reject", "answer"})
           /\ ~Decided(q) => DecidedOnce(p)
           /\ modem.ask # "hostkey" =>
                 /\ Made(q, {"answer"}) => Made(p, {"answer"})
                 /\ Decided(p) <=> Decided(q)
                 /\ DecidedOnce(q) => DecidedOnce(p)
<1> DEFINE done == [modem EXCEPT !.ask = "none"]
           both == Request(done, "accept")
<1>1. done \in Modem /\ done.requests = modem.requests BY ModemIs
<1>2. /\ {"accept", "reject", "answer"} \subseteq Asking
      /\ modem.ask \in {"hostkey", "line"}
  BY ModemIs DEF Asking
<1>3. \/ modem' = modem
      \/ modem' = Request(done, "answer")
      \/ modem.ask = "hostkey" /\ \E what \in {"accept", "reject", "answer"} : modem' = Request(done, what)
      \/ modem.ask = "hostkey" /\ modem' = Request(both, "answer")
  BY DEF PromptBytes
<1>4. modem' # modem => modem'.ask = "none" BY PromptDoes
<1> HIDE DEF done
<1>5. both \in Modem BY <1>1, <1>2, RequestDoes
<1> HIDE DEF both
<1>6. CASE modem' = Request(done, "answer")
  <2>1. "answer" \in {"accept", "reject", "answer"} OBVIOUS
  <2> QED BY <1>1, <1>4, <1>6, <2>1, AnswerRequests
<1>7. CASE modem.ask = "hostkey" /\ \E what \in {"accept", "reject", "answer"} : modem' = Request(done, what)
  BY <1>1, <1>4, <1>7, AnswerRequests
<1>8. CASE modem.ask = "hostkey" /\ modem' = Request(both, "answer")
  <2>1. /\ Made(modem.requests, {"accept", "reject", "answer"}) =>
               Made(both.requests, {"accept", "reject", "answer"})
        /\ ~Decided(modem.requests) => DecidedOnce(both.requests)
    BY <1>1, AnswerRequests DEF both
  <2>2. /\ Made(both.requests, {"accept", "reject", "answer"}) =>
               Made(modem'.requests, {"accept", "reject", "answer"})
        /\ DecidedOnce(both.requests) => DecidedOnce(modem'.requests)
    BY <1>5, <1>8, AnswerRequests
  <2> QED BY <1>4, <1>8, <2>1, <2>2
<1> QED BY <1>3, <1>6, <1>7, <1>8

(* The Atari answers a login's question.                                   *)
LEMMA PromptCalls ==
    ASSUME Kinds, Calls, PromptBytes, modem.ask # "none", UNCHANGED <<back, events>>
    PROVE  Calls'
<1> DEFINE q == modem.requests
           p == modem'.requests
<1>1. CASE modem' = modem
  BY <1>1 DEF Calls, Alone, Told, Ssh, Numbered, OneKey, Knew, LoggingIn, LoginAsked, Reported
<1>2. CASE modem' # modem
  <2>1. /\ SameCall(modem', modem) /\ SameLine(modem', modem) /\ modem'.sshMode = modem.sshMode
        /\ modem'.known = modem.known /\ modem'.login = modem.login
    BY PromptDoes DEF Kinds
  <2>2. /\ modem'.ask = "none"
        /\ Made(q, {"accept", "reject", "answer"}) => Made(p, {"accept", "reject", "answer"})
        /\ ~Decided(q) => DecidedOnce(p)
        /\ modem.ask # "hostkey" =>
                 /\ Made(q, {"answer"}) => Made(p, {"answer"})
                 /\ Decided(p) <=> Decided(q)
                 /\ DecidedOnce(q) => DecidedOnce(p)
    BY <1>2, PromptRequests DEF Kinds
  <2>3. ~Logins(q) /\ ~Logins(p) BY PromptLogins DEF Kinds, Calls, Ssh, LoginAsked
  <2> HIDE DEF q, p
  <2>4. Alone'
    <3>1. modem.wanted \in {"tcp", "caller"} => modem.ask # "hostkey"
      BY DEF Calls, Alone, Ssh, OneKey
    <3> QED BY <2>1, <2>2, <3>1 DEF Calls, Alone, SameCall, SameLine, q, p
  <2>5. Told' BY <2>1 DEF Calls, Told, SameCall, SameLine
  <2>6. Numbered' BY <2>1 DEF Calls, Ssh, Numbered
  <2>7. OneKey' BY <2>2 DEF Calls, Ssh, OneKey, q, p
  <2>8. Knew' BY <2>1 DEF Calls, Ssh, Knew
  <2>9. LoggingIn' BY <2>1, <2>2 DEF Calls, Ssh, LoggingIn, SameCall, q, p
  <2>10. LoginAsked' BY <2>3 DEF LoginAsked, p
  <2>11. Reported' BY <2>1 DEF Calls, Ssh, Reported, SameCall
  <2> QED BY <2>4, <2>5, <2>6, <2>7, <2>8, <2>9, <2>10, <2>11 DEF Calls, Ssh
<1> QED BY <1>1, <1>2

(* The signal that is delivered, and those that stay.                      *)
LEMMA HeadTaken ==
    ASSUME Kinds, events # <<>>
    PROVE  LET v == Head(events)
               t == Tail(events)
               k == modem.login IN
           /\ v \in Event /\ t \in Seq(Event)
           /\ Has(events, "hostKey") <=> Has(t, "hostKey") \/ v.is = "hostKey"
           /\ Has(events, "connected") <=> Has(t, "connected") \/ v.is = "connected"
           /\ Has(events, "authFailed") <=> Has(t, "authFailed") \/ v.is = "authFailed"
           /\ Has(events, "disconnected") <=> Has(t, "disconnected") \/ v.is = "disconnected"
           /\ Only(events, {"disconnected", "error"}) <=>
                 Only(t, {"disconnected", "error"}) /\ v.is \in {"disconnected", "error"}
           /\ Bounded(events, k) => Bounded(t, k)
           /\ Older(events, k) => Older(t, k) /\ (v.is \in Overs => v.n < k)
           /\ KeyOnce(events) => KeyOnce(t) /\ ~(Has(t, "hostKey") /\ v.is = "hostKey")
           /\ EndFirst(events) => v.is # "hostKey" /\ (v.is # "disconnected" => EndFirst(t))
           /\ Fresh(events, k) => Fresh(t, k) /\ (Has(t, "connected") /\ v.is \in Overs => v.n < k)
<1>1. events \in Seq(Event) BY DEF Kinds
<1> QED BY <1>1, TakenEvent

(* What each signal does to the modem.                                     *)
Said(r, m) == r \in Modem /\ SameLine(r, m) /\ r.sshMode = m.sshMode /\ r.login = m.login

(* The call that was wanted is over, if it was this one.                   *)
OverNow(r, m, n) == /\ r.wanted = m.wanted \/ (r.wanted = "none" /\ n = m.login)
                    /\ r.told = "offline"

(* SshClient::onConnected,                                                 *)
LEMMA ConnectedDoes ==
    ASSUME NEW m \in Modem
    PROVE  LET r == SshConnected(m) IN
           /\ Said(r, m) /\ r.known /\ r.online /\ r.ask = m.ask /\ r.requests = m.requests
           /\ r.wanted = m.wanted
BY ModemIs DEF SshConnected, Tell, Said, SameLine

(* onDisconnected,                                                         *)
LEMMA DisconnectedDoes ==
    ASSUME NEW m \in Modem, NEW n \in Nat
    PROVE  LET r == SshDisconnected(m, n) IN
           /\ Said(r, m) /\ ~r.known /\ r.ask = "none" /\ r.requests = m.requests
           /\ IF m.sshMode THEN OverNow(r, m, n) ELSE r.wanted = m.wanted /\ r.told = m.told
<1> DEFINE o == [m EXCEPT !.known = FALSE, !.online = FALSE, !.ask = "none"]
<1>1. /\ Said(o, m) /\ ~o.known /\ o.ask = "none" /\ o.requests = m.requests
      /\ o.wanted = m.wanted /\ o.told = m.told
  BY ModemIs DEF Said, SameLine
<1>2. SshDisconnected(m, n) = IF m.sshMode THEN Tell(Over(o, n), "offline") ELSE o
  BY DEF SshDisconnected
<1> HIDE DEF o
<1>3. LET r == Tell(Over(o, n), "offline") IN
      /\ r \in Modem /\ SameLine(r, o) /\ r.sshMode = o.sshMode /\ r.login = o.login
      /\ r.known = o.known /\ r.ask = o.ask /\ r.requests = o.requests /\ OverNow(r, o, n)
  BY <1>1, ModemIs DEF Tell, Over, Said, SameLine, OverNow
<1> QED BY <1>1, <1>2, <1>3 DEF Said, SameLine, OverNow

(* onError,                                                                *)
LEMMA ErrorDoes ==
    ASSUME NEW m \in Modem, NEW n \in Nat
    PROVE  LET r == SshError(m, n) IN
           /\ Said(r, m) /\ r.known = m.known /\ r.requests = m.requests
           /\ r.ask \in {"none", m.ask} /\ (m.sshMode => r.ask = "none")
           /\ SameCall(r, m) \/ (m.sshMode /\ OverNow(r, m, n))
<1> DEFINE o == [m EXCEPT !.ask = "none"]
<1>1. /\ Said(o, m) /\ o.known = m.known /\ o.ask = "none" /\ o.requests = m.requests /\ SameCall(o, m)
  BY ModemIs DEF Said, SameLine, SameCall
<1>2. \/ m.sshMode /\ SshError(m, n) \in {o, Tell(Over(o, n), "offline")}
      \/ ~m.sshMode /\ SshError(m, n) = m
  BY ModemIs DEF SshError
<1> HIDE DEF o
<1>3. LET r == Tell(Over(o, n), "offline") IN
      /\ r \in Modem /\ SameLine(r, o) /\ r.sshMode = o.sshMode /\ r.login = o.login
      /\ r.known = o.known /\ r.ask = o.ask /\ r.requests = o.requests /\ OverNow(r, o, n)
  BY <1>1, ModemIs DEF Tell, Over, Said, SameLine, OverNow
<1> DEFINE w == Tell(Over(o, n), "offline")
<1> HIDE DEF w
<1>4. /\ w \in Modem /\ SameLine(w, o) /\ w.sshMode = o.sshMode /\ w.login = o.login
      /\ w.known = o.known /\ w.ask = o.ask /\ w.requests = o.requests /\ OverNow(w, o, n)
  BY <1>3 DEF w
<1>5. CASE m.sshMode /\ SshError(m, n) = o BY <1>1, <1>5
<1>6. CASE m.sshMode /\ SshError(m, n) = w
  BY <1>1, <1>4, <1>6 DEF Said, SameLine, OverNow, SameCall
<1>7. CASE ~m.sshMode /\ SshError(m, n) = m BY <1>7 DEF Said, SameLine, SameCall
<1> QED BY <1>2, <1>5, <1>6, <1>7 DEF w

(* and onAuthFailed, as the modem hears them.                              *)
LEMMA AuthFailedDoes ==
    ASSUME NEW m \in Modem, NEW n \in Nat
    PROVE  LET r == SshAuthFailed(m, n) IN
           r = m \/
           /\ m.sshMode /\ Said(r, m) /\ r.known = m.known /\ r.ask = "none" /\ OverNow(r, m, n)
           /\ r.requests = Append(m.requests, [do |-> "end", n |-> m.asker])
<1> DEFINE o == [m EXCEPT !.ask = "none"]
           u == Over(o, n)
           q == Request(u, "end")
<1>1. /\ Said(o, m) /\ o.known = m.known /\ o.ask = "none" /\ o.requests = m.requests
      /\ o.asker = m.asker /\ o.wanted = m.wanted
  BY ModemIs DEF Said, SameLine
<1>2. SshAuthFailed(m, n) = IF ~m.sshMode THEN m ELSE Tell(q, "offline") BY DEF SshAuthFailed
<1> HIDE DEF o
<1>3. /\ u \in Modem /\ SameLine(u, o) /\ u.sshMode = o.sshMode /\ u.login = o.login
      /\ u.known = o.known /\ u.ask = o.ask /\ u.requests = o.requests /\ u.asker = o.asker
      /\ u.wanted = o.wanted \/ (u.wanted = "none" /\ n = o.login)
  BY <1>1, ModemIs DEF Over, Said, SameLine
<1> HIDE DEF u
<1>4. "end" \in Asking BY DEF Asking
<1>5. /\ q \in Modem /\ SameLine(q, u) /\ SameSsh(q, u) /\ SameCall(q, u)
      /\ q.requests = Append(u.requests, [do |-> "end", n |-> u.asker])
  BY <1>3, <1>4, RequestDoes
<1> HIDE DEF q
<1>6. LET r == Tell(q, "offline") IN
      /\ r \in Modem /\ SameLine(r, q) /\ SameSsh(r, q) /\ r.told = "offline" /\ r.wanted = q.wanted
      /\ r.requests = q.requests
  BY <1>5, ModemIs DEF Tell, SameLine, SameSsh
<1> DEFINE w == Tell(q, "offline")
<1> HIDE DEF w
<1>7. /\ w \in Modem /\ SameLine(w, q) /\ SameSsh(w, q) /\ w.told = "offline" /\ w.wanted = q.wanted
      /\ w.requests = q.requests
  BY <1>6 DEF w
<1>8. /\ Said(w, m) /\ w.known = m.known /\ w.ask = "none" /\ OverNow(w, m, n)
      /\ w.requests = Append(m.requests, [do |-> "end", n |-> m.asker])
  BY <1>1, <1>3, <1>5, <1>7 DEF Said, SameLine, SameSsh, SameCall, OverNow
<1> QED BY <1>2, <1>8 DEF w

(* The steps below are about the signal v at the head, t the rest.         *)
LEMMA ConnectedCalls ==
    ASSUME Kinds, Calls, events # <<>>, events' = Tail(events), UNCHANGED back,
           Head(events).is = "connected", modem' = SshConnected(modem)
    PROVE  Calls'
<1> DEFINE t == Tail(events)
           v == Head(events)
           k == modem.login
<1>1. /\ Has(events, "hostKey") <=> Has(t, "hostKey")
      /\ Has(events, "connected")
      /\ ~Only(events, {"disconnected", "error"})
      /\ Bounded(events, k) => Bounded(t, k)
      /\ KeyOnce(events) => KeyOnce(t)
      /\ Fresh(events, k) => Fresh(t, k)
  BY HeadTaken
<1>2. /\ SameLine(modem', modem) /\ modem'.sshMode = modem.sshMode /\ modem'.login = k
      /\ modem'.known /\ modem'.online /\ modem'.ask = modem.ask /\ modem'.requests = modem.requests
      /\ modem'.wanted = modem.wanted
  BY ConnectedDoes DEF Kinds, Said
<1>3. modem.wanted = "ssh" /\ modem.sshMode /\ back.at # "login" /\ Fresh(events, k)
  BY <1>1 DEF Calls, Ssh, Reported
<1>4. ~Logins(modem.requests) BY <1>1 DEF Calls, Ssh, LoginAsked
<1>5. events' = t OBVIOUS
<1> HIDE DEF t
<1>6. Alone' BY <1>2, <1>3 DEF Calls, Alone, SameLine
<1>7. Told' BY <1>2, <1>3 DEF Told
<1>8. Numbered' BY <1>1, <1>2, <1>5 DEF Calls, Ssh, Numbered
<1>9. OneKey' BY <1>1, <1>2, <1>5 DEF Calls, Ssh, OneKey
<1>10. Knew' /\ LoggingIn' BY <1>3 DEF Knew, LoggingIn
<1>11. LoginAsked' BY <1>2, <1>4 DEF LoginAsked
<1>12. Reported' BY <1>1, <1>2, <1>3, <1>5 DEF Reported
<1> QED BY <1>6, <1>7, <1>8, <1>9, <1>10, <1>11, <1>12 DEF Calls, Ssh

(* What has been signalled is not of a telnet call.                        *)
LEMMA SignalAlone ==
    ASSUME Calls, events # <<>>
    PROVE  /\ modem.wanted \notin {"tcp", "caller"} /\ modem.tcp \notin {"dialing", "up", "dying"}
           /\ modem.told = "online" => modem.online /\ modem.wanted = "ssh" /\ modem.sshMode /\ modem.known
BY DEF Calls, Alone, Told

(* The end of a session is signalled: it is not the end of a later login.  *)
LEMMA DisconnectedCalls ==
    ASSUME Kinds, Calls, events # <<>>, events' = Tail(events), UNCHANGED back,
           Head(events).is = "disconnected", modem' = SshDisconnected(modem, Head(events).n)
    PROVE  Calls'
<1> DEFINE t == Tail(events)
           v == Head(events)
           k == modem.login
<1>1. /\ Has(t, "hostKey") => Has(events, "hostKey")
      /\ Has(t, "connected") => Has(events, "connected")
      /\ Has(t, "authFailed") => Has(events, "authFailed")
      /\ Only(events, {"disconnected", "error"}) => Only(t, {"disconnected", "error"})
      /\ Bounded(events, k) => Bounded(t, k)
      /\ Older(events, k) => Older(t, k) /\ v.n < k
      /\ KeyOnce(events) => KeyOnce(t)
      /\ Fresh(events, k) => Fresh(t, k) /\ (Has(t, "connected") => v.n < k)
  BY HeadTaken DEF Overs
<1>2. v.n \in Nat /\ k \in Nat
  <2>1. v \in Event BY HeadTaken
  <2> HIDE DEF v
  <2> QED BY <2>1, ModemIs DEF Kinds, Event
<1>3. /\ SameLine(modem', modem) /\ modem'.sshMode = modem.sshMode /\ modem'.login = k
      /\ ~modem'.known /\ modem'.ask = "none" /\ modem'.requests = modem.requests
      /\ IF modem.sshMode THEN OverNow(modem', modem, v.n)
                          ELSE modem'.wanted = modem.wanted /\ modem'.told = modem.told
  BY <1>2, DisconnectedDoes DEF Kinds, Said
<1>4. v.n < k => modem'.wanted = modem.wanted BY <1>2, <1>3 DEF OverNow
<1>5. modem'.wanted \in {modem.wanted, "none"} BY <1>3 DEF OverNow
<1>6. events' = t OBVIOUS
<1> HIDE DEF t, v
<1>7. Alone' BY <1>3, <1>5, SignalAlone DEF Alone, SameLine
<1>8. Told' BY <1>3, SignalAlone DEF Told, OverNow
<1>9. Numbered' BY <1>1, <1>3, <1>6 DEF Calls, Ssh, Numbered
<1>10. OneKey' BY <1>1, <1>3, <1>6 DEF Calls, Ssh, OneKey
<1>11. Knew' BY <1>3 DEF Knew
<1>12. LoggingIn' BY <1>1, <1>3, <1>4, <1>6 DEF Calls, Ssh, LoggingIn
<1>13. LoginAsked' BY <1>1, <1>3, <1>4, <1>6 DEF Calls, Ssh, LoginAsked
<1>14. Reported' BY <1>1, <1>3, <1>4, <1>6 DEF Calls, Ssh, Reported
<1> QED BY <1>7, <1>8, <1>9, <1>10, <1>11, <1>12, <1>13, <1>14 DEF Calls, Ssh

(* An error is signalled: it is not an error of a later login.             *)
LEMMA ErrorCalls ==
    ASSUME Kinds, Calls, events # <<>>, events' = Tail(events), UNCHANGED back,
           Head(events).is = "error", modem' = SshError(modem, Head(events).n)
    PROVE  Calls'
<1> DEFINE t == Tail(events)
           v == Head(events)
           k == modem.login
<1>1. /\ Has(t, "hostKey") <=> Has(events, "hostKey")
      /\ Has(t, "connected") => Has(events, "connected")
      /\ Has(t, "authFailed") => Has(events, "authFailed")
      /\ Has(t, "disconnected") <=> Has(events, "disconnected")
      /\ Only(events, {"disconnected", "error"}) => Only(t, {"disconnected", "error"})
      /\ Bounded(events, k) => Bounded(t, k)
      /\ Older(events, k) => Older(t, k) /\ v.n < k
      /\ KeyOnce(events) => KeyOnce(t)
      /\ EndFirst(events) => EndFirst(t)
      /\ Fresh(events, k) => Fresh(t, k) /\ (Has(t, "connected") => v.n < k)
  BY HeadTaken DEF Overs
<1>2. v.n \in Nat /\ k \in Nat
  <2>1. v \in Event BY HeadTaken
  <2> HIDE DEF v
  <2> QED BY <2>1, ModemIs DEF Kinds, Event
<1>3. /\ SameLine(modem', modem) /\ modem'.sshMode = modem.sshMode /\ modem'.login = k
      /\ modem'.known = modem.known /\ modem'.requests = modem.requests
      /\ modem'.ask \in {"none", modem.ask}
      /\ SameCall(modem', modem) \/ (modem.sshMode /\ OverNow(modem', modem, v.n))
  BY <1>2, ErrorDoes DEF Kinds, Said
<1>4. v.n < k => modem'.wanted = modem.wanted BY <1>2, <1>3 DEF OverNow, SameCall
<1>5. modem'.wanted \in {modem.wanted, "none"} BY <1>3 DEF OverNow, SameCall
<1>6. events' = t OBVIOUS
<1> HIDE DEF t, v
<1>7. Alone' BY <1>3, <1>5, SignalAlone DEF Alone, SameLine
<1>8. Told' BY <1>3, SignalAlone DEF Told, OverNow, SameCall
<1>9. Numbered' BY <1>1, <1>3, <1>6 DEF Calls, Ssh, Numbered
<1>10. OneKey' BY <1>1, <1>3, <1>6 DEF Calls, Ssh, OneKey
<1>11. Knew' BY <1>1, <1>3, <1>6 DEF Calls, Ssh, Knew
<1>12. LoggingIn' BY <1>1, <1>3, <1>4, <1>6 DEF Calls, Ssh, LoggingIn
<1>13. LoginAsked' BY <1>1, <1>3, <1>4, <1>6 DEF Calls, Ssh, LoginAsked
<1>14. Reported' BY <1>1, <1>3, <1>4, <1>6 DEF Calls, Ssh, Reported
<1> QED BY <1>7, <1>8, <1>9, <1>10, <1>11, <1>12, <1>13, <1>14 DEF Calls, Ssh

(* A login has failed: no other login waits.                               *)
LEMMA AuthFailedCalls ==
    ASSUME Kinds, Calls, events # <<>>, events' = Tail(events), UNCHANGED back,
           Head(events).is = "authFailed", modem' = SshAuthFailed(modem, Head(events).n)
    PROVE  Calls'
<1> DEFINE t == Tail(events)
           v == Head(events)
           k == modem.login
           q == modem.requests
           p == modem'.requests
<1>1. /\ Has(t, "hostKey") <=> Has(events, "hostKey")
      /\ Has(t, "connected") => Has(events, "connected")
      /\ Has(events, "authFailed")
      /\ ~Only(events, {"disconnected", "error"})
      /\ Bounded(events, k) => Bounded(t, k)
      /\ KeyOnce(events) => KeyOnce(t)
      /\ EndFirst(events) => EndFirst(t)
      /\ Fresh(events, k) => Fresh(t, k) /\ (Has(t, "connected") => v.n < k)
  BY HeadTaken DEF Overs
<1>2. v.n \in Nat /\ k \in Nat
  <2>1. v \in Event BY HeadTaken
  <2> HIDE DEF v
  <2> QED BY <2>1, ModemIs DEF Kinds, Event
<1>3. ~Logins(q) /\ ~(back.at = "login" /\ back.stage # "none")
  BY <1>1 DEF Calls, Ssh, LoginAsked, LoggingIn
<1>4. \/ modem' = modem
      \/ /\ modem.sshMode /\ Said(modem', modem) /\ modem'.known = modem.known
         /\ modem'.ask = "none" /\ OverNow(modem', modem, v.n)
         /\ p = Append(q, [do |-> "end", n |-> modem.asker])
  BY <1>2, AuthFailedDoes DEF Kinds
<1>5. events' = t OBVIOUS
<1>6. CASE modem' = modem
  <2> HIDE DEF t, v
  <2>1. Alone' BY <1>6, SignalAlone DEF Alone
  <2>2. Told' BY <1>6 DEF Calls, Told
  <2>3. Numbered' BY <1>1, <1>5, <1>6 DEF Calls, Ssh, Numbered
  <2>4. OneKey' BY <1>1, <1>5, <1>6 DEF Calls, Ssh, OneKey
  <2>5. Knew' BY <1>1, <1>5, <1>6 DEF Calls, Ssh, Knew
  <2>6. LoggingIn' BY <1>3 DEF LoggingIn
  <2>7. LoginAsked' BY <1>3, <1>6 DEF LoginAsked
  <2>8. Reported' BY <1>1, <1>5, <1>6 DEF Calls, Ssh, Reported
  <2> QED BY <2>1, <2>2, <2>3, <2>4, <2>5, <2>6, <2>7, <2>8 DEF Calls, Ssh
<1>7. CASE /\ modem.sshMode /\ Said(modem', modem) /\ modem'.known = modem.known
           /\ modem'.ask = "none" /\ OverNow(modem', modem, v.n)
           /\ p = Append(q, [do |-> "end", n |-> modem.asker])
  <2>1. (Logins(p) <=> Logins(q)) /\ (Decided(p) <=> Decided(q)) /\ (DecidedOnce(q) => DecidedOnce(p))
    <3> DEFINE r == [do |-> "end", n |-> modem.asker]
    <3>1. q \in Asked /\ r \in Ask /\ r.do = "end" BY ModemIs DEF Kinds, Ask, Asking
    <3>2. p = Append(q, r) BY <1>7
    <3> HIDE DEF q, r, p
    <3> QED BY <3>1, <3>2, AppendedRequest DEF Decisions
  <2> HIDE DEF t, v, q, p
  <2>2. modem'.wanted \in {modem.wanted, "none"} BY <1>7 DEF OverNow
  <2>3. v.n < k => modem'.wanted = modem.wanted BY <1>2, <1>7 DEF OverNow
  <2>4. modem'.login = k BY <1>7 DEF Said
  <2>5. Alone' BY <1>7, <2>2, SignalAlone DEF Alone, Said, SameLine
  <2>6. Told' BY <1>7 DEF Told, OverNow
  <2>7. Numbered' BY <1>1, <1>5, <2>4 DEF Calls, Ssh, Numbered
  <2>8. OneKey' BY <1>1, <1>5, <1>7, <2>1 DEF Calls, Ssh, OneKey, q, p
  <2>9. Knew' BY <1>1, <1>5, <1>7 DEF Calls, Ssh, Knew
  <2>10. LoggingIn' BY <1>3 DEF LoggingIn
  <2>11. LoginAsked' BY <1>3, <2>1 DEF LoginAsked, q, p
  <2>12. Reported' BY <1>1, <1>5, <1>7, <2>3, <2>4 DEF Calls, Ssh, Reported, Said
  <2> QED BY <2>5, <2>6, <2>7, <2>8, <2>9, <2>10, <2>11, <2>12 DEF Calls, Ssh
<1> QED BY <1>4, <1>6, <1>7

(* A question is asked, or in another mode it is not heard.                *)
LEMMA PromptedCalls ==
    ASSUME Kinds, Calls, events # <<>>, events' = Tail(events), UNCHANGED back,
           Head(events).is = "prompt", modem' = SshAsks(modem, "line", Head(events).n)
    PROVE  Calls'
<1> DEFINE t == Tail(events)
           v == Head(events)
           k == modem.login
<1>1. /\ Has(t, "hostKey") <=> Has(events, "hostKey")
      /\ Has(t, "connected") => Has(events, "connected")
      /\ Has(t, "authFailed") => Has(events, "authFailed")
      /\ ~Only(events, {"disconnected", "error"})
      /\ Bounded(events, k) => Bounded(t, k)
      /\ Older(events, k) => Older(t, k)
      /\ KeyOnce(events) => KeyOnce(t)
      /\ EndFirst(events) => EndFirst(t)
      /\ Fresh(events, k) => Fresh(t, k)
  BY HeadTaken
<1>2. v.n \in Nat
  <2>1. v \in Event BY HeadTaken
  <2> HIDE DEF v
  <2> QED BY <2>1 DEF Event
<1>3. /\ SameLine(modem', modem) /\ SameCall(modem', modem) /\ modem'.sshMode = modem.sshMode
      /\ modem'.known = modem.known /\ modem'.login = k /\ modem'.requests = modem.requests
      /\ modem'.ask \in {"line", modem.ask}
  <2> HIDE DEF v
  <2>1. modem' = IF modem.sshMode THEN [modem EXCEPT !.ask = "line", !.asker = v.n] ELSE modem
    BY DEF SshAsks, v
  <2>2. CASE modem' = [modem EXCEPT !.ask = "line", !.asker = v.n]
    <3>1. modem \in Modem BY DEF Kinds
    <3> QED BY <1>2, <2>2, <3>1, ModemIs DEF SameLine, SameCall
  <2>3. CASE modem' = modem BY <2>3 DEF SameLine, SameCall
  <2> QED BY <2>1, <2>2, <2>3
<1>4. ~Logins(modem.requests) BY <1>1 DEF Calls, Ssh, LoginAsked
<1>5. events' = t OBVIOUS
<1> HIDE DEF t, v
<1>6. Alone' BY <1>3, SignalAlone DEF Alone, SameLine, SameCall
<1>7. Told' BY <1>3 DEF Calls, Told, SameLine, SameCall
<1>8. Numbered' BY <1>1, <1>3, <1>5 DEF Calls, Ssh, Numbered
<1>9. OneKey' BY <1>1, <1>3, <1>5 DEF Calls, Ssh, OneKey
<1>10. Knew' BY <1>1, <1>3, <1>5 DEF Calls, Ssh, Knew
<1>11. LoggingIn' BY <1>1, <1>3, <1>5 DEF Calls, Ssh, LoggingIn, SameCall
<1>12. LoginAsked' BY <1>3, <1>4 DEF LoginAsked
<1>13. Reported' BY <1>1, <1>3, <1>5 DEF Calls, Ssh, Reported, SameCall
<1> QED BY <1>6, <1>7, <1>8, <1>9, <1>10, <1>11, <1>12, <1>13 DEF Calls, Ssh

(* A host key: the user is asked, or the key is one we have seen.          *)
LEMMA HostKeyCalls ==
    ASSUME Kinds, Calls, events # <<>>, events' = Tail(events), UNCHANGED back,
           Head(events).is = "hostKey",
           modem' \in {SshAsks(modem, "hostkey", Head(events).n),
                       IF modem.sshMode THEN Request([modem EXCEPT !.asker = Head(events).n], "accept")
                                        ELSE modem}
    PROVE  Calls'
<1> DEFINE t == Tail(events)
           v == Head(events)
           k == modem.login
           q == modem.requests
           p == modem'.requests
<1>1. /\ Has(events, "hostKey")
      /\ Has(t, "connected") => Has(events, "connected")
      /\ Has(t, "authFailed") => Has(events, "authFailed")
      /\ ~Only(events, {"disconnected", "error"})
      /\ Bounded(events, k) => Bounded(t, k)
      /\ Older(events, k) => Older(t, k)
      /\ KeyOnce(events) => KeyOnce(t) /\ ~Has(t, "hostKey")
      /\ ~EndFirst(events)
  BY HeadTaken
<1>2. v.n \in Nat
  <2>1. v \in Event BY HeadTaken
  <2> HIDE DEF v
  <2> QED BY <2>1 DEF Event
<1>3. /\ back.at = "login" /\ back.stage = "hostkey"
      /\ KeyOnce(t) /\ ~Has(t, "hostKey") /\ ~Decided(q) /\ modem.ask # "hostkey"
  BY <1>1 DEF Calls, Ssh, OneKey
<1>4. ~modem.known /\ ~Logins(q) /\ ~Has(t, "connected")
  BY <1>1, <1>3 DEF Calls, Ssh, Knew, LoginAsked, LoggingIn
<1>5. modem.sshMode /\ Made(q, {"accept", "reject", "answer"}) BY <1>3 DEF Calls, Ssh, LoggingIn
<1>6. /\ SameLine(modem', modem) /\ SameCall(modem', modem) /\ modem'.sshMode = modem.sshMode
      /\ modem'.known = modem.known /\ modem'.login = k
      /\ \/ modem'.ask = "hostkey" /\ p = q
         \/ modem'.ask = modem.ask /\ Made(p, {"accept", "reject", "answer"}) /\ ~Logins(p) /\ DecidedOnce(p)
  <2>1. CASE modem' = SshAsks(modem, "hostkey", v.n)
    <3> HIDE DEF v
    <3>1. modem' = [modem EXCEPT !.ask = "hostkey", !.asker = v.n] BY <1>5, <2>1 DEF SshAsks
    <3> QED BY <1>2, <3>1, ModemIs DEF Kinds, SameLine, SameCall
  <2>2. CASE modem' = Request([modem EXCEPT !.asker = v.n], "accept")
    <3> DEFINE m == [modem EXCEPT !.asker = v.n]
    <3> HIDE DEF v
    <3>1. /\ m \in Modem /\ m.requests = q /\ SameLine(m, modem) /\ SameCall(m, modem)
          /\ SameSsh(m, modem)
      BY <1>2, ModemIs DEF Kinds, SameLine, SameCall, SameSsh
    <3>2. modem' = Request(m, "accept") BY <2>2
    <3> HIDE DEF m
    <3>3. "accept" \in Asking \ {"connect", "shell"} BY DEF Asking
    <3>4. SameLine(modem', m) /\ SameCall(modem', m) /\ SameSsh(modem', m)
      BY <3>1, <3>2, <3>3, RequestDoes
    <3>5. ~Logins(p) BY <1>4, <3>1, <3>2, <3>3, RequestLogins
    <3>6. Made(p, {"accept", "reject", "answer"}) /\ DecidedOnce(p)
      <4>1. "accept" \in {"accept", "reject", "answer"} OBVIOUS
      <4> QED BY <1>3, <1>5, <3>1, <3>2, <4>1, AnswerRequests
    <3> QED BY <3>1, <3>4, <3>5, <3>6 DEF SameLine, SameCall, SameSsh
  <2> QED BY <1>5, <2>1, <2>2
<1>7. Made(p, {"accept", "reject", "answer"}) /\ ~Logins(p) BY <1>4, <1>5, <1>6
<1>8. DecidedOnce(p) /\ (Decided(p) => modem'.ask # "hostkey")
  <2>1. DecidedOnce(q) BY DEF Calls, Ssh, OneKey
  <2> QED BY <1>3, <1>6, <2>1
<1>9. events' = t OBVIOUS
<1> HIDE DEF t, v, q, p
<1>10. Alone' BY <1>6, SignalAlone DEF Alone, SameLine, SameCall
<1>11. Told' BY <1>6 DEF Calls, Told, SameLine, SameCall
<1>12. Numbered' BY <1>1, <1>6, <1>9 DEF Calls, Ssh, Numbered
<1>13. OneKey' BY <1>3, <1>8, <1>9 DEF OneKey, p
<1>14. Knew' BY <1>4, <1>6 DEF Knew
<1>15. LoggingIn' BY <1>1, <1>3, <1>6, <1>7, <1>9 DEF Calls, Ssh, LoggingIn, SameCall, p
<1>16. LoginAsked' BY <1>7 DEF LoginAsked, p
<1>17. Reported' BY <1>4, <1>9 DEF Reported
<1> QED BY <1>10, <1>11, <1>12, <1>13, <1>14, <1>15, <1>16, <1>17 DEF Calls, Ssh

(* Every signal of the back-end.                                           *)
LEMMA SignalCalls == ASSUME Kinds, Calls, SshSignal PROVE Calls'
<1>1. events # <<>> /\ events' = Tail(events) /\ UNCHANGED back BY DEF SshSignal
<1>2. CASE Head(events).is = "connected" /\ modem' = SshConnected(modem)
  BY <1>1, <1>2, ConnectedCalls
<1>3. CASE Head(events).is = "disconnected" /\ modem' = SshDisconnected(modem, Head(events).n)
  BY <1>1, <1>3, DisconnectedCalls
<1>4. CASE Head(events).is = "error" /\ modem' = SshError(modem, Head(events).n)
  BY <1>1, <1>4, ErrorCalls
<1>5. CASE Head(events).is = "authFailed" /\ modem' = SshAuthFailed(modem, Head(events).n)
  BY <1>1, <1>5, AuthFailedCalls
<1>6. CASE Head(events).is = "prompt" /\ modem' = SshAsks(modem, "line", Head(events).n)
  BY <1>1, <1>6, PromptedCalls
<1>7. CASE /\ Head(events).is = "hostKey"
           /\ modem' \in {SshAsks(modem, "hostkey", Head(events).n),
                          IF modem.sshMode
                          THEN Request([modem EXCEPT !.asker = Head(events).n], "accept") ELSE modem}
  BY <1>1, <1>7, HostKeyCalls
<1> QED BY <1>2, <1>3, <1>4, <1>5, <1>6, <1>7 DEF SshSignal

(* One signal more.                                                        *)
LEMMA BecomesOne ==
    ASSUME NEW at, NEW stage, NEW n \in Nat, NEW what \in Signals, Becomes(at, stage, n, <<what>>),
           events \in Seq(Event)
    PROVE  /\ back'.at = at /\ back'.stage = stage /\ back'.n = n
           /\ events' = Append(events, [is |-> what, n |-> n])
<1>1. [i \in DOMAIN <<what>> |-> [is |-> <<what>>[i], n |-> n]] = <<[is |-> what, n |-> n]>> OBVIOUS
<1>2. events' = events \o <<[is |-> what, n |-> n]>> BY <1>1 DEF Becomes
<1>3. [is |-> what, n |-> n] \in Event BY DEF Event
<1> DEFINE v == [is |-> what, n |-> n]
<1>4. back' = [at |-> at, stage |-> stage, n |-> n] BY DEF Becomes
<1>5. back'.at = at /\ back'.stage = stage /\ back'.n = n BY <1>4
<1> HIDE DEF v
<1>6. events' = Append(events, v)
  <2>1. events' = events \o <<v>> /\ v \in Event BY <1>2, <1>3 DEF v
  <2> QED BY <2>1
<1> QED BY <1>5, <1>6 DEF v

(* Two signals more.                                                       *)
LEMMA BecomesTwo ==
    ASSUME NEW at, NEW stage, NEW n \in Nat, NEW what \in Signals, NEW then \in Signals,
           Becomes(at, stage, n, <<what, then>>), events \in Seq(Event)
    PROVE  /\ back'.at = at /\ back'.stage = stage /\ back'.n = n
           /\ events' = Append(Append(events, [is |-> what, n |-> n]), [is |-> then, n |-> n])
<1> DEFINE v == [is |-> what, n |-> n]
           w == [is |-> then, n |-> n]
<1>1. [i \in DOMAIN <<what, then>> |-> [is |-> <<what, then>>[i], n |-> n]] = <<v, w>> OBVIOUS
<1>2. events' = events \o <<v, w>> BY <1>1 DEF Becomes
<1>3. v \in Event /\ w \in Event BY DEF Event
<1>4. back' = [at |-> at, stage |-> stage, n |-> n] BY DEF Becomes
<1>5. back'.at = at /\ back'.stage = stage /\ back'.n = n BY <1>4
<1> HIDE DEF v, w
<1>6. events' = Append(Append(events, v), w) BY <1>2, <1>3
<1> QED BY <1>5, <1>6 DEF v, w

(* What has been signalled when one signal is added.                       *)
LEMMA Signalled ==
    ASSUME NEW e \in Seq(Event), NEW what \in Signals, NEW n \in Nat, NEW k \in Nat
    PROVE  LET a == Append(e, [is |-> what, n |-> n]) IN
           /\ a \in Seq(Event)
           /\ Has(a, "hostKey") <=> Has(e, "hostKey") \/ what = "hostKey"
           /\ Has(a, "connected") <=> Has(e, "connected") \/ what = "connected"
           /\ Has(a, "authFailed") <=> Has(e, "authFailed") \/ what = "authFailed"
           /\ Has(a, "disconnected") <=> Has(e, "disconnected") \/ what = "disconnected"
           /\ Only(a, {"disconnected", "error"}) <=>
                 Only(e, {"disconnected", "error"}) /\ what \in {"disconnected", "error"}
           /\ Bounded(e, k) /\ n <= k => Bounded(a, k)
           /\ Older(e, k) /\ (what \in Overs => n < k) => Older(a, k)
           /\ KeyOnce(e) /\ ~(Has(e, "hostKey") /\ what = "hostKey") => KeyOnce(a)
           /\ EndFirst(e) /\ (what = "hostKey" => Has(e, "disconnected")) => EndFirst(a)
           /\ ~Has(e, "hostKey") /\ (what = "hostKey" => Has(e, "disconnected")) => EndFirst(a)
           /\ Fresh(e, k) /\ (what = "connected" => Older(e, k)) => Fresh(a, k)
           /\ ~Has(e, "connected") /\ (what = "connected" => Older(e, k)) => Fresh(a, k)
<1> DEFINE v == [is |-> what, n |-> n]
           a == Append(e, v)
<1>1. v \in Event /\ v.is = what /\ v.n = n BY DEF Event
<1> HIDE DEF v
<1>2. /\ a \in Seq(Event)
      /\ Has(a, "hostKey") <=> Has(e, "hostKey") \/ v.is = "hostKey"
      /\ Has(a, "connected") <=> Has(e, "connected") \/ v.is = "connected"
      /\ Has(a, "authFailed") <=> Has(e, "authFailed") \/ v.is = "authFailed"
      /\ Has(a, "disconnected") <=> Has(e, "disconnected") \/ v.is = "disconnected"
      /\ Only(a, {"disconnected", "error"}) <=>
             Only(e, {"disconnected", "error"}) /\ v.is \in {"disconnected", "error"}
      /\ Bounded(a, k) <=> Bounded(e, k) /\ v.n <= k
      /\ Older(a, k) <=> Older(e, k) /\ (v.is \in Overs => v.n < k)
      /\ KeyOnce(e) /\ ~(Has(e, "hostKey") /\ v.is = "hostKey") => KeyOnce(a)
      /\ EndFirst(e) /\ (v.is = "hostKey" => Has(e, "disconnected")) => EndFirst(a)
      /\ Fresh(e, k) /\ (v.is = "connected" => Older(e, k)) => Fresh(a, k)
  BY <1>1, AppendedEvent
<1>3. ~Has(e, "hostKey") => EndFirst(e) BY DEF Has, EndFirst
<1>4. ~Has(e, "connected") => Fresh(e, k) BY DEF Has, Fresh
<1> HIDE DEF a
<1>5. LET b == a IN
      /\ b \in Seq(Event)
      /\ Has(b, "hostKey") <=> Has(e, "hostKey") \/ what = "hostKey"
      /\ Has(b, "connected") <=> Has(e, "connected") \/ what = "connected"
      /\ Has(b, "authFailed") <=> Has(e, "authFailed") \/ what = "authFailed"
      /\ Has(b, "disconnected") <=> Has(e, "disconnected") \/ what = "disconnected"
      /\ Only(b, {"disconnected", "error"}) <=>
            Only(e, {"disconnected", "error"}) /\ what \in {"disconnected", "error"}
      /\ Bounded(e, k) /\ n <= k => Bounded(b, k)
      /\ Older(e, k) /\ (what \in Overs => n < k) => Older(b, k)
      /\ KeyOnce(e) /\ ~(Has(e, "hostKey") /\ what = "hostKey") => KeyOnce(b)
      /\ EndFirst(e) /\ (what = "hostKey" => Has(e, "disconnected")) => EndFirst(b)
      /\ ~Has(e, "hostKey") /\ (what = "hostKey" => Has(e, "disconnected")) => EndFirst(b)
      /\ Fresh(e, k) /\ (what = "connected" => Older(e, k)) => Fresh(b, k)
      /\ ~Has(e, "connected") /\ (what = "connected" => Older(e, k)) => Fresh(b, k)
  BY <1>1, <1>2, <1>3, <1>4
<1> QED BY <1>5 DEF a, v

(* The request that is taken, and those that stay.                         *)
LEMMA HeadRequest ==
    ASSUME Kinds, modem.requests # <<>>
    PROVE  LET q == modem.requests
               r == Head(q)
               t == Tail(q) IN
           /\ r.n \in Nat /\ r.do \in Asking
           /\ Logins(q) <=> Logins(t) \/ r.do \in {"connect", "shell"}
           /\ Decided(q) <=> Decided(t) \/ r.do \in Decisions
           /\ Ended(q) <=> Ended(t) \/ r.do = "end"
           /\ \A D : Made(q, D) <=> Made(t, D) /\ r.do \in D
           /\ DecidedOnce(q) => DecidedOnce(t) /\ ~(Decided(t) /\ r.do \in Decisions)
           /\ \A k : LoginLast(q, k) /\ r.do \in {"connect", "shell"} => t = <<>> /\ r.n = k
           /\ \A k : LoginLast(q, k) /\ r.do \notin {"connect", "shell"} =>
                         LoginLast(t, k) /\ r.do \in {"end", "answer"}
<1>1. modem.requests \in Asked BY ModemIs DEF Kinds
<1>2. Head(modem.requests) \in Ask BY <1>1, TakenRequest
<1>3. Head(modem.requests).n \in Nat /\ Head(modem.requests).do \in Asking
  <2> HIDE DEF Asking
  <2> QED BY <1>2 DEF Ask
<1> QED BY <1>1, <1>3, TakenRequest

(* Taking a request changes nothing else of the modem.                     *)
LEMMA TakenIs ==
    ASSUME modem \in Modem, modem.requests # <<>>, modem' = [modem EXCEPT !.requests = Tail(@)]
    PROVE  /\ SameCall(modem', modem) /\ SameLine(modem', modem) /\ SameSsh(modem', modem)
           /\ modem'.requests = Tail(modem.requests)
BY ModemIs DEF SameCall, SameLine, SameSsh

(* A request the back-end has no use for, or that leaves things as they are. *)
LEMMA IgnoredSsh ==
    ASSUME Kinds, Calls, modem.requests # <<>>, modem' = [modem EXCEPT !.requests = Tail(@)],
           Head(modem.requests).do \in {"accept", "reject", "answer"}, UNCHANGED <<back, events>>
    PROVE  Ssh'
<1> DEFINE q == modem.requests
           t == Tail(q)
           r == Head(q)
           k == modem.login
           all == {"accept", "reject", "answer"}
<1>1. /\ Logins(q) <=> Logins(t)
      /\ Decided(t) => Decided(q)
      /\ Ended(q) <=> Ended(t)
      /\ Made(q, all) => Made(t, all)
      /\ DecidedOnce(q) => DecidedOnce(t)
      /\ LoginLast(q, k) => LoginLast(t, k)
  BY HeadRequest
<1>2. SameCall(modem', modem) /\ SameSsh(modem', modem) /\ modem'.requests = t
  BY TakenIs DEF Kinds
<1> HIDE DEF q, t
<1>3. Numbered' BY <1>2 DEF Calls, Ssh, Numbered, SameSsh
<1>4. OneKey' BY <1>1, <1>2 DEF Calls, Ssh, OneKey, SameSsh, q
<1>5. Knew' BY <1>2 DEF Calls, Ssh, Knew, SameSsh
<1>6. LoggingIn' BY <1>1, <1>2 DEF Calls, Ssh, LoggingIn, SameSsh, SameCall, q
<1>7. LoginAsked' BY <1>1, <1>2 DEF Calls, Ssh, LoginAsked, SameSsh, SameCall, q
<1>8. Reported' BY <1>2 DEF Calls, Ssh, Reported, SameSsh, SameCall
<1> QED BY <1>3, <1>4, <1>5, <1>6, <1>7, <1>8 DEF Ssh

(* The back-end begins the login that was asked for last.                  *)
LEMMA LoginTaken ==
    ASSUME Kinds, Calls, modem.requests # <<>>, Head(modem.requests).do \in {"connect", "shell"}
    PROVE  /\ Tail(modem.requests) = <<>> /\ Head(modem.requests).n = modem.login
           /\ modem.wanted = "ssh" /\ modem.sshMode /\ modem.ask = "none"
           /\ ~Has(events, "hostKey") /\ ~Has(events, "connected") /\ ~Has(events, "authFailed")
           /\ Only(events, {"disconnected", "error"}) /\ Older(events, modem.login)
           /\ Bounded(events, modem.login)
           /\ back.at # "login" /\ back.stage # "asking"
           /\ modem.known => Has(events, "disconnected")
           /\ KeyOnce(events)
<1> DEFINE q == modem.requests
           t == Tail(q)
           k == modem.login
<1>1. /\ Logins(q)
      /\ LoginLast(q, k) => t = <<>> /\ Head(q).n = k
      /\ Ended(q) <=> Ended(t) \/ Head(q).do = "end"
  BY HeadRequest
<1>2. /\ modem.wanted = "ssh" /\ modem.sshMode /\ modem.ask = "none" /\ LoginLast(q, k)
      /\ Only(events, {"disconnected", "error"}) /\ Older(events, k) /\ back.at # "login"
      /\ modem.known => Ended(q) \/ Has(events, "disconnected")
  BY <1>1 DEF Calls, Ssh, LoginAsked
<1>3. t = <<>> /\ Head(q).n = k BY <1>1, <1>2
<1>4. ~Ended(q)
  <2>1. ~Ended(t) BY <1>3, NoRequest
  <2> QED BY <1>1, <2>1
<1>5. ~Has(events, "hostKey") /\ ~Has(events, "connected") /\ ~Has(events, "authFailed")
  BY <1>2 DEF Only, Has
<1>6. back.stage # "asking" /\ Bounded(events, k) BY <1>2 DEF Calls, Ssh, Numbered
<1>7. KeyOnce(events) BY DEF Calls, Ssh, OneKey
<1> QED BY <1>2, <1>3, <1>4, <1>5, <1>6, <1>7

(* A login without questions (processConnection).                          *)
LEMMA ConnectSsh ==
    ASSUME Kinds, Calls, modem.requests # <<>>, modem' = [modem EXCEPT !.requests = Tail(@)],
           Head(modem.requests).do = "connect", Connect(Head(modem.requests).n)
    PROVE  Ssh'
<1> DEFINE k == modem.login
<1>1. /\ Tail(modem.requests) = <<>> /\ Head(modem.requests).n = k
      /\ modem.wanted = "ssh" /\ modem.sshMode /\ modem.ask = "none"
      /\ ~Has(events, "hostKey") /\ ~Has(events, "connected")
      /\ Older(events, k) /\ Bounded(events, k)
      /\ back.at # "login" /\ back.stage # "asking"
      /\ KeyOnce(events)
  BY LoginTaken
<1>2. SameCall(modem', modem) /\ SameSsh(modem', modem) /\ modem'.requests = <<>>
  BY <1>1, TakenIs DEF Kinds
<1>3. k \in Nat /\ events \in Seq(Event) BY ModemIs DEF Kinds
<1>4. \E what \in {"connected", "error"} :
          /\ back'.at \in {"up", "none"} /\ back'.stage = back.stage /\ back'.n = k
          /\ what = "connected" => back'.at = "up"
          /\ events' = Append(events, [is |-> what, n |-> k])
  <2>1. CASE Becomes("up", back.stage, k, <<"connected">>)
    <3>1. "connected" \in Signals BY DEF Signals
    <3> QED BY <1>3, <2>1, <3>1, BecomesOne
  <2>2. CASE Becomes("none", back.stage, k, <<"error">>)
    <3>1. "error" \in Signals BY DEF Signals
    <3> QED BY <1>3, <2>2, <3>1, BecomesOne
  <2> QED BY <1>1, <2>1, <2>2 DEF Connect
<1>5. PICK what \in {"connected", "error"} :
          /\ back'.at \in {"up", "none"} /\ back'.stage = back.stage /\ back'.n = k
          /\ events' = Append(events, [is |-> what, n |-> k])
  BY <1>4
<1>6. /\ Has(events', "hostKey") <=> Has(events, "hostKey") \/ what = "hostKey"
      /\ Bounded(events, k) /\ k <= k => Bounded(events', k)
      /\ KeyOnce(events) /\ ~(Has(events, "hostKey") /\ what = "hostKey") => KeyOnce(events')
      /\ ~Has(events, "connected") /\ (what = "connected" => Older(events, k)) => Fresh(events', k)
  <2>1. what \in Signals BY DEF Signals
  <2> QED BY <1>3, <1>5, <2>1, Signalled
<1>7. k <= k BY <1>3
<1>8. ~Decided(modem'.requests) /\ ~Logins(modem'.requests) /\ DecidedOnce(modem'.requests)
  BY <1>2, NoRequest
<1> HIDE DEF k
<1>9. Numbered' BY <1>1, <1>2, <1>5, <1>6, <1>7 DEF Numbered, SameSsh, k
<1>10. OneKey' BY <1>1, <1>2, <1>6, <1>8 DEF OneKey, SameSsh
<1>11. Knew' /\ LoggingIn' BY <1>5 DEF Knew, LoggingIn
<1>12. LoginAsked' BY <1>8 DEF LoginAsked
<1>13. Reported' BY <1>1, <1>2, <1>5, <1>6 DEF Reported, SameSsh, SameCall, k
<1> QED BY <1>9, <1>10, <1>11, <1>12, <1>13 DEF Ssh

(* An interactive login (processInteractiveConnect), which asks about the  *)
(* host key.                                                               *)
LEMMA ShellSsh ==
    ASSUME Kinds, Calls, modem.requests # <<>>, modem' = [modem EXCEPT !.requests = Tail(@)],
           Head(modem.requests).do = "shell", Shell(Head(modem.requests).n)
    PROVE  Ssh'
<1> DEFINE k == modem.login
<1>1. /\ Tail(modem.requests) = <<>> /\ Head(modem.requests).n = k
      /\ modem.wanted = "ssh" /\ modem.sshMode /\ modem.ask = "none"
      /\ ~Has(events, "hostKey") /\ ~Has(events, "connected") /\ ~Has(events, "authFailed")
      /\ Older(events, k) /\ Bounded(events, k)
      /\ modem.known => Has(events, "disconnected")
      /\ KeyOnce(events)
  BY LoginTaken
<1>2. SameCall(modem', modem) /\ SameSsh(modem', modem) /\ modem'.requests = <<>>
  BY <1>1, TakenIs DEF Kinds
<1>3. k \in Nat /\ events \in Seq(Event) BY ModemIs DEF Kinds
<1>4. \E what \in {"hostKey", "error"} :
          /\ back'.n = k /\ events' = Append(events, [is |-> what, n |-> k])
          /\ IF what = "hostKey" THEN back'.at = "login" /\ back'.stage = "hostkey"
                                 ELSE back'.at = "none" /\ back'.stage = "none"
  <2>1. CASE Becomes("login", "hostkey", k, <<"hostKey">>)
    <3>1. "hostKey" \in Signals BY DEF Signals
    <3> QED BY <1>3, <2>1, <3>1, BecomesOne
  <2>2. CASE Becomes("none", "none", k, <<"error">>)
    <3>1. "error" \in Signals BY DEF Signals
    <3> QED BY <1>3, <2>2, <3>1, BecomesOne
  <2> QED BY <1>1, <2>1, <2>2 DEF Shell
<1>5. PICK what \in {"hostKey", "error"} :
          /\ back'.n = k /\ events' = Append(events, [is |-> what, n |-> k])
          /\ IF what = "hostKey" THEN back'.at = "login" /\ back'.stage = "hostkey"
                                 ELSE back'.at = "none" /\ back'.stage = "none"
  BY <1>4
<1>6. /\ Has(events', "hostKey") <=> Has(events, "hostKey") \/ what = "hostKey"
      /\ Has(events', "connected") <=> Has(events, "connected") \/ what = "connected"
      /\ Has(events', "authFailed") <=> Has(events, "authFailed") \/ what = "authFailed"
      /\ Bounded(events, k) /\ k <= k => Bounded(events', k)
      /\ Older(events, k) /\ (what \in Overs => k < k) => Older(events', k)
      /\ KeyOnce(events) /\ ~(Has(events, "hostKey") /\ what = "hostKey") => KeyOnce(events')
      /\ ~Has(events, "hostKey") /\ (what = "hostKey" => Has(events, "disconnected")) => EndFirst(events')
  <2>1. what \in Signals BY DEF Signals
  <2> QED BY <1>3, <1>5, <2>1, Signalled
<1>7. k <= k BY <1>3
<1>8. /\ ~Decided(modem'.requests) /\ ~Logins(modem'.requests) /\ DecidedOnce(modem'.requests)
      /\ Made(modem'.requests, {"accept", "reject", "answer"})
  BY <1>2, NoRequest
<1>9. back'.at = "login" => what = "hostKey" /\ "hostKey" \notin Overs BY <1>5 DEF Overs
<1> HIDE DEF k
<1>10. Numbered' BY <1>1, <1>2, <1>5, <1>6, <1>7 DEF Numbered, SameSsh, k
<1>11. OneKey' BY <1>1, <1>2, <1>5, <1>6, <1>8 DEF OneKey, SameSsh
<1>12. Knew' BY <1>1, <1>2, <1>6, <1>9 DEF Knew, SameSsh
<1>13. LoggingIn' BY <1>1, <1>2, <1>5, <1>6, <1>8, <1>9 DEF LoggingIn, SameSsh, SameCall, k
<1>14. LoginAsked' BY <1>8 DEF LoginAsked
<1>15. Reported' BY <1>1, <1>6 DEF Reported
<1> QED BY <1>10, <1>11, <1>12, <1>13, <1>14, <1>15 DEF Ssh

(* What is asked for while a login waits, and what may not be.             *)
LEMMA EndSshSsh ==
    ASSUME Kinds, Calls, modem.requests # <<>>, modem' = [modem EXCEPT !.requests = Tail(@)],
           Head(modem.requests).do = "end", Becomes("none", back.stage, back.n, <<"disconnected">>)
    PROVE  Ssh'
<1> DEFINE k == modem.login
           q == modem.requests
           t == Tail(q)
           n == back.n
<1>1. /\ Logins(q) <=> Logins(t)
      /\ Decided(t) => Decided(q)
      /\ DecidedOnce(q) => DecidedOnce(t)
      /\ LoginLast(q, k) => LoginLast(t, k)
      /\ ~Made(q, {"accept", "reject", "answer"})
  BY HeadRequest
<1>2. SameCall(modem', modem) /\ SameSsh(modem', modem) /\ modem'.requests = t
  BY TakenIs DEF Kinds
<1>3. k \in Nat /\ n \in Nat /\ n <= k /\ events \in Seq(Event)
  BY ModemIs DEF Kinds, Calls, Ssh, Numbered
<1>4. "disconnected" \in Signals BY DEF Signals
<1>5. /\ back'.at = "none" /\ back'.stage = back.stage /\ back'.n = n
      /\ events' = Append(events, [is |-> "disconnected", n |-> n])
  BY <1>3, <1>4, BecomesOne
<1>6. /\ Has(events', "hostKey") <=> Has(events, "hostKey")
      /\ Has(events', "connected") <=> Has(events, "connected")
      /\ Has(events', "disconnected")
      /\ Only(events, {"disconnected", "error"}) => Only(events', {"disconnected", "error"})
      /\ Bounded(events, k) => Bounded(events', k)
      /\ Older(events, k) /\ n < k => Older(events', k)
      /\ KeyOnce(events) => KeyOnce(events')
      /\ Fresh(events, k) => Fresh(events', k)
  BY <1>3, <1>4, <1>5, Signalled
<1>7. ~(back.at = "login" /\ back.stage # "none") BY <1>1 DEF Calls, Ssh, LoggingIn
<1>8. back.stage # "asking" BY <1>7 DEF Calls, Ssh, Numbered
<1>9. ~Decided(q) /\ ~Has(events, "hostKey") /\ modem.ask # "hostkey"
  BY <1>7 DEF Calls, Ssh, OneKey
<1> HIDE DEF q, t, n
<1>10. Numbered' BY <1>2, <1>3, <1>5, <1>6, <1>8 DEF Calls, Ssh, Numbered, SameSsh
<1>11. OneKey' BY <1>1, <1>2, <1>6, <1>9 DEF Calls, Ssh, OneKey, SameSsh, q
<1>12. Knew' /\ LoggingIn' BY <1>5 DEF Knew, LoggingIn
<1>13. LoginAsked' BY <1>1, <1>2, <1>5, <1>6 DEF Calls, Ssh, LoginAsked, SameSsh, SameCall, q, n
<1>14. Reported' BY <1>2, <1>5, <1>6 DEF Calls, Ssh, Reported, SameSsh, SameCall
<1> QED BY <1>10, <1>11, <1>12, <1>13, <1>14 DEF Ssh

(* A login that waits for an answer: nothing else is under way.            *)
LEMMA Waiting ==
    ASSUME Kinds, Calls, back.at = "login", back.stage # "none"
    PROVE  /\ modem.wanted = "ssh" /\ modem.sshMode
           /\ ~Has(events, "connected") /\ ~Has(events, "authFailed")
           /\ Made(modem.requests, {"accept", "reject", "answer"}) /\ ~Logins(modem.requests)
           /\ back.n = modem.login /\ Older(events, modem.login) /\ Bounded(events, modem.login)
           /\ KeyOnce(events) /\ DecidedOnce(modem.requests)
           /\ modem.known => Has(events, "hostKey")
<1>1. LoggingIn /\ LoginAsked /\ Numbered /\ OneKey /\ Knew BY DEF Calls, Ssh
<1> QED BY <1>1 DEF LoggingIn, LoginAsked, Numbered, OneKey, Knew

(* The user's decision about the host key: only the login that asked gets  *)
(* it.                                                                     *)
LEMMA DecisionSsh ==
    ASSUME Kinds, Calls, modem.requests # <<>>, modem' = [modem EXCEPT !.requests = Tail(@)],
           Head(modem.requests).do \in {"accept", "reject"},
           HostKeyDecision(Head(modem.requests).do = "accept")
    PROVE  Ssh'
<1> DEFINE k == modem.login
           q == modem.requests
           t == Tail(q)
<1>1. CASE UNCHANGED <<back, events>>
  <2>1. Head(modem.requests).do \in {"accept", "reject", "answer"} OBVIOUS
  <2> QED BY <1>1, <2>1, IgnoredSsh
<1>2. CASE ~UNCHANGED <<back, events>>
  <2>1. /\ Decided(q)
        /\ Logins(t) => Logins(q)
        /\ Made(q, {"accept", "reject", "answer"}) => Made(t, {"accept", "reject", "answer"})
        /\ DecidedOnce(q) => DecidedOnce(t) /\ ~Decided(t)
    BY HeadRequest DEF Decisions
  <2>2. SameCall(modem', modem) /\ SameSsh(modem', modem) /\ modem'.requests = t
    BY TakenIs DEF Kinds
  <2>3. /\ back.at = "login" /\ back.stage = "hostkey"
        /\ ~Has(events, "hostKey") /\ modem.ask # "hostkey"
    BY <2>1 DEF Calls, Ssh, OneKey
  <2>4. /\ modem.wanted = "ssh" /\ modem.sshMode
        /\ ~Has(events, "connected") /\ ~Has(events, "authFailed")
        /\ Made(q, {"accept", "reject", "answer"}) /\ ~Logins(q)
        /\ back.n = k /\ Older(events, k) /\ Bounded(events, k)
        /\ KeyOnce(events) /\ DecidedOnce(q)
        /\ ~modem.known
    BY <2>3, Waiting
  <2>5. k \in Nat /\ events \in Seq(Event) BY ModemIs DEF Kinds
  <2>6. \E what \in {"prompt", "disconnected"} :
            /\ back'.n = k /\ events' = Append(events, [is |-> what, n |-> k])
            /\ IF what = "prompt" THEN back'.at = "login" /\ back'.stage = "asking"
                                  ELSE back'.at = "none" /\ back'.stage = "hostkey"
    <3>1. CASE Becomes(back.at, "asking", back.n, <<"prompt">>)
      <4>1. "prompt" \in Signals BY DEF Signals
      <4> QED BY <2>3, <2>4, <2>5, <3>1, <4>1, BecomesOne
    <3>2. CASE Becomes("none", back.stage, back.n, <<"disconnected">>)
      <4>1. "disconnected" \in Signals BY DEF Signals
      <4> QED BY <2>3, <2>4, <2>5, <3>2, <4>1, BecomesOne
    <3> QED BY <1>2, <3>1, <3>2 DEF HostKeyDecision
  <2>7. PICK what \in {"prompt", "disconnected"} :
            /\ back'.n = k /\ events' = Append(events, [is |-> what, n |-> k])
            /\ IF what = "prompt" THEN back'.at = "login" /\ back'.stage = "asking"
                                  ELSE back'.at = "none" /\ back'.stage = "hostkey"
    BY <2>6
  <2>8. /\ ~Has(events', "hostKey") /\ ~Has(events', "connected") /\ ~Has(events', "authFailed")
        /\ Bounded(events, k) /\ k <= k => Bounded(events', k)
        /\ Older(events, k) /\ (what \in Overs => k < k) => Older(events', k)
        /\ KeyOnce(events')
    <3>1. what \in Signals BY DEF Signals
    <3> QED BY <2>3, <2>4, <2>5, <2>7, <3>1, Signalled
  <2>9. k <= k BY <2>5
  <2>10. back'.at = "login" => what = "prompt" /\ "prompt" \notin Overs BY <2>7 DEF Overs
  <2> HIDE DEF k, q, t
  <2>11. Numbered' BY <2>2, <2>4, <2>7, <2>8, <2>9 DEF Numbered, SameSsh, k
  <2>12. OneKey' BY <2>1, <2>2, <2>3, <2>4, <2>8 DEF OneKey, SameSsh, q
  <2>13. Knew' BY <2>2, <2>4 DEF Knew, SameSsh
  <2>14. LoggingIn' BY <2>1, <2>2, <2>4, <2>7, <2>8, <2>10 DEF LoggingIn, SameSsh, SameCall, k
  <2>15. LoginAsked' BY <2>1, <2>2, <2>4 DEF LoginAsked, t
  <2>16. Reported' BY <2>8 DEF Reported
  <2> QED BY <2>11, <2>12, <2>13, <2>14, <2>15, <2>16 DEF Ssh
<1> QED BY <1>1, <1>2

(* An answer to the login's question.                                      *)
LEMMA AnsweredSsh ==
    ASSUME Kinds, Calls, modem.requests # <<>>, modem' = [modem EXCEPT !.requests = Tail(@)],
           Head(modem.requests).do = "answer", AuthAnswer
    PROVE  Ssh'
<1> DEFINE k == modem.login
           q == modem.requests
           t == Tail(q)
<1>1. CASE UNCHANGED <<back, events>> BY <1>1, IgnoredSsh
<1>2. CASE ~UNCHANGED <<back, events>>
  <2>1. /\ Decided(t) => Decided(q)
        /\ Logins(t) => Logins(q)
        /\ Made(q, {"accept", "reject", "answer"}) => Made(t, {"accept", "reject", "answer"})
        /\ DecidedOnce(q) => DecidedOnce(t)
    BY HeadRequest
  <2>2. SameCall(modem', modem) /\ SameSsh(modem', modem) /\ modem'.requests = t
    BY TakenIs DEF Kinds
  <2>3. back.at = "login" /\ back.stage = "asking" BY <1>2 DEF AuthAnswer, Calls, Ssh, Numbered
  <2>4. /\ modem.wanted = "ssh" /\ modem.sshMode
        /\ ~Has(events, "connected") /\ ~Has(events, "authFailed")
        /\ Made(q, {"accept", "reject", "answer"}) /\ ~Logins(q)
        /\ back.n = k /\ Older(events, k) /\ Bounded(events, k)
        /\ KeyOnce(events) /\ DecidedOnce(q)
        /\ modem.known => Has(events, "hostKey")
    BY <2>3, Waiting
  <2>5. ~Decided(q) /\ ~Has(events, "hostKey") /\ modem.ask # "hostkey"
    BY <2>3 DEF Calls, Ssh, OneKey
  <2>6. k \in Nat /\ events \in Seq(Event) BY ModemIs DEF Kinds
  <2>a. {"prompt", "connected", "error", "authFailed"} \subseteq Signals BY DEF Signals
  <2>7. \E what \in {"prompt", "connected", "error", "authFailed"} :
            /\ back'.n = k /\ events' = Append(events, [is |-> what, n |-> k])
            /\ what = "prompt" => back'.at = "login" /\ back'.stage = "asking"
            /\ what # "prompt" => back'.stage = "none"
            /\ what = "connected" => back'.at = "up"
    <3>1. CASE Becomes(back.at, "asking", back.n, <<"prompt">>)
      BY <2>3, <2>4, <2>6, <2>a, <3>1, BecomesOne
    <3>2. CASE Becomes("up", "none", back.n, <<"connected">>)
      BY <2>4, <2>6, <2>a, <3>2, BecomesOne
    <3>3. CASE Becomes("none", "none", back.n, <<"error">>) BY <2>4, <2>6, <2>a, <3>3, BecomesOne
    <3>4. CASE Becomes(back.at, "none", back.n, <<"authFailed">>)
      BY <2>4, <2>6, <2>a, <3>4, BecomesOne
    <3> QED BY <1>2, <3>1, <3>2, <3>3, <3>4 DEF AuthAnswer
  <2>8. PICK what \in {"prompt", "connected", "error", "authFailed"} :
            /\ back'.n = k /\ events' = Append(events, [is |-> what, n |-> k])
            /\ what = "prompt" => back'.at = "login" /\ back'.stage = "asking"
            /\ what # "prompt" => back'.stage = "none"
            /\ what = "connected" => back'.at = "up"
    BY <2>7
  <2>9. /\ ~Has(events', "hostKey")
        /\ Has(events', "connected") <=> what = "connected"
        /\ Has(events', "authFailed") <=> what = "authFailed"
        /\ Bounded(events, k) /\ k <= k => Bounded(events', k)
        /\ Older(events, k) /\ (what \in Overs => k < k) => Older(events', k)
        /\ KeyOnce(events') /\ Fresh(events', k)
    BY <2>4, <2>5, <2>6, <2>8, <2>a, Signalled
  <2>10. k <= k BY <2>6
  <2>11. back'.stage # "none" => what = "prompt" /\ "prompt" \notin Overs BY <2>8 DEF Overs
  <2> HIDE DEF k, q, t
  <2>12. Numbered' BY <2>2, <2>4, <2>8, <2>9, <2>10 DEF Numbered, SameSsh, k
  <2>13. OneKey' BY <2>1, <2>2, <2>4, <2>5, <2>9 DEF OneKey, SameSsh, q
  <2>14. Knew' BY <2>2, <2>4, <2>5 DEF Knew, SameSsh
  <2>15. LoggingIn' BY <2>1, <2>2, <2>4, <2>8, <2>9, <2>11 DEF LoggingIn, SameSsh, SameCall, k
  <2>16. LoginAsked' BY <2>1, <2>2, <2>4 DEF LoginAsked, t
  <2>17. Reported' BY <2>2, <2>4, <2>8, <2>9 DEF Reported, SameSsh, SameCall, k
  <2> QED BY <2>12, <2>13, <2>14, <2>15, <2>16, <2>17 DEF Ssh
<1> QED BY <1>1, <1>2

(* Every request that the back-end takes.                                  *)
LEMMA TakenCalls == ASSUME Kinds, Calls, BackendTakes PROVE Calls'
<1> DEFINE r == Head(modem.requests)
<1>1. modem.requests # <<>> /\ modem' = [modem EXCEPT !.requests = Tail(@)] BY DEF BackendTakes
<1>2. \/ r.do = "connect" /\ Connect(r.n)
      \/ r.do = "shell" /\ Shell(r.n)
      \/ r.do = "end" /\ Becomes("none", back.stage, back.n, <<"disconnected">>)
      \/ r.do \in {"accept", "reject"} /\ HostKeyDecision(r.do = "accept")
      \/ r.do = "answer" /\ AuthAnswer
  BY DEF BackendTakes
<1>3. Ssh'
  <2>1. CASE r.do = "connect" /\ Connect(r.n) BY <1>1, <2>1, ConnectSsh
  <2>2. CASE r.do = "shell" /\ Shell(r.n) BY <1>1, <2>2, ShellSsh
  <2>3. CASE r.do = "end" /\ Becomes("none", back.stage, back.n, <<"disconnected">>)
    BY <1>1, <2>3, EndSshSsh
  <2>4. CASE r.do \in {"accept", "reject"} /\ HostKeyDecision(r.do = "accept")
    BY <1>1, <2>4, DecisionSsh
  <2>5. CASE r.do = "answer" /\ AuthAnswer BY <1>1, <2>5, AnsweredSsh
  <2> QED BY <1>2, <2>1, <2>2, <2>3, <2>4, <2>5
<1>4. /\ SameCall(modem', modem) /\ SameLine(modem', modem) /\ SameSsh(modem', modem)
      /\ modem'.requests = Tail(modem.requests)
  BY <1>1, TakenIs DEF Kinds
<1>5. Told' BY <1>4 DEF Calls, Told, SameCall, SameLine, SameSsh
<1>6. Alone'
  <2>1. Made(modem.requests, {"answer"}) => Made(Tail(modem.requests), {"answer"}) /\ r.do = "answer"
    BY <1>1, HeadRequest
  <2>2. modem.wanted \in {"tcp", "caller"} => back'.at = "none" /\ events' = <<>>
    <3> SUFFICES ASSUME modem.wanted \in {"tcp", "caller"} PROVE back'.at = "none" /\ events' = <<>> OBVIOUS
    <3>1. back.at = "none" /\ events = <<>> /\ Made(modem.requests, {"answer"})
      BY DEF Calls, Alone
    <3>2. AuthAnswer BY <1>2, <2>1, <3>1
    <3> QED BY <3>1, <3>2 DEF AuthAnswer
  <2> HIDE DEF r
  <2> QED BY <1>4, <2>1, <2>2 DEF Calls, Alone, SameCall, SameLine, SameSsh
<1> QED BY <1>3, <1>5, <1>6 DEF Calls

(* The server closes, or fails.                                            *)
LEMMA LostCalls == ASSUME Kinds, Calls, BackendLost PROVE Calls'
<1> DEFINE k == modem.login
           n == back.n
<1>1. k \in Nat /\ n \in Nat /\ n <= k /\ events \in Seq(Event)
  BY ModemIs DEF Kinds, Calls, Ssh, Numbered
<1>2. "error" \in Signals /\ "disconnected" \in Signals BY DEF Signals
<1>3. back.at = "up" /\ modem' = modem BY DEF BackendLost
<1>4. \E e \in {events, Append(events, [is |-> "error", n |-> n])} :
          /\ back'.at = "none" /\ back'.stage = back.stage /\ back'.n = n
          /\ events' = Append(e, [is |-> "disconnected", n |-> n])
  <2>1. CASE Becomes("none", back.stage, n, <<"disconnected">>) BY <1>1, <1>2, <2>1, BecomesOne
  <2>2. CASE Becomes("none", back.stage, n, <<"error", "disconnected">>)
    <3> HIDE DEF n
    <3>1. /\ back'.at = "none" /\ back'.stage = back.stage /\ back'.n = n
          /\ events' = Append(Append(events, [is |-> "error", n |-> n]), [is |-> "disconnected", n |-> n])
      BY <1>1, <1>2, <2>2, BecomesTwo
    <3> QED BY <3>1
  <2> QED BY <2>1, <2>2 DEF BackendLost
<1>5. PICK e \in {events, Append(events, [is |-> "error", n |-> n])} :
          /\ back'.at = "none" /\ back'.stage = back.stage /\ back'.n = n
          /\ events' = Append(e, [is |-> "disconnected", n |-> n])
  BY <1>4
<1>6. /\ e \in Seq(Event)
      /\ Has(e, "hostKey") <=> Has(events, "hostKey")
      /\ Has(e, "connected") <=> Has(events, "connected")
      /\ Only(events, {"disconnected", "error"}) => Only(e, {"disconnected", "error"})
      /\ Bounded(events, k) => Bounded(e, k)
      /\ Older(events, k) /\ n < k => Older(e, k)
      /\ KeyOnce(events) => KeyOnce(e)
      /\ Fresh(events, k) => Fresh(e, k)
  <2>1. CASE e = events BY <1>1, <2>1
  <2>2. CASE e = Append(events, [is |-> "error", n |-> n]) BY <1>1, <1>2, <2>2, Signalled
  <2> QED BY <2>1, <2>2
<1>7. /\ Has(events', "hostKey") <=> Has(e, "hostKey")
      /\ Has(events', "connected") <=> Has(e, "connected")
      /\ Has(events', "disconnected")
      /\ Only(e, {"disconnected", "error"}) => Only(events', {"disconnected", "error"})
      /\ Bounded(e, k) => Bounded(events', k)
      /\ Older(e, k) /\ n < k => Older(events', k)
      /\ KeyOnce(e) => KeyOnce(events')
      /\ Fresh(e, k) => Fresh(events', k)
  BY <1>1, <1>2, <1>5, <1>6, Signalled
<1> HIDE DEF n
<1>8. Alone' BY <1>3 DEF Calls, Alone
<1>9. Told' BY <1>3 DEF Calls, Told
<1>10. Numbered' BY <1>1, <1>3, <1>5, <1>6, <1>7 DEF Calls, Ssh, Numbered
<1>11. OneKey' BY <1>3, <1>6, <1>7 DEF Calls, Ssh, OneKey
<1>12. Knew' /\ LoggingIn' BY <1>5 DEF Knew, LoggingIn
<1>13. LoginAsked' BY <1>3, <1>5, <1>6, <1>7 DEF Calls, Ssh, LoginAsked, n
<1>14. Reported' BY <1>3, <1>5, <1>6, <1>7 DEF Calls, Ssh, Reported
<1> QED BY <1>8, <1>9, <1>10, <1>11, <1>12, <1>13, <1>14 DEF Calls, Ssh

-----------------------------------------------------------------------------
(* The steps of the line and of the user.                                  *)
LEMMA UntouchedCalls ==
    ASSUME Calls, UNCHANGED <<back, events>>, SameSsh(modem', modem), modem'.tcp = modem.tcp,
           modem'.wanted = modem.wanted, modem'.requests = modem.requests,
           SameCall(modem', modem) \/ modem'.told = "offline"
    PROVE  Calls'
<1>1. Ssh' BY SshUntouched DEF Calls
<1>2. Alone' BY DEF Calls, Alone, SameSsh
<1>3. Told' BY DEF Calls, Told, SameSsh, SameCall
<1> QED BY <1>1, <1>2, <1>3 DEF Calls

(* A step that concerns no call.                                           *)
LEMMA SameCalls == ASSUME Calls, UNCHANGED <<modem, back, events>> PROVE Calls'
BY UntouchedCalls DEF SameSsh, SameCall

(* The connection of a telnet call fails, or it ends.                      *)
LEMMA LineEnds ==
    ASSUME Kinds, Calls, UNCHANGED <<back, events>>, SameSsh(modem', modem),
           modem'.requests = modem.requests, modem'.tcp = "idle",
           modem'.wanted = IF modem.wanted = "ssh" THEN "ssh" ELSE "none",
           modem'.told = "offline"
    PROVE  Calls'
<1>1. Ssh' BY SshUntouched DEF Calls
<1>2. Alone' BY DEF Alone
<1>3. Told' BY DEF Told
<1> QED BY <1>1, <1>2, <1>3 DEF Calls

(* ATH and DTR.                                                            *)
LEMMA HangUpCalls ==
    ASSUME Kinds, Calls, Clean', modem' \in HangUp(modem), NoteHangUp(FALSE), UNCHANGED <<back, events>>
    PROVE  Calls'
<1>1. ~LoginUnderWay /\ ~TcpUnderWay BY DEF Clean, NoteHangUp, Note, If
<1>2. /\ Freed(modem', modem)
      /\ modem.tcp = "up" => modem'.tcp \in {"closing", "idle"}
      /\ modem.tcp # "up" => modem'.tcp = modem.tcp
  BY HangUpDoes DEF Kinds
<1>3. modem'.tcp \notin {"dialing", "up", "dying"} BY <1>1, <1>2 DEF TcpUnderWay
<1> QED BY <1>1, <1>2, <1>3, FreedCalls

(* ATA, and S0's timer: a caller is answered unless none rings.            *)
LEMMA CallerCalls ==
    ASSUME Kinds, Calls, Clean', NoteAnswer, UNCHANGED <<back, events>>,
           \/ modem' = modem
           \/ modem.caller /\ modem' \in {Answer(modem), [Answer(modem) EXCEPT !.ring = FALSE]}
    PROVE  Calls'
<1>1. CASE modem' = modem BY <1>1, SameCalls
<1>2. CASE modem.caller /\ modem' \in {Answer(modem), [Answer(modem) EXCEPT !.ring = FALSE]}
  <2>1. ~SshUnfinished /\ ~modem.sshMode BY <1>2 DEF Clean, NoteAnswer, Note, If
  <2> DEFINE a == Answer(modem)
  <2>2. /\ a \in Modem /\ a.tcp = "up" /\ a.online /\ a.wanted = "caller"
        /\ SameSsh(a, modem) /\ a.requests = modem.requests
    BY AnswerDoes DEF Kinds
  <2>3. modem' \in {a, [a EXCEPT !.ring = FALSE]} BY <1>2
  <2> HIDE DEF a
  <2>4. /\ modem'.tcp = "up" /\ modem'.online /\ modem'.wanted = "caller"
        /\ SameSsh(modem', modem) /\ modem'.requests = modem.requests
    BY <2>2, <2>3, ModemIs DEF SameSsh
  <2> QED BY <2>1, <2>4, AnswerCalls
<1> QED BY <1>1, <1>2

(* Every AT command,                                                       *)
LEMMA CommandCalls ==
    ASSUME Kinds, Calls, Clean', NEW c, AtCommand(c), UNCHANGED <<back, events>>
    PROVE  Calls'
<1>1. CASE c \in Dials /\ Dial(c)
  <2>1. ~LoginUnderWay /\ (c = "tcp" => ~SshUnfinished)
    BY <1>1 DEF Dial, Clean, NoteDial, Note, If
  <2>2. modem' = StartCall(modem, c) BY <1>1 DEF Dial
  <2>3. CASE c = "tcp" BY <2>1, <2>2, <2>3, TelnetCalls
  <2>4. CASE c \in {"ssh", "shell"} BY <2>1, <2>2, <2>4, SshCalls
  <2> QED BY <1>1, <2>3, <2>4 DEF Dials
<1>2. CASE NoteAnswer /\ modem' = (IF modem.caller THEN [Answer(modem) EXCEPT !.ring = FALSE] ELSE modem)
  BY <1>2, CallerCalls
<1>3. CASE modem' = GoOnline(modem)
  <2>1. /\ SameSsh(modem', modem) /\ modem'.tcp = modem.tcp
        /\ modem'.wanted = modem.wanted /\ modem'.requests = modem.requests
        /\ modem'.told = "online" => modem'.online /\ modem.tcp = "up"
    BY <1>3, ModemIs DEF Kinds, GoOnline, Tell, SameSsh
  <2>2. Ssh' BY <2>1, SshUntouched DEF Calls
  <2>3. Alone' BY <2>1 DEF Calls, Alone, SameSsh
  <2>4. Told' BY <2>1 DEF Calls, Alone, Told
  <2> QED BY <2>2, <2>3, <2>4 DEF Calls
<1>4. CASE modem' \in HangUp(modem) /\ NoteHangUp(FALSE) BY <1>4, HangUpCalls
<1>5. CASE modem' = Reset(modem) /\ NoteHangUp(TRUE)
  <2>1. ~LoginUnderWay BY <1>5 DEF Clean, NoteHangUp, Note, If
  <2>2. Freed(modem', modem) /\ modem'.tcp = "idle" BY <1>5, ResetDoes DEF Kinds
  <2> QED BY <2>1, <2>2, FreedCalls
<1>6. CASE modem' = [modem EXCEPT !.s0 = (c = "S0=1")]
  <2>1. /\ SameSsh(modem', modem) /\ SameCall(modem', modem) /\ modem'.tcp = modem.tcp
        /\ modem'.requests = modem.requests
    BY <1>6, ModemIs DEF Kinds, SameSsh, SameCall
  <2> QED BY <2>1, UntouchedCalls DEF SameCall
<1> QED BY <1>1, <1>2, <1>3, <1>4, <1>5, <1>6 DEF AtCommand

(* and everything else posted to the GUI thread.                           *)
LEMMA DeliverCalls == ASSUME Kinds, Calls, Clean', Deliver PROVE Calls'
<1>1. PICK p : \/ p[1] = "bytes" /\ Dispatch(p[2])
               \/ p[1] = "at" /\ AtCommand(p[2])
               \/ p[1] = "hangup" /\ modem' \in HangUp(modem) /\ NoteHangUp(FALSE)
               \/ p[1] = "timer" /\ UNCHANGED modem
  BY DEF Deliver
<1>2. UNCHANGED <<back, events>> BY DEF Deliver, ssh
<1>3. CASE Dispatch(p[2])
  <2>1. CASE modem.ask # "none" /\ PromptBytes BY <1>2, <2>1, PromptCalls
  <2>2. CASE UNCHANGED modem BY <1>2, <2>2, SameCalls
  <2> QED BY <1>3, <2>1, <2>2 DEF Dispatch
<1>4. CASE AtCommand(p[2]) BY <1>2, <1>4, CommandCalls
<1>5. CASE modem' \in HangUp(modem) /\ NoteHangUp(FALSE) BY <1>2, <1>5, HangUpCalls
<1>6. CASE UNCHANGED modem BY <1>2, <1>6, SameCalls
<1> QED BY <1>1, <1>3, <1>4, <1>5, <1>6

(* A fresh emulation run.                                                  *)
LEMMA ResetCalls == ASSUME Kinds, Calls, Clean', ResetSession PROVE Calls'
<1> DEFINE e == EndSsh(modem)
           s == [e EXCEPT !.ask = "none", !.sshMode = FALSE, !.online = FALSE]
           a == Abort(s)
<1>1. ~LoginUnderWay /\ UNCHANGED <<back, events>>
  BY DEF Clean, ResetSession, User, Note, If, ssh
<1>2. e \in Modem /\ SameSsh(e, modem) BY EndDoes DEF Kinds
<1> HIDE DEF e
<1>3. /\ s \in Modem /\ s.requests = e.requests /\ s.ask = "none" /\ ~s.sshMode /\ ~s.online
      /\ s.known = modem.known /\ s.login = modem.login
  BY <1>2, ModemIs DEF SameSsh
<1> HIDE DEF s
<1>4. /\ a \in Modem /\ a.tcp = "idle" /\ a.requests = s.requests /\ SameSsh(a, s) /\ ~a.online
  BY <1>3, AbortDoes DEF SameCall
<1>5. modem' = [a EXCEPT !.told = "offline", !.wanted = "none"] BY DEF ResetSession, e, s
<1> HIDE DEF a
<1>6. /\ modem' \in Modem /\ modem'.tcp = "idle" /\ modem'.requests = e.requests
      /\ ~modem'.sshMode /\ modem'.ask = "none" /\ modem'.known = modem.known
      /\ modem'.login = modem.login /\ ~modem'.online
      /\ modem'.told = "offline" /\ modem'.wanted = "none"
  BY <1>3, <1>4, <1>5, ModemIs DEF SameSsh
<1>7. Freed(modem', modem) BY <1>6 DEF Freed, e
<1> QED BY <1>1, <1>6, <1>7, FreedCalls

(* The modem is switched off.                                              *)
LEMMA DisableCalls == ASSUME Kinds, Calls, Clean', Disable PROVE Calls'
<1> DEFINE t == [EndSsh(modem) EXCEPT !.sshMode = FALSE]
<1>1. ~LoginUnderWay /\ ~TcpUnderWay /\ UNCHANGED <<back, events>>
  BY DEF Clean, Disable, User, NoteHangUp, Note, If, ssh
<1>2. /\ t \in Modem /\ SameCall(t, modem) /\ SameLine(t, modem)
      /\ ~t.sshMode /\ t.ask = modem.ask /\ t.known = modem.known /\ t.login = modem.login
      /\ t.requests = EndSsh(modem).requests
  BY TelnetDoes DEF Kinds
<1>3. \E m \in DisconnectFromHost(t) :
          modem' = Tell([m EXCEPT !.enabled = FALSE, !.wanted = "none"], "offline")
  BY DEF Disable
<1> HIDE DEF t
<1>4. PICK m \in DisconnectFromHost(t) :
          modem' = Tell([m EXCEPT !.enabled = FALSE, !.wanted = "none"], "offline")
  BY <1>3
<1>5. Hung(m, t) BY <1>2, <1>4, DisconnectDoes
<1>6. /\ m \in Modem /\ m.requests = t.requests /\ SameSsh(m, t) /\ (m.online => modem.online)
      /\ m.tcp \notin {"dialing", "up", "dying"}
  BY <1>1, <1>2, <1>5 DEF Hung, SameCall, SameLine, TcpUnderWay
<1>7. /\ modem' \in Modem /\ modem'.tcp = m.tcp /\ modem'.requests = m.requests /\ SameSsh(modem', m)
      /\ modem'.online = m.online /\ modem'.told = "offline" /\ modem'.wanted = "none"
  BY <1>4, <1>6, ModemIs DEF Tell, SameSsh
<1>8. Freed(modem', modem) BY <1>2, <1>6, <1>7 DEF Freed, SameSsh
<1> QED BY <1>1, <1>6, <1>7, <1>8, FreedCalls

Consistent == Clean => Calls

(* What Calls says stays true unless a race is noted.                      *)
LEMMA CallsNext == Consistent /\ Typed /\ [Next]_vars => Consistent'
<1> SUFFICES ASSUME Consistent, Typed, [Next]_vars, Clean' PROVE Calls' BY DEF Consistent
<1>0. Kinds BY DEF Kinds, Typed, Rings, Queues
<1>a. Calls
  <2>1. upset \subseteq upset' BY NextNotes DEF Typed, Flags
  <2> QED BY <2>1 DEF Clean, Consistent
<1>b. modem \in Modem BY <1>0 DEF Kinds
<1> USE <1>0, <1>a
<1>1. CASE Deliver BY <1>1, DeliverCalls
<1>2. CASE SshSignal BY <1>2, SignalCalls
<1>3. CASE EscapeTriggered
  <2>1. /\ SameSsh(modem', modem) /\ modem'.tcp = modem.tcp /\ modem'.wanted = modem.wanted
        /\ modem'.requests = modem.requests /\ (SameCall(modem', modem) \/ modem'.told = "offline")
    BY <1>b, <1>3, ModemIs DEF EscapeTriggered, Tell, SameSsh, SameCall
  <2> QED BY <1>3, <2>1, UntouchedCalls DEF EscapeTriggered, ssh
<1>4. CASE SocketConnected
  <2>1. modem.tcp = "dialing" /\ modem' = Tell([modem EXCEPT !.tcp = "up", !.online = TRUE], "online")
    BY <1>4 DEF SocketConnected, Calls, Alone
  <2>2. /\ SameSsh(modem', modem) /\ modem'.tcp = "up" /\ modem'.online /\ modem'.wanted = modem.wanted
        /\ modem'.requests = modem.requests
    BY <1>b, <2>1, ModemIs DEF Tell, SameSsh
  <2>3. UNCHANGED <<back, events>> BY <1>4 DEF SocketConnected, Socket, ssh
  <2>4. Ssh' BY <2>2, <2>3, SshUntouched DEF Calls
  <2>5. Alone' BY <2>1, <2>2, <2>3 DEF Calls, Alone, SameSsh
  <2>6. Told' BY <2>1, <2>2 DEF Calls, Alone, Told
  <2> QED BY <2>4, <2>5, <2>6 DEF Calls
<1>5. CASE SocketError
  <2>1. modem.tcp = "dialing" /\ modem.wanted = "tcp" /\ modem.told # "online"
    BY <1>5 DEF SocketError, TcpUnderWay, Calls, Alone, Told
  <2>2. /\ SameSsh(modem', modem) /\ modem'.tcp = "idle" /\ modem'.wanted = "none"
        /\ modem'.requests = modem.requests /\ modem'.told = "offline"
    BY <1>b, <1>5, <2>1, ModemIs DEF SocketError, SameSsh
  <2> QED BY <1>5, <2>1, <2>2, LineEnds DEF SocketError, Socket, ssh
<1>6. CASE SocketEnds
  <2>1. /\ SameSsh(modem', modem) /\ modem'.tcp = "idle"
        /\ modem'.wanted = IF modem.wanted = "ssh" THEN "ssh" ELSE "none"
        /\ modem'.requests = modem.requests /\ modem'.told = "offline"
    BY <1>b, <1>6, AbortDoes DEF SocketEnds
  <2> QED BY <1>6, <2>1, LineEnds DEF SocketEnds, Socket, ssh
<1>7. CASE NewConnection
  <2>1. modem' = [modem EXCEPT !.caller = TRUE, !.ring = ~modem.s0 \/ @] /\ UNCHANGED <<back, events>>
    BY <1>7 DEF NewConnection, ssh
  <2>2. /\ SameSsh(modem', modem) /\ modem'.tcp = modem.tcp /\ modem'.wanted = modem.wanted
        /\ modem'.requests = modem.requests /\ SameCall(modem', modem)
    BY <1>b, <2>1, ModemIs DEF SameSsh, SameCall
  <2> QED BY <2>1, <2>2, UntouchedCalls
<1>8. CASE CallerGone \/ RingTimeout
  <2>1. /\ SameSsh(modem', modem) /\ modem'.tcp = modem.tcp /\ modem'.wanted = modem.wanted
        /\ modem'.requests = modem.requests /\ (SameCall(modem', modem) \/ modem'.told = "offline")
    BY <1>b, <1>8, ModemIs DEF CallerGone, RingTimeout, Tell, SameSsh, SameCall
  <2> QED BY <1>8, <2>1, UntouchedCalls DEF CallerGone, RingTimeout, Socket, ssh
<1>9. CASE AutoAnswerTriggered
  <2>1. modem' = (IF modem.caller THEN Answer(modem) ELSE modem) /\ NoteAnswer /\ UNCHANGED <<back, events>>
    BY <1>9 DEF AutoAnswerTriggered, ssh
  <2> QED BY <2>1, CallerCalls
<1>10. CASE BackendTakes BY <1>10, TakenCalls
<1>11. CASE BackendLost BY <1>11, LostCalls
<1>12. CASE ResetSession BY <1>12, ResetCalls
<1>13. CASE Disable BY <1>13, DisableCalls
<1>14. CASE Enable
  <2>1. /\ SameSsh(modem', modem) /\ modem'.tcp = modem.tcp /\ modem'.wanted = modem.wanted
        /\ modem'.requests = modem.requests /\ SameCall(modem', modem)
    BY <1>b, <1>14, ModemIs DEF Enable, SameSsh, SameCall
  <2> QED BY <1>14, <2>1, UntouchedCalls DEF Enable, ssh
<1>15. CASE UNCHANGED <<modem, back, events>> BY <1>15, SameCalls
<1> QED
  BY <1>1, <1>2, <1>3, <1>4, <1>5, <1>6, <1>7, <1>8, <1>9, <1>10, <1>11, <1>12, <1>13, <1>14, <1>15
  DEF Next, Gui, Types, Write, Stream, Escape, DropDtr, Typing, InjectDial, User, vars, ssh

(* The Atari was told CONNECT and nothing since: its bytes go to the call  *)
(* it asked for (ToldTruth), for any number of calls, logins and signals   *)
(* still queued, except after the races ToldTruth names.                   *)
THEOREM ToldIsTrue == Spec => []ToldTruth
<1>1. Init => Consistent
  <2> SUFFICES ASSUME Init PROVE Calls BY DEF Consistent
  <2>1. /\ modem.tcp = "idle" /\ modem.told = "offline" /\ modem.wanted = "none" /\ modem.ask = "none"
        /\ modem.requests = <<>> /\ modem.login = 0 /\ events = <<>>
        /\ back.at = "none" /\ back.stage = "none" /\ back.n = 0
    BY DEF Init
  <2>2. Alone /\ Told BY <2>1 DEF Alone, Told
  <2>3. Ssh
    <3>1. back.n <= modem.login BY <2>1
    <3> QED BY <2>1, <3>1, NoRequest, NoEvent
            DEF Ssh, Numbered, OneKey, Knew, LoggingIn, LoginAsked, Reported
  <2> QED BY <2>2, <2>3 DEF Calls
<1>2. Consistent /\ Typed /\ [Next]_vars => Consistent' BY CallsNext
<1>3. Consistent /\ Typed => ToldTruth
  <2>1. Typed => modem.sshMode \in BOOLEAN BY ModemIs DEF Typed, Rings
  <2> QED BY <2>1 DEF Consistent, Calls, Clean, Alone, Told, ToldTruth
<1> QED BY <1>1, <1>2, <1>3, CallTyped, PTL DEF Spec
=============================================================================
