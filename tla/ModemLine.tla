----------------------------- MODULE ModemLine ------------------------------
(***************************************************************************)
(* The R: device's way from the network to the Atari (rdevice.cpp), and    *)
(* the stream mode of the SIO thread that drives it (sioworker.cpp). The   *)
(* GUI thread puts what arrives, and the modem's own answers, into one of  *)
(* two buffers, by the modem's mode; the SIO thread empties one of them    *)
(* command by command and the other in stream mode, and moves what is left *)
(* from one to the other when the Atari changes modes.                     *)
(*                                                                         *)
(* Every section under m_bufferMutex is a step of its own, and so is every *)
(* assignment to state and m_isStreaming, which no mutex protects.         *)
(***************************************************************************)
EXTENDS Naturals, Sequences, FiniteSets, SequencesExt

CONSTANTS MaxText,  \* bound: pieces of text put into the buffers
          MaxBytes  \* bound: bytes the Atari sends in stream mode

ASSUME LineAssumption == MaxText \in Nat /\ MaxBytes \in Nat

Kinds == {"tcp", "ssh", "own"}   \* telnet data, SSH data, result codes and echo
Text  == Kinds \X (1 .. MaxText)

VARIABLES
    pc,         \* where the SIO thread is; "off" when emulation is stopped
    gui,        \* "free", or "ok": the GUI thread has an OK left to answer
    state,      \* RDevice::state
    streaming,  \* SioWorker::m_isStreaming
    held,       \* less than kResumeHoldMs since the stream began
    enabled,    \* m_isEnabled
    call,       \* the kind of call there is, "tcp" or "ssh"
    tx,         \* m_txBuffer, what READ commands are answered from
    net,        \* m_networkToSioBuffer, what stream mode sends
    got,        \* what the Atari has received
    issued,     \* how many pieces of text there have been
    dropped,    \* those thrown away on purpose, by a hang-up or a reset
    command,    \* the Atari asserts COMMAND, and retries until it is served
    wire,       \* bytes from the Atari nobody has read yet (0 or 1)
    typed,      \* bytes dispatched to the GUI thread, not yet delivered
    sent,       \* bytes the Atari has sent so far
    lost,       \* bytes the SIO thread has thrown away
    upset       \* the races that have happened, see Races

buffers == <<tx, net, got, issued, dropped>>
atari   == <<command, wire, typed, sent, lost>>
modem   == <<state, streaming, held, enabled, call>>
vars    == <<pc, gui, modem, buffers, atari, upset>>

(* "window"   text was put aside between the two steps in which            *)
(*            handleStream empties m_txBuffer and changes the mode         *)
(* "closing"  the Atari sent a byte and asserted COMMAND between the two   *)
(*            looks runStreamMode takes at the line                        *)
(* "disabled" the user switched the R: device off in stream mode, and      *)
(*            has not started emulation again since                        *)
Races == {"window", "closing", "disabled"}

PCs == {"off", "top", "merge", "flip", "speed", "raw", "guard", "keep", "back"}

(* Types; and no byte from the Atari is delivered twice.                   *)
TypeOK ==
    /\ pc \in PCs /\ gui \in {"free", "ok"}
    /\ state \in {"command", "stream"}
    /\ call \in {"tcp", "ssh"}
    /\ {streaming, held, enabled, command} \subseteq BOOLEAN
    /\ \A s \in {tx, net, got} : \A i \in DOMAIN s : s[i] \in Text
    /\ issued \in 0 .. MaxText /\ dropped \subseteq Text
    /\ wire \in 0 .. 1 /\ sent \in 0 .. MaxBytes
    /\ typed \in Nat /\ lost \in Nat /\ wire + typed + lost <= sent
    /\ upset \subseteq Races

-----------------------------------------------------------------------------
(* The GUI thread: sections under m_bufferMutex.                           *)
Issue(k, t) == /\ issued < MaxText
               /\ t = <<k, issued + 1>>
               /\ issued' = issued + 1
               /\ upset' = IF pc = "flip" THEN upset \cup {"window"} ELSE upset

(* onSocketReadyRead: always by way of m_txBuffer (parseTelnet).           *)
SocketReadyRead ==
    \E t \in Text :
        /\ gui = "free" /\ call = "tcp" /\ Issue("tcp", t)
        /\ IF state = "stream"
           THEN net' = net \o Append(tx, t) /\ tx' = <<>>
           ELSE tx' = Append(tx, t) /\ UNCHANGED net
        /\ UNCHANGED <<pc, gui, modem, got, dropped, atari>>

PutByMode(t) == IF state = "stream" THEN net' = Append(net, t) /\ UNCHANGED tx
                                    ELSE tx' = Append(tx, t) /\ UNCHANGED net

SshDataReceived ==
    \E t \in Text : /\ gui = "free" /\ call = "ssh" /\ Issue("ssh", t) /\ PutByMode(t)
                    /\ UNCHANGED <<pc, gui, modem, got, dropped, atari>>

(* sendResultCode and sendAtResponse, for RING, CONNECT, NO CARRIER or an  *)
(* AT command's answer, and for the OK a hang-up still owes.               *)
SendResult ==
    \E t \in Text : /\ Issue("own", t) /\ PutByMode(t)
                    /\ gui' = "free"
                    /\ UNCHANGED <<pc, modem, got, dropped, atari>>

(* dispatchToNetwork, delivered: the byte goes out, or is echoed, and the  *)
(* echo goes to the stream's buffer whatever the mode is by now.           *)
Dispatch ==
    /\ gui = "free" /\ typed > 0 /\ typed' = typed - 1
    /\ \/ UNCHANGED <<net, issued, upset>>
       \/ \E t \in Text : Issue("own", t) /\ net' = Append(net, t)
    /\ UNCHANGED <<pc, gui, modem, tx, got, dropped, command, wire, sent, lost>>

Clear == /\ tx' = <<>> /\ net' = <<>>
         /\ dropped' = dropped \cup ToSet(tx \o net)

(* hangup and ATZ empty both buffers, and answer OK when the mutex is free *)
(* again.                                                                  *)
HangUp ==
    /\ gui = "free" /\ issued < MaxText /\ gui' = "ok"
    /\ Clear
    /\ UNCHANGED <<pc, modem, got, issued, atari, upset>>

(* setEnabled, from the options.                                           *)
Disable ==
    /\ gui = "free" /\ enabled
    /\ enabled' = FALSE /\ state' = "command"
    /\ tx' = <<>> /\ dropped' = dropped \cup ToSet(tx)
    /\ upset' = IF state = "stream" THEN upset \cup {"disabled"} ELSE upset
    /\ UNCHANGED <<pc, gui, streaming, held, call, net, got, issued, atari>>

Enable ==
    /\ gui = "free" /\ ~enabled /\ enabled' = TRUE
    /\ UNCHANGED <<pc, gui, state, streaming, held, call, buffers, atari, upset>>

(* Emulation is switched on: resetSession, then SioWorker::start, which    *)
(* opens the port anew.                                                    *)
Start == /\ pc = "off" /\ gui = "free" /\ pc' = "top"
         /\ state' = "command" /\ Clear
         /\ wire' = 0 /\ upset' = upset \ {"disabled"}
         /\ UNCHANGED <<gui, held, enabled, call, got, issued, command, typed, sent, lost>>

StartTrusting  == Start /\ UNCHANGED streaming   \* mutant: m_isStreaming is not reset

StartEmulation == Start /\ streaming' = FALSE

Gui == SocketReadyRead \/ SshDataReceived \/ SendResult \/ Dispatch \/ HangUp
       \/ Disable \/ Enable \/ StartEmulation

-----------------------------------------------------------------------------
(* The SIO thread, reading command frames. A frame begins with a flush of  *)
(* what is left on the line (readCommandFrame).                            *)
Frame == /\ pc = "top" /\ ~streaming /\ command
         /\ command' = FALSE /\ wire' = 0 /\ lost' = lost + wire
         /\ UNCHANGED <<gui, modem, issued, dropped, typed, sent, upset>>

(* handleRead.                                                             *)
ServeRead ==
    /\ Frame /\ enabled
    /\ \E k \in 0 .. Len(tx) : /\ got' = got \o SubSeq(tx, 1, k)
                               /\ tx' = SubSeq(tx, k + 1, Len(tx))
    /\ UNCHANGED <<pc, net>>

(* Any other command, a dropped one, another device's.                     *)
ServeOther == Frame /\ UNCHANGED <<pc, tx, net, got>>

(* handleStream: the buffers are joined, the mode changes, the worker and  *)
(* its port follow and what waits on the line goes to the network.         *)
ServeStream == Frame /\ enabled /\ pc' = "merge" /\ UNCHANGED <<tx, net, got>>

MergeForgets ==   \* mutant: command-mode data is dropped
    /\ pc = "merge" /\ pc' = "flip"
    /\ tx' = <<>>
    /\ UNCHANGED <<gui, modem, net, got, issued, dropped, atari, upset>>

MergeNothing ==   \* mutant: command-mode data stays where it is
    /\ pc = "merge" /\ pc' = "flip"
    /\ UNCHANGED <<gui, modem, buffers, atari, upset>>

Merge ==
    /\ pc = "merge" /\ pc' = "flip"
    /\ net' = tx \o net /\ tx' = <<>>
    /\ UNCHANGED <<gui, modem, got, issued, dropped, atari, upset>>

Flip ==
    /\ pc = "flip" /\ pc' = "speed"
    /\ state' = "stream" /\ held' = TRUE
    /\ UNCHANGED <<gui, streaming, enabled, call, buffers, atari, upset>>

ReadKept ==   \* mutant: a byte is dispatched and stays on the line
    /\ typed' = typed + wire
    /\ UNCHANGED <<wire, lost>>

(* readRawFrame, then processSerialData, which does nothing unless the     *)
(* modem is in stream mode.                                                *)
ReadWire == /\ wire' = 0
            /\ IF state = "stream" THEN typed' = typed + wire /\ UNCHANGED lost
                                   ELSE lost' = lost + wire /\ UNCHANGED typed

SpeedOnly ==   \* mutant: onChangeBaudRate forgets m_isStreaming
    /\ pc = "speed" /\ pc' = "top"
    /\ ReadWire
    /\ UNCHANGED <<gui, modem, buffers, command, sent, upset>>

Speed ==
    /\ pc = "speed" /\ pc' = "top"
    /\ streaming' = TRUE
    /\ ReadWire
    /\ UNCHANGED <<gui, state, held, enabled, call, buffers, command, sent, upset>>

-----------------------------------------------------------------------------
(* The SIO thread in stream mode: a pass of runStreamMode.                 *)
DequeueTwice ==   \* mutant: the buffer is sent, but not emptied
    /\ pc = "top" /\ streaming /\ pc' = "raw"
    /\ got' = IF held THEN got ELSE got \o net
    /\ UNCHANGED <<gui, modem, tx, net, issued, dropped, atari, upset>>

Dequeue ==
    /\ pc = "top" /\ streaming /\ pc' = "raw"
    /\ IF held THEN UNCHANGED <<got, net>>
               ELSE got' = got \o net /\ net' = <<>>
    /\ UNCHANGED <<gui, modem, tx, issued, dropped, atari, upset>>

(* forceCommandMode changes the mode only if it is the stream mode.        *)
Leaving == command /\ state = "stream"

RawHasty ==   \* mutant: COMMAND is looked at before the line is read
    /\ pc = "raw"
    /\ pc' = IF Leaving THEN "keep" ELSE "top"
    /\ state' = IF Leaving THEN "command" ELSE state
    /\ UNCHANGED <<gui, streaming, held, enabled, call, buffers, atari, upset>>

(* COMMAND is looked at only on a pass that read nothing.                  *)
Raw ==
    /\ pc = "raw" /\ pc' = IF wire > 0 THEN "top" ELSE "guard"
    /\ ReadWire
    /\ UNCHANGED <<gui, modem, buffers, command, sent, upset>>

Guard ==
    /\ pc = "guard"
    /\ pc' = IF Leaving THEN "keep" ELSE "top"
    /\ state' = IF Leaving THEN "command" ELSE state
    /\ upset' = IF Leaving /\ wire > 0 THEN upset \cup {"closing"} ELSE upset
    /\ UNCHANGED <<gui, streaming, held, enabled, call, buffers, atari>>

KeepBehind ==   \* mutant: what the stream did not deliver goes to the end
    /\ pc = "keep" /\ pc' = "back"
    /\ tx' = tx \o net /\ net' = <<>>
    /\ UNCHANGED <<gui, modem, got, issued, dropped, atari, upset>>

Keep ==
    /\ pc = "keep" /\ pc' = "back"
    /\ tx' = net \o tx /\ net' = <<>>
    /\ UNCHANGED <<gui, modem, got, issued, dropped, atari, upset>>

BackSilent ==   \* mutant: the worker is not told that the stream is over
    /\ pc = "back" /\ pc' = "top"
    /\ UNCHANGED <<gui, modem, buffers, atari, upset>>

Back ==
    /\ pc = "back" /\ pc' = "top"
    /\ streaming' = FALSE
    /\ UNCHANGED <<gui, state, held, enabled, call, buffers, atari, upset>>

(* The loop ends between two passes when the user stops emulation.         *)
StopEmulation == /\ pc = "top" /\ pc' = "off"
                 /\ UNCHANGED <<gui, modem, buffers, atari, upset>>

HoldEnds == /\ held /\ held' = FALSE
            /\ UNCHANGED <<pc, gui, state, streaming, enabled, call, buffers, atari, upset>>

Serve  == ServeRead \/ ServeOther \/ ServeStream
Worker == Serve \/ Merge \/ Flip \/ Speed \/ Dequeue \/ Raw \/ Guard \/ Keep \/ Back

-----------------------------------------------------------------------------
(* The Atari: in stream mode it sends bytes, and to do anything else it    *)
(* asserts COMMAND.                                                        *)
Asserts == /\ ~command /\ command' = TRUE
           /\ UNCHANGED <<pc, gui, modem, buffers, wire, typed, sent, lost, upset>>

Types == /\ streaming /\ pc # "off" /\ ~command /\ wire = 0 /\ sent < MaxBytes
         /\ wire' = 1 /\ sent' = sent + 1
         /\ UNCHANGED <<pc, gui, modem, buffers, command, typed, lost, upset>>

Init ==
    /\ pc = "off" /\ gui = "free"
    /\ state = "command" /\ streaming = FALSE /\ held = FALSE /\ enabled \in BOOLEAN
    /\ call \in {"tcp", "ssh"}
    /\ tx = <<>> /\ net = <<>> /\ got = <<>> /\ issued = 0 /\ dropped = {}
    /\ command = FALSE /\ wire = 0 /\ typed = 0 /\ sent = 0 /\ lost = 0 /\ upset = {}

Next == Gui \/ Worker \/ StopEmulation \/ HoldEnds \/ Asserts \/ Types

Spec == Init /\ [][Next]_vars /\ WF_vars(Worker) /\ WF_vars(HoldEnds)

-----------------------------------------------------------------------------
(* Every piece of text is in one place: with the Atari, in one of the two  *)
(* buffers, or thrown away on purpose. Neither a change of modes nor the   *)
(* GUI thread between two of its steps loses a piece or shows it twice     *)
(* (handleStream, forceCommandMode, dequeueNetworkData, handleRead).       *)
Conserved ==
    LET kept == got \o net \o tx
    IN  /\ IsInjective(kept) /\ ToSet(kept) \cap dropped = {}
        /\ {t[2] : t \in ToSet(kept) \cup dropped} = 1 .. issued

Of(k, s) ==   \* the pieces of one kind
    LET upTo[n \in 0 .. Len(s)] ==
            IF n = 0 THEN <<>> ELSE IF s[n][1] = k THEN Append(upTo[n - 1], s[n]) ELSE upTo[n - 1]
    IN  upTo[Len(s)]

(* A telnet call is a pipe, through any number of changes of modes, even   *)
(* when data arrives in the middle of one.                                 *)
Pipe == INSTANCE ModemPipe WITH queue <- Of("tcp", net \o tx), got <- Of("tcp", got)

PipeInOrder == Pipe!Spec

(* An SSH call's data stays in order too, unless some of it came between   *)
(* the two steps in which handleStream empties m_txBuffer and changes the  *)
(* mode: onSshDataReceived, unlike onSocketReadyRead, leaves that piece in *)
(* m_txBuffer and sends later ones past it.                                *)
SshInOrder ==
    LET line == got \o net \o tx
        Ssh  == {i \in DOMAIN line : line[i][1] = "ssh"}
    IN  "window" \notin upset => \A i, j \in Ssh : i < j => line[i][2] < line[j][2]

(* In stream mode no text waits in the buffer that only READ empties (the  *)
(* comment in handleStream: "dropping it loses the block a terminal left   *)
(* in flight when it stepped out to write disk"), with the same exception. *)
CarriedOver == pc = "top" /\ state = "stream" /\ "window" \notin upset => tx = <<>>

(* Between two passes the modem and the worker agree on the mode, unless   *)
(* setEnabled changed the modem's alone.                                   *)
SidesAgree == pc \in {"top", "raw", "guard"} /\ "disabled" \notin upset
                  => (streaming <=> state = "stream")

(* A byte the Atari sent in stream mode reaches the network side even when *)
(* COMMAND follows at once, as after a transfer's last byte, unless both   *)
(* came between runStreamMode's two looks at the line.                     *)
ByteKept == [][upset \cap {"closing", "disabled"} = {} => lost' = lost]_vars

(* The Atari that wants to talk SIO is heard (runStreamMode: "The Atari    *)
(* asserting COMMAND means it wants to talk SIO again"), unless the modem  *)
(* was switched off in stream mode.                                        *)
AtariHeard == command ~> (~command \/ pc = "off" \/ "disabled" \in upset)

(* The same, as the comment says it, with no exception.                    *)
AtariAlwaysHeard == command ~> (~command \/ pc = "off")

(* What waits for the stream is sent, as soon as the hold is over, unless  *)
(* the Atari leaves the stream first.                                      *)
Drained == (state = "stream" /\ net # <<>>)
               ~> (net = <<>> \/ state = "command" \/ pc = "off")
=============================================================================
