----------------------------- MODULE RunControl -----------------------------
(***************************************************************************)
(* Who drives the serial line. Disk emulation (SioWorker) and the cassette *)
(* player (CassetteWorker) are threads that each open the line through a   *)
(* port object of their own; the engine (engine.cpp, the GUI thread)       *)
(* starts and stops them, pauses one for the other and restarts emulation  *)
(* when the settings change.                                               *)
(*                                                                         *)
(* A slot of the engine is a sequence of calls, kept in todo: it may block *)
(* in a wait() or pump the event queue half-way. The threads talk back by  *)
(* queued signals. Port objects are numbered as they are allocated; a port *)
(* object somebody replaced without deleting it stays open.                *)
(***************************************************************************)
EXTENDS Naturals, Sequences, FiniteSets, FiniteSetsExt

CONSTANTS MaxPorts,   \* bound: port objects allocated and not deleted
          MaxEvents   \* bound: queued signals before the user is held back

ASSUME RunAssumption == MaxPorts \in Nat \ {0} /\ MaxEvents \in Nat \ {0}

Ports  == 1 .. MaxPorts
NoPort == 0

VARIABLES
    sio,        \* SioWorker: its thread, mustTerminate, mPort, the port it reads
    tape,       \* m_casWorker: is one loaded, its thread, its unlocked mustTerminate, mPort
    open,       \* the port objects that hold the line open
    cancelled,  \* the port objects with mCanceled set
    emulating,  \* m_emulationRunning
    restart,    \* m_restartSioAfterStop
    resume,     \* m_casWasRunning
    events,     \* signals queued for the engine
    todo,       \* the calls the current slot of the engine has still to make
    intent,     \* what the user asked for last: "pressed", "on", "off", "tape", "any"
    asked,      \* has anybody stopped the tape since it last started?
    upset       \* the unusual things that have happened, see Disturbances

line   == <<open, cancelled>>
engine == <<emulating, restart, resume>>
ghost  == <<intent, asked, upset>>
vars   == <<sio, tape, line, engine, events, todo, ghost>>

(* "unheard"  the user acted, or the engine toggled emulation, before the  *)
(*            engine had heard that a thread started or ended              *)
(* "stopping" the user acted while emulation was on its way down           *)
(* "late"     a tape was stopped when its player no longer looked, as in   *)
(*            the half second after the last byte                          *)
(* "speed"    the port refused a tape's baud rate                          *)
Disturbances == {"unheard", "stopping", "late", "speed"}

(* Types; and a thread that runs has its port: wait() deletes it, but only *)
(* when the thread has ended.                                              *)
TypeOK ==
    /\ sio \in [thread : {"idle", "starting", "opening", "polling", "reading"},
                stop : BOOLEAN, port : Ports \cup {NoPort}, reading : Ports \cup {NoPort}]
    /\ tape \in [loaded : BOOLEAN, thread : {"idle", "opening", "playing", "ending"},
                 stop : BOOLEAN, port : Ports \cup {NoPort}]
    /\ sio.thread # "idle" => sio.port # NoPort
    /\ tape.thread # "idle" => tape.port # NoPort
    /\ open \subseteq Ports /\ cancelled \subseteq Ports
    /\ {emulating, restart, resume, asked} \subseteq BOOLEAN
    /\ events \in Seq({"started", "finished", "casFinished"})
    /\ todo \in Seq({"toggle", "start", "sioWait", "sioJoined", "stopped", "pump", "tapeWait",
                     "tapeJoined", "play", "eject", "resume", "load"})
    /\ intent \in {"pressed", "on", "off", "tape", "any"} /\ upset \subseteq Disturbances

Running(f)    == todo # <<>> /\ Head(todo) = f
Return(calls) == todo' = calls \o Tail(todo)

(* new StandardSerialPortBackend: any object nobody holds.                 *)
Free   == Ports \ (open \cup {sio.port, sio.reading, tape.port})
NewPort == Min(Free)
Spare   == Free # {}     \* bound: there is one

(* close() also cancels; wait() deletes the object, which closes it.       *)
Close(p)  == open' = open \ {p} /\ cancelled' = cancelled \cup {p}
Delete(p) == open' = open \ {p} /\ cancelled' = cancelled \ {p}

-----------------------------------------------------------------------------
(* SioWorker's functions, called by the engine.                            *)

(* requestStop; wait() begins with the same two statements.                *)
AskStopGently == /\ sio' = [sio EXCEPT !.stop = TRUE]   \* mutant: no cancel()
                 /\ UNCHANGED cancelled
AskStop == /\ sio' = [sio EXCEPT !.stop = TRUE]
           /\ cancelled' = cancelled \cup ({sio.port} \ {NoPort})

(* start(): a port object replaces the last one, deleted or not, and       *)
(* QThread::start does nothing for a thread that is running.               *)
SioStart ==
    /\ Running("start") /\ Spare
    /\ sio' = [sio EXCEPT !.port = NewPort, !.stop = FALSE,
                          !.thread = IF @ = "idle" THEN "starting" ELSE @]
    /\ cancelled' = cancelled \ {NewPort}
    /\ Return(<<>>)
    /\ UNCHANGED <<tape, open, engine, events, ghost>>

SioWait ==
    /\ Running("sioWait")
    /\ AskStop
    /\ Return(<<"sioJoined">>)
    /\ UNCHANGED <<tape, open, engine, events, ghost>>

(* Mutant: a wait that gives up, and deletes the port all the same. *)
SioGivenUp ==
    /\ Running("sioJoined")
    /\ sio' = [sio EXCEPT !.port = NoPort]
    /\ Delete(sio.port)
    /\ Return(<<>>)
    /\ UNCHANGED <<tape, engine, events, ghost>>

SioJoined ==
    /\ Running("sioJoined") /\ sio.thread = "idle"
    /\ sio' = [sio EXCEPT !.port = NoPort]
    /\ Delete(sio.port)
    /\ Return(<<>>)
    /\ UNCHANGED <<tape, engine, events, ghost>>

(* CassetteWorker::wait: mustTerminate is a mutex, unlocked to stop.       *)
TapeWait ==
    /\ Running("tapeWait")
    /\ tape' = [tape EXCEPT !.stop = TRUE]
    /\ cancelled' = cancelled \cup ({tape.port} \ {NoPort})
    /\ asked' = TRUE
    /\ upset' = IF tape.thread \in {"idle", "ending"} THEN upset \cup {"late"} ELSE upset
    /\ Return(<<"tapeJoined">>)
    /\ UNCHANGED <<sio, open, engine, events, intent>>

(* Mutant: the port of a stopped player is deleted, but not closed. *)
TapeJoinedOpen ==
    /\ Running("tapeJoined") /\ tape.thread = "idle"
    /\ tape' = [tape EXCEPT !.port = NoPort]
    /\ Return(<<>>)
    /\ UNCHANGED <<sio, line, engine, events, ghost>>

TapeJoined ==
    /\ Running("tapeJoined") /\ tape.thread = "idle"
    /\ tape' = [tape EXCEPT !.port = NoPort]
    /\ Delete(tape.port)
    /\ Return(<<>>)
    /\ UNCHANGED <<sio, engine, events, ghost>>

-----------------------------------------------------------------------------
(* The engine's own functions.                                             *)
TapeRuns == tape.loaded /\ tape.thread # "idle"

(* A thread has started or ended, and the engine does not know yet.        *)
Unheard == events # <<>> \/ (sio.thread # "idle" /\ ~emulating)

(* What a press of the button amounts to is decided when toggleSio looks.  *)
Takes(wish) == intent' = IF intent = "pressed" THEN wish ELSE intent

(* toggleSio: a tape that plays is stopped, for good; emulation that runs  *)
(* is asked to stop; anything else starts it.                              *)
StopTapeForNow == Return(<<"tapeWait">>) /\ UNCHANGED resume   \* mutant
StopTape       == resume' = FALSE /\ Return(<<"tapeWait">>)

Toggle ==
    /\ Running("toggle")
    /\ \/ /\ TapeRuns
          /\ StopTape
          /\ Takes("off")
          /\ UNCHANGED <<sio, cancelled>>
       \/ /\ ~TapeRuns /\ emulating
          /\ AskStop
          /\ Return(<<>>)
          /\ Takes("off")
          /\ UNCHANGED resume
       \/ /\ ~TapeRuns /\ ~emulating
          /\ Return(<<"start">>)
          /\ Takes("on")
          /\ UNCHANGED <<sio, cancelled, resume>>
    /\ upset' = IF Unheard THEN upset \cup {"unheard"} ELSE upset
    /\ UNCHANGED <<tape, open, emulating, restart, events, asked>>

(* The rest of sioFinished, after its wait(). *)
StoppedUnseen ==   \* mutant: a restart leaves m_emulationRunning set
    /\ Running("stopped")
    /\ emulating' = restart /\ restart' = FALSE
    /\ Return(IF restart THEN <<"toggle">> ELSE <<>>)
    /\ UNCHANGED <<sio, tape, line, resume, events, ghost>>

Stopped ==
    /\ Running("stopped")
    /\ emulating' = FALSE /\ restart' = FALSE
    /\ Return(IF restart THEN <<"toggle">> ELSE <<>>)
    /\ UNCHANGED <<sio, tape, line, resume, events, ghost>>

(* The end of loaderPlayCas: the player opens the line itself.             *)
Play ==
    /\ Running("play") /\ Spare
    /\ tape' = [tape EXCEPT !.thread = "opening", !.port = NewPort]
    /\ cancelled' = cancelled \ {NewPort}
    /\ asked' = FALSE
    /\ Return(<<>>)
    /\ UNCHANGED <<sio, open, engine, events, intent, upset>>

(* loaderEject, up to the device table; loaderLoadCas makes a new player.  *)
Eject ==
    /\ Running("eject")
    /\ Return(IF TapeRuns THEN <<"tapeWait", "load", "resume">> ELSE <<"load", "resume">>)
    /\ UNCHANGED <<sio, tape, line, engine, events, ghost>>

Load ==
    /\ Running("load")
    /\ \E new \in BOOLEAN :
         tape' = [loaded |-> new, thread |-> "idle", stop |-> FALSE, port |-> NoPort]
    /\ Return(<<>>)
    /\ UNCHANGED <<sio, line, engine, events, ghost>>

ResumeForgets ==   \* mutant: m_casWasRunning is cleared before it is tested
    /\ Running("resume")
    /\ resume' = FALSE
    /\ Return(IF resume' /\ ~emulating THEN <<"toggle">> ELSE <<>>)
    /\ UNCHANGED <<sio, tape, line, emulating, restart, events, ghost>>

Resume ==
    /\ Running("resume")
    /\ resume' = FALSE
    /\ Return(IF resume /\ ~emulating THEN <<"toggle">> ELSE <<>>)
    /\ UNCHANGED <<sio, tape, line, emulating, restart, events, ghost>>

(* qApp->processEvents(), and the event loop when no slot is running.      *)
Slot(e) == CASE e = "finished"    -> <<"sioWait", "stopped">>
             [] e = "casFinished" -> <<"resume">>
             [] e = "started"     -> <<>>

Deliver(rest) ==
    /\ events # <<>>
    /\ events' = Tail(events)
    /\ emulating' = (emulating \/ Head(events) = "started")
    /\ todo' = Slot(Head(events)) \o rest
    /\ UNCHANGED <<sio, tape, line, restart, resume, ghost>>

EventLoop == todo = <<>> /\ Deliver(<<>>)

Pump == /\ Running("pump")
        /\ \/ Deliver(todo)
           \/ /\ events = <<>>
              /\ Return(<<>>)
              /\ UNCHANGED <<sio, tape, line, engine, events, ghost>>

EngineCall == \/ SioStart \/ SioWait \/ SioJoined \/ TapeWait \/ TapeJoined
              \/ Toggle \/ Stopped \/ Play \/ Eject \/ Load \/ Resume \/ Pump

-----------------------------------------------------------------------------
(* The user, and the timer that starts emulation when a cable shows up.    *)
Stopping == sio.thread # "idle" /\ emulating /\ sio.stop

Room(n) == Cardinality(Free) >= n   \* bound: the port objects what follows may take

Acts(calls, wish) ==
    /\ todo = <<>> /\ todo' = calls
    /\ Len(events) < MaxEvents
    /\ intent' = wish
    /\ upset' = upset \cup (IF Unheard THEN {"unheard"} ELSE {})
                     \cup (IF Stopping THEN {"stopping"} ELSE {})

PressToggle ==
    /\ Room(2)
    /\ Acts(<<"toggle">>, "pressed")
    /\ UNCHANGED <<sio, tape, line, engine, events, asked>>

PressPlayAtOnce ==   \* mutant: play without waiting for the SIO thread
    /\ Room(3)
    /\ tape.loaded /\ tape.thread = "idle"
    /\ resume' = emulating
    /\ Acts((IF emulating THEN <<"toggle">> ELSE <<>>) \o <<"play">>,
            IF emulating THEN "tape" ELSE "any")
    /\ UNCHANGED <<sio, tape, line, emulating, restart, events, asked>>

PressPlay ==
    /\ Room(3)
    /\ tape.loaded /\ tape.thread = "idle"
    /\ resume' = emulating
    /\ Acts((IF emulating THEN <<"toggle", "sioWait", "pump">> ELSE <<>>) \o <<"play">>,
            IF emulating THEN "tape" ELSE "any")
    /\ UNCHANGED <<sio, tape, line, emulating, restart, events, asked>>

(* A new tape, an executable, or the loader's eject key. *)
LoadOrEject ==
    /\ resume => Room(1)
    /\ Acts(<<"eject">>, "any")
    /\ UNCHANGED <<sio, tape, line, engine, events, asked>>

(* applyOptions with other serial settings, while emulation runs.          *)
ApplyOptions ==
    /\ Room(2)
    /\ emulating
    /\ restart' = TRUE
    /\ AskStop
    /\ Acts(<<>>, "any")
    /\ UNCHANGED <<tape, open, emulating, resume, events, asked>>

(* setSession. *)
LoadSession ==
    /\ Room(3)
    /\ Acts((IF emulating THEN <<"toggle", "sioWait", "pump">> ELSE <<>>) \o <<"toggle">>, "any")
    /\ UNCHANGED <<sio, tape, line, engine, events, asked>>

(* onUsbAttached, 600 ms later. *)
CableTimer ==
    /\ Room(2)
    /\ ~emulating
    /\ Acts(<<"toggle">>, "any")
    /\ UNCHANGED <<sio, tape, line, engine, events, asked>>

User == PressToggle \/ PressPlay \/ LoadOrEject \/ ApplyOptions \/ LoadSession \/ CableTimer

-----------------------------------------------------------------------------
(* SioWorker::run.                                                         *)
Leave == /\ sio' = [sio EXCEPT !.thread = "idle", !.reading = NoPort]
         /\ events' = Append(events, "finished")

SioBegins ==
    /\ sio.thread = "starting"
    /\ sio' = [sio EXCEPT !.thread = "opening"]
    /\ events' = Append(events, "started")
    /\ UNCHANGED <<tape, line, engine, todo, ghost>>

SioOpens ==
    /\ sio.thread = "opening"
    /\ \/ /\ open' = open \cup {sio.port} /\ cancelled' = cancelled \ {sio.port}
          /\ sio' = [sio EXCEPT !.thread = "polling"]
          /\ UNCHANGED events
       \/ Leave /\ UNCHANGED line
    /\ UNCHANGED <<tape, engine, todo, ghost>>

(* The loop's test, and the read it blocks in.                             *)
SioPolls ==
    /\ sio.thread = "polling"
    /\ \/ /\ sio.stop
          /\ Leave
          /\ Close(sio.port)
       \/ /\ ~sio.stop
          /\ sio' = [sio EXCEPT !.thread = "reading", !.reading = sio.port]
          /\ UNCHANGED <<line, events>>
    /\ UNCHANGED <<tape, engine, todo, ghost>>

(* A command frame came, and a device has served it. *)
SioServes ==
    /\ sio.thread = "reading" /\ sio.reading \in open
    /\ sio' = [sio EXCEPT !.thread = "polling", !.reading = NoPort]
    /\ UNCHANGED <<tape, line, engine, events, todo, ghost>>

(* readCommandFrame comes back empty: the port was cancelled, or is closed *)
(* (SioGivesUp); or the line failed.                                       *)
Fails == /\ sio.thread = "reading"
         /\ Leave
         /\ Close(sio.port)
         /\ UNCHANGED <<tape, engine, todo, ghost>>

SioGivesUp == Fails /\ (sio.reading \in cancelled \/ sio.reading \notin open)
LineFails  == Fails /\ ~(sio.reading \in cancelled \/ sio.reading \notin open)

(* CassetteWorker::run. A stopped player leaves its port to wait(), one    *)
(* whose port refuses the baud rate leaves it to nobody. (mPort goes on    *)
(* pointing to a port that is closed: it is forgotten here.)               *)
TapeOver      == events' = Append(events, "casFinished")
Overlooked(S) == upset' = upset \cup S \cup (IF tape.stop THEN {"late"} ELSE {})

TapeOpens ==
    /\ tape.thread = "opening"
    /\ \/ /\ open' = open \cup {tape.port}
          /\ tape' = [tape EXCEPT !.thread = "playing"]
          /\ UNCHANGED <<events, upset>>
       \/ /\ tape' = [tape EXCEPT !.thread = "idle", !.port = NoPort]
          /\ Overlooked({})
          /\ TapeOver /\ UNCHANGED open
    /\ UNCHANGED <<sio, cancelled, engine, todo, intent, asked>>

TapeStopsUnlocked ==   \* mutant: the mutex is looked at, not taken
    /\ tape.thread = "playing" /\ tape.stop
    /\ tape' = [tape EXCEPT !.thread = "idle"]
    /\ TapeOver
    /\ UNCHANGED <<sio, line, engine, todo, ghost>>

TapeStops ==
    /\ tape.thread = "playing" /\ tape.stop
    /\ tape' = [tape EXCEPT !.thread = "idle", !.stop = FALSE]
    /\ TapeOver
    /\ UNCHANGED <<sio, line, engine, todo, ghost>>

TapeRefused ==
    /\ tape.thread = "playing"
    /\ tape' = [tape EXCEPT !.thread = "idle"]
    /\ TapeOver
    /\ Overlooked({"speed"})
    /\ UNCHANGED <<sio, line, engine, todo, intent, asked>>

(* The last byte is out; half a second later the port is closed.           *)
TapeLastByte ==
    /\ tape.thread = "playing" /\ ~tape.stop
    /\ tape' = [tape EXCEPT !.thread = "ending"]
    /\ UNCHANGED <<sio, line, engine, events, todo, ghost>>

TapeCloses ==
    /\ tape.thread = "ending"
    /\ tape' = [tape EXCEPT !.thread = "idle", !.port = NoPort]
    /\ Close(tape.port)
    /\ TapeOver
    /\ UNCHANGED <<sio, engine, todo, ghost>>

Threads == \/ SioBegins \/ SioOpens \/ SioPolls \/ SioServes \/ SioGivesUp \/ LineFails
           \/ TapeOpens \/ TapeStops \/ TapeRefused \/ TapeLastByte \/ TapeCloses

-----------------------------------------------------------------------------
Init ==
    /\ sio = [thread |-> "idle", stop |-> TRUE, port |-> NoPort, reading |-> NoPort]
    /\ tape = [loaded |-> FALSE, thread |-> "idle", stop |-> FALSE, port |-> NoPort]
    /\ open = {} /\ cancelled = {}
    /\ emulating = FALSE /\ restart = FALSE /\ resume = FALSE
    /\ events = <<>> /\ todo = <<>>
    /\ intent = "any" /\ asked = FALSE /\ upset = {}

Next == User \/ EventLoop \/ EngineCall \/ Threads

(* The event loop and every thread that is not blocked get to run. Nothing *)
(* is assumed of the user, of the Atari (SioServes) or of the serial line. *)
Fairness ==
    /\ WF_vars(EventLoop) /\ WF_vars(EngineCall)
    /\ WF_vars(SioBegins) /\ WF_vars(SioOpens) /\ WF_vars(SioPolls) /\ WF_vars(SioGivesUp)
    /\ WF_vars(TapeOpens) /\ WF_vars(TapeStops) /\ WF_vars(TapeLastByte) /\ WF_vars(TapeCloses)

Spec == Init /\ [][Next]_vars /\ Fairness

-----------------------------------------------------------------------------
AtRest == todo = <<>> /\ events = <<>>
Calm(S) == upset \cap S = {}

(* What the UI shows is what runs: between two slots of the engine, once   *)
(* its signals are delivered and the port is open (or could not be         *)
(* opened), m_emulationRunning is true exactly when the SIO thread runs,   *)
(* whatever the user has pressed in the meantime (toggleSio picks start or *)
(* stop from it).                                                          *)
UiTruth ==
    AtRest /\ sio.thread \in {"idle", "polling", "reading"}
        => (emulating <=> sio.thread # "idle")

(* One owner of the serial line: no two port objects hold it open at a     *)
(* time, through every pause, resume and restart (loaderPlayCas, toggleSio *)
(* and loaderCasFinished hand it over), as long as each request of the     *)
(* user finds the last one done.                                           *)
OnePort == Calm(Disturbances) => Cardinality(open) <= 1

(* When neither thread runs and nothing is pending, the line is closed:    *)
(* the run functions and the two wait()s close every port they opened.     *)
NoPortLeft ==
    AtRest /\ sio.thread = "idle" /\ tape.thread = "idle" /\ Calm(Disturbances)
        => open = {}

(* A tape that plays is told to stop only when somebody stopped this       *)
(* playback: the mutex that asks CassetteWorker::run to stop is taken back *)
(* by the player that obeys it.                                            *)
TapePlaysOn == tape.thread = "playing" /\ tape.stop => asked \/ ~Calm({"late"})

(* "Stay disconnected": once the user has switched everything off, neither *)
(* the end of the tape nor a restart brings disk emulation back.           *)
StaysDown ==
    AtRest /\ intent = "off" /\ Calm({"unheard", "stopping"}) => sio.thread = "idle" \/ sio.stop

(* The GUI never blocks for good in a wait(): every slot of the engine     *)
(* returns, as long as emulation is not started twice.                     *)
NotFrozen == todo # <<>> ~> (todo = <<>> \/ ~Calm({"unheard"}))

(* A tape that paused disk emulation gives the line back when it ends, and *)
(* emulation runs again (loaderCasFinished).                               *)
ResumeAfterTape ==
    intent = "tape" /\ tape.thread # "idle"
        ~> (intent # "tape" \/ (tape.thread = "idle" /\ sio.thread # "idle") \/ ~Calm({"unheard", "stopping"}))

(* "AspeQt never drives cassette + disk at once" (engine.cpp:683).         *)
NeverBoth ==
    Calm({"unheard"}) => ~(sio.thread \in {"polling", "reading"} /\ tape.thread \in {"playing", "ending"})
=============================================================================
