-------------------------- MODULE RunControl_proofs --------------------------
(* Proofs about run control, for every number of port objects and of      *)
(* queued signals: what the UI shows is what runs, switched off stays off, *)
(* the cassette player's mutex, one owner of the serial line.              *)
EXTENDS RunControl, SequenceTheorems, WellFoundedInduction, FiniteSetTheorems, TLAPS

(* A set of numbers has a least element: what Min of the free port objects *)
(* is.                                                                     *)
LEMMA Least ==
    ASSUME NEW bad, bad \subseteq Nat, bad # {}
    PROVE  \E n \in bad : \A m \in bad : n <= m
<1>1. PICK n \in bad : \A y \in bad : ~ (<<y, n>> \in OpToRel(<, Nat))
  BY NatLessThanWellFounded, WFMin
<1>2. ASSUME NEW m \in bad, m < n PROVE FALSE
  <2>1. <<m, n>> \in OpToRel(<, Nat) BY <1>2 DEF OpToRel
  <2> QED BY <1>1, <2>1
<1>3. \A m \in bad : m \in Nat /\ n \in Nat OBVIOUS
<1> QED BY <1>2, <1>3

(* No port object has the number of none.                                  *)
LEMMA NoPortIsNone == NoPort \notin Ports
BY DEF NoPort, Ports

(* An allocation returns an object nobody holds.                           *)
LEMMA NewPortIsFree == Spare => NewPort \in Ports \ (open \cup {sio.port, sio.reading, tape.port})
<1> SUFFICES ASSUME Spare PROVE NewPort \in Free BY DEF Free
<1>1. Free \subseteq Nat /\ Free # {} BY RunAssumption DEF Spare, Free, Ports
<1>2. \E n \in Free : \A m \in Free : n <= m BY <1>1, Least
<1> QED BY <1>2 DEF NewPort, Min

-----------------------------------------------------------------------------
(* The parts TypeOK is made of, one for each thing an action may disturb.  *)
Calls == {"toggle", "start", "sioWait", "sioJoined", "stopped", "pump", "tapeWait",
          "tapeJoined", "play", "eject", "resume", "load"}

Signals == {"started", "finished", "casFinished"}

SioType ==
    /\ sio \in [thread : {"idle", "starting", "opening", "polling", "reading"},
                stop : BOOLEAN, port : Ports \cup {NoPort}, reading : Ports \cup {NoPort}]
    /\ sio.thread # "idle" => sio.port # NoPort

TapeType ==
    /\ tape \in [loaded : BOOLEAN, thread : {"idle", "opening", "playing", "ending"},
                 stop : BOOLEAN, port : Ports \cup {NoPort}]
    /\ tape.thread # "idle" => tape.port # NoPort

LineType == open \subseteq Ports /\ cancelled \subseteq Ports

FlagType ==
    /\ emulating \in BOOLEAN /\ restart \in BOOLEAN /\ resume \in BOOLEAN /\ asked \in BOOLEAN
    /\ intent \in {"pressed", "on", "off", "tape", "any"} /\ upset \subseteq Disturbances

CallType == events \in Seq(Signals) /\ todo \in Seq(Calls)

(* SioWorker: its port is deleted only when its thread has ended.          *)
LEMMA SioTypeNext == SioType /\ [Next]_vars => SioType'
<1> SUFFICES ASSUME SioType, [Next]_vars PROVE SioType' OBVIOUS
<1> USE NoPortIsNone DEF SioType, line, engine, ghost, vars
<1>1. CASE PressToggle BY <1>1 DEF PressToggle, Acts
<1>2. CASE PressPlay BY <1>2 DEF PressPlay, Acts
<1>3. CASE LoadOrEject BY <1>3 DEF LoadOrEject, Acts
<1>4. CASE ApplyOptions BY <1>4 DEF ApplyOptions, Acts, AskStop
<1>5. CASE LoadSession BY <1>5 DEF LoadSession, Acts
<1>6. CASE CableTimer BY <1>6 DEF CableTimer, Acts
<1>7. CASE EventLoop BY <1>7 DEF EventLoop, Deliver, Slot
<1>8. CASE Pump BY <1>8 DEF Pump, Deliver, Slot, Running, Return
<1>9. CASE SioStart
  <2>1. NewPort \in Ports BY <1>9, NewPortIsFree DEF SioStart
  <2>2. sio' = [sio EXCEPT !.port = NewPort, !.stop = FALSE,
                           !.thread = IF sio.thread = "idle" THEN "starting" ELSE sio.thread]
    BY <1>9 DEF SioStart
  <2>3. CASE sio.thread = "idle" BY <2>1, <2>2, <2>3
  <2>4. CASE sio.thread # "idle" BY <2>1, <2>2, <2>4
  <2> QED BY <2>3, <2>4
<1>10. CASE SioWait BY <1>10 DEF SioWait, AskStop, Running, Return
<1>11. CASE SioJoined BY <1>11 DEF SioJoined, Delete, Running, Return
<1>12. CASE TapeWait BY <1>12 DEF TapeWait, Running, Return
<1>13. CASE TapeJoined BY <1>13 DEF TapeJoined, Delete, Running, Return
<1>14. CASE Toggle BY <1>14 DEF Toggle, StopTape, Takes, AskStop, Running, Return
<1>15. CASE Stopped BY <1>15 DEF Stopped, Running, Return
<1>16. CASE Play BY <1>16 DEF Play, Running, Return
<1>17. CASE Eject BY <1>17 DEF Eject, Running, Return
<1>18. CASE Load BY <1>18 DEF Load, Running, Return
<1>19. CASE Resume BY <1>19 DEF Resume, Running, Return
<1>20. CASE SioBegins BY <1>20 DEF SioBegins
<1>21. CASE SioOpens BY <1>21 DEF SioOpens, Leave
<1>22. CASE SioPolls BY <1>22 DEF SioPolls, Leave, Close
<1>23. CASE SioServes BY <1>23 DEF SioServes
<1>24. CASE SioGivesUp BY <1>24 DEF SioGivesUp, Fails, Leave, Close
<1>25. CASE LineFails BY <1>25 DEF LineFails, Fails, Leave, Close
<1>26. CASE TapeOpens BY <1>26 DEF TapeOpens, TapeOver, Overlooked
<1>27. CASE TapeStops BY <1>27 DEF TapeStops, TapeOver
<1>28. CASE TapeRefused BY <1>28 DEF TapeRefused, TapeOver, Overlooked
<1>29. CASE TapeLastByte BY <1>29 DEF TapeLastByte
<1>30. CASE TapeCloses BY <1>30 DEF TapeCloses, TapeOver, Close
<1>31. CASE UNCHANGED vars BY <1>31
<1> QED
  BY <1>1, <1>2, <1>3, <1>4, <1>5, <1>6, <1>7, <1>8, <1>9, <1>10, <1>11, <1>12, <1>13, <1>14, <1>15,
     <1>16, <1>17, <1>18, <1>19, <1>20, <1>21, <1>22, <1>23, <1>24, <1>25, <1>26, <1>27, <1>28,
        <1>29, <1>30,
     <1>31
  DEF Next, User, EngineCall, Threads

(* CassetteWorker: a player that runs has its port.                        *)
LEMMA TapeTypeNext == TapeType /\ [Next]_vars => TapeType'
<1> SUFFICES ASSUME TapeType, [Next]_vars PROVE TapeType' OBVIOUS
<1> USE NoPortIsNone DEF TapeType, line, engine, ghost, vars
<1>1. CASE PressToggle BY <1>1 DEF PressToggle, Acts
<1>2. CASE PressPlay BY <1>2 DEF PressPlay, Acts
<1>3. CASE LoadOrEject BY <1>3 DEF LoadOrEject, Acts
<1>4. CASE ApplyOptions BY <1>4 DEF ApplyOptions, Acts, AskStop
<1>5. CASE LoadSession BY <1>5 DEF LoadSession, Acts
<1>6. CASE CableTimer BY <1>6 DEF CableTimer, Acts
<1>7. CASE EventLoop BY <1>7 DEF EventLoop, Deliver, Slot
<1>8. CASE Pump BY <1>8 DEF Pump, Deliver, Slot, Running, Return
<1>9. CASE SioStart BY <1>9 DEF SioStart, Running, Return
<1>10. CASE SioWait BY <1>10 DEF SioWait, AskStop, Running, Return
<1>11. CASE SioJoined BY <1>11 DEF SioJoined, Delete, Running, Return
<1>12. CASE TapeWait BY <1>12 DEF TapeWait, Running, Return
<1>13. CASE TapeJoined BY <1>13 DEF TapeJoined, Delete, Running, Return
<1>14. CASE Toggle BY <1>14 DEF Toggle, StopTape, Takes, AskStop, Running, Return
<1>15. CASE Stopped BY <1>15 DEF Stopped, Running, Return
<1>16. CASE Play
  <2>1. NewPort \in Ports BY <1>16, NewPortIsFree DEF Play
  <2> QED BY <1>16, <2>1 DEF Play
<1>17. CASE Eject BY <1>17 DEF Eject, Running, Return
<1>18. CASE Load BY <1>18 DEF Load, Running, Return
<1>19. CASE Resume BY <1>19 DEF Resume, Running, Return
<1>20. CASE SioBegins BY <1>20 DEF SioBegins
<1>21. CASE SioOpens BY <1>21 DEF SioOpens, Leave
<1>22. CASE SioPolls BY <1>22 DEF SioPolls, Leave, Close
<1>23. CASE SioServes BY <1>23 DEF SioServes
<1>24. CASE SioGivesUp BY <1>24 DEF SioGivesUp, Fails, Leave, Close
<1>25. CASE LineFails BY <1>25 DEF LineFails, Fails, Leave, Close
<1>26. CASE TapeOpens BY <1>26 DEF TapeOpens, TapeOver, Overlooked
<1>27. CASE TapeStops BY <1>27 DEF TapeStops, TapeOver
<1>28. CASE TapeRefused BY <1>28 DEF TapeRefused, TapeOver, Overlooked
<1>29. CASE TapeLastByte BY <1>29 DEF TapeLastByte
<1>30. CASE TapeCloses BY <1>30 DEF TapeCloses, TapeOver, Close
<1>31. CASE UNCHANGED vars BY <1>31
<1> QED
  BY <1>1, <1>2, <1>3, <1>4, <1>5, <1>6, <1>7, <1>8, <1>9, <1>10, <1>11, <1>12, <1>13, <1>14, <1>15,
     <1>16, <1>17, <1>18, <1>19, <1>20, <1>21, <1>22, <1>23, <1>24, <1>25, <1>26, <1>27, <1>28,
        <1>29, <1>30,
     <1>31
  DEF Next, User, EngineCall, Threads

(* Only port objects are open or cancelled.                                *)
LEMMA LineTypeNext == SioType /\ TapeType /\ LineType /\ [Next]_vars => LineType'
<1> SUFFICES ASSUME SioType /\ TapeType /\ LineType, [Next]_vars PROVE LineType' OBVIOUS
<1> USE DEF LineType, SioType, TapeType, line, engine, ghost, vars
<1>1. CASE PressToggle BY <1>1 DEF PressToggle, Acts
<1>2. CASE PressPlay BY <1>2 DEF PressPlay, Acts
<1>3. CASE LoadOrEject BY <1>3 DEF LoadOrEject, Acts
<1>4. CASE ApplyOptions BY <1>4 DEF ApplyOptions, Acts, AskStop
<1>5. CASE LoadSession BY <1>5 DEF LoadSession, Acts
<1>6. CASE CableTimer BY <1>6 DEF CableTimer, Acts
<1>7. CASE EventLoop BY <1>7 DEF EventLoop, Deliver, Slot
<1>8. CASE Pump BY <1>8 DEF Pump, Deliver, Slot, Running, Return
<1>9. CASE SioStart BY <1>9 DEF SioStart, Running, Return
<1>10. CASE SioWait BY <1>10 DEF SioWait, AskStop, Running, Return
<1>11. CASE SioJoined BY <1>11 DEF SioJoined, Delete, Running, Return
<1>12. CASE TapeWait BY <1>12 DEF TapeWait, Running, Return
<1>13. CASE TapeJoined BY <1>13 DEF TapeJoined, Delete, Running, Return
<1>14. CASE Toggle BY <1>14 DEF Toggle, StopTape, Takes, AskStop, Running, Return
<1>15. CASE Stopped BY <1>15 DEF Stopped, Running, Return
<1>16. CASE Play BY <1>16 DEF Play, Running, Return
<1>17. CASE Eject BY <1>17 DEF Eject, Running, Return
<1>18. CASE Load BY <1>18 DEF Load, Running, Return
<1>19. CASE Resume BY <1>19 DEF Resume, Running, Return
<1>20. CASE SioBegins BY <1>20 DEF SioBegins
<1>21. CASE SioOpens BY <1>21 DEF SioOpens, Leave
<1>22. CASE SioPolls BY <1>22 DEF SioPolls, Leave, Close
<1>23. CASE SioServes BY <1>23 DEF SioServes
<1>24. CASE SioGivesUp BY <1>24 DEF SioGivesUp, Fails, Leave, Close
<1>25. CASE LineFails BY <1>25 DEF LineFails, Fails, Leave, Close
<1>26. CASE TapeOpens BY <1>26 DEF TapeOpens, TapeOver, Overlooked
<1>27. CASE TapeStops BY <1>27 DEF TapeStops, TapeOver
<1>28. CASE TapeRefused BY <1>28 DEF TapeRefused, TapeOver, Overlooked
<1>29. CASE TapeLastByte BY <1>29 DEF TapeLastByte
<1>30. CASE TapeCloses BY <1>30 DEF TapeCloses, TapeOver, Close
<1>31. CASE UNCHANGED vars BY <1>31
<1> QED
  BY <1>1, <1>2, <1>3, <1>4, <1>5, <1>6, <1>7, <1>8, <1>9, <1>10, <1>11, <1>12, <1>13, <1>14, <1>15,
     <1>16, <1>17, <1>18, <1>19, <1>20, <1>21, <1>22, <1>23, <1>24, <1>25, <1>26, <1>27, <1>28,
        <1>29, <1>30,
     <1>31
  DEF Next, User, EngineCall, Threads

(* The engine's flags, and what is remembered of the user.                 *)
LEMMA FlagTypeNext == FlagType /\ [Next]_vars => FlagType'
<1> SUFFICES ASSUME FlagType, [Next]_vars PROVE FlagType' OBVIOUS
<1> USE DEF FlagType, Disturbances, line, engine, ghost, vars
<1>1. CASE PressToggle BY <1>1 DEF PressToggle, Acts
<1>2. CASE PressPlay BY <1>2 DEF PressPlay, Acts
<1>3. CASE LoadOrEject BY <1>3 DEF LoadOrEject, Acts
<1>4. CASE ApplyOptions BY <1>4 DEF ApplyOptions, Acts, AskStop
<1>5. CASE LoadSession BY <1>5 DEF LoadSession, Acts
<1>6. CASE CableTimer BY <1>6 DEF CableTimer, Acts
<1>7. CASE EventLoop BY <1>7 DEF EventLoop, Deliver, Slot
<1>8. CASE Pump BY <1>8 DEF Pump, Deliver, Slot, Running, Return
<1>9. CASE SioStart BY <1>9 DEF SioStart, Running, Return
<1>10. CASE SioWait BY <1>10 DEF SioWait, AskStop, Running, Return
<1>11. CASE SioJoined BY <1>11 DEF SioJoined, Delete, Running, Return
<1>12. CASE TapeWait BY <1>12 DEF TapeWait, Running, Return
<1>13. CASE TapeJoined BY <1>13 DEF TapeJoined, Delete, Running, Return
<1>14. CASE Toggle BY <1>14 DEF Toggle, StopTape, Takes, AskStop, Running, Return
<1>15. CASE Stopped BY <1>15 DEF Stopped, Running, Return
<1>16. CASE Play BY <1>16 DEF Play, Running, Return
<1>17. CASE Eject BY <1>17 DEF Eject, Running, Return
<1>18. CASE Load BY <1>18 DEF Load, Running, Return
<1>19. CASE Resume BY <1>19 DEF Resume, Running, Return
<1>20. CASE SioBegins BY <1>20 DEF SioBegins
<1>21. CASE SioOpens BY <1>21 DEF SioOpens, Leave
<1>22. CASE SioPolls BY <1>22 DEF SioPolls, Leave, Close
<1>23. CASE SioServes BY <1>23 DEF SioServes
<1>24. CASE SioGivesUp BY <1>24 DEF SioGivesUp, Fails, Leave, Close
<1>25. CASE LineFails BY <1>25 DEF LineFails, Fails, Leave, Close
<1>26. CASE TapeOpens BY <1>26 DEF TapeOpens, TapeOver, Overlooked
<1>27. CASE TapeStops BY <1>27 DEF TapeStops, TapeOver
<1>28. CASE TapeRefused BY <1>28 DEF TapeRefused, TapeOver, Overlooked
<1>29. CASE TapeLastByte BY <1>29 DEF TapeLastByte
<1>30. CASE TapeCloses BY <1>30 DEF TapeCloses, TapeOver, Close
<1>31. CASE UNCHANGED vars BY <1>31
<1> QED
  BY <1>1, <1>2, <1>3, <1>4, <1>5, <1>6, <1>7, <1>8, <1>9, <1>10, <1>11, <1>12, <1>13, <1>14, <1>15,
     <1>16, <1>17, <1>18, <1>19, <1>20, <1>21, <1>22, <1>23, <1>24, <1>25, <1>26, <1>27, <1>28,
        <1>29, <1>30,
     <1>31
  DEF Next, User, EngineCall, Threads

(* The sequences of calls an action puts in front are sequences of calls.  *)
LEMMA Plans ==
    /\ <<>> \in Seq(Calls) /\ <<"start">> \in Seq(Calls) /\ <<"toggle">> \in Seq(Calls)
    /\ <<"tapeWait">> \in Seq(Calls) /\ <<"resume">> \in Seq(Calls) /\ <<"play">> \in Seq(Calls)
    /\ <<"sioWait", "stopped">> \in Seq(Calls) /\ <<"load", "resume">> \in Seq(Calls)
    /\ <<"tapeWait", "load", "resume">> \in Seq(Calls)
    /\ <<"toggle", "sioWait", "pump">> \in Seq(Calls) /\ <<"eject">> \in Seq(Calls)
    /\ <<"sioJoined">> \in Seq(Calls) /\ <<"tapeJoined">> \in Seq(Calls)
<1> USE DEF Calls
<1>1. <<>> \in Seq(Calls) OBVIOUS
<1>2. <<"start">> \in Seq(Calls) /\ <<"toggle">> \in Seq(Calls) /\ <<"tapeWait">> \in Seq(Calls) OBVIOUS
<1>3. <<"resume">> \in Seq(Calls) /\ <<"play">> \in Seq(Calls) OBVIOUS
<1>4. <<"sioWait", "stopped">> \in Seq(Calls) /\ <<"load", "resume">> \in Seq(Calls) OBVIOUS
<1>5. <<"tapeWait", "load", "resume">> \in Seq(Calls) OBVIOUS
<1>6. <<"toggle", "sioWait", "pump">> \in Seq(Calls) OBVIOUS
<1>7. <<"eject">> \in Seq(Calls) /\ <<"sioJoined">> \in Seq(Calls) /\ <<"tapeJoined">> \in Seq(Calls)
  OBVIOUS
<1> HIDE DEF Calls
<1> QED BY <1>1, <1>2, <1>3, <1>4, <1>5, <1>6, <1>7

(* What is left of a slot when one of its calls has returned.              *)
LEMMA ReturnType ==
    ASSUME CallType, NEW f, Running(f), NEW c \in Seq(Calls), Return(c)
    PROVE  todo' \in Seq(Calls)
<1>1. Tail(todo) \in Seq(Calls) BY DEF CallType, Running
<1> QED BY <1>1 DEF Return

(* The slot of a signal, put before what a pumping slot still has to do.   *)
LEMMA DeliverType ==
    ASSUME CallType, NEW rest \in Seq(Calls), Deliver(rest)
    PROVE  CallType'
<1>1. events # <<>> /\ events' = Tail(events) /\ todo' = Slot(Head(events)) \o rest BY DEF Deliver
<1>2. events' \in Seq(Signals) /\ Head(events) \in Signals BY <1>1 DEF CallType
<1> DEFINE slot == Slot(Head(events))
<1>3. slot \in Seq(Calls) BY <1>2, Plans DEF Slot, Signals
<1> HIDE DEF slot
<1>4. slot \o rest \in Seq(Calls) BY <1>3
<1> QED BY <1>1, <1>2, <1>4 DEF CallType, slot

(* The queue of signals and the slot that runs.                            *)
LEMMA CallTypeNext == CallType /\ [Next]_vars => CallType'
<1> SUFFICES ASSUME CallType, [Next]_vars PROVE CallType' OBVIOUS
<1> USE Plans DEF CallType, Signals, line, engine, ghost, vars
<1>1. CASE PressToggle BY <1>1 DEF PressToggle, Acts
<1>2. CASE PressPlay
  <2>1. \E c \in {<<"toggle", "sioWait", "pump">>, <<>>} : todo' = c \o <<"play">>
    BY <1>2 DEF PressPlay, Acts
  <2>2. PICK c \in Seq(Calls) : todo' = c \o <<"play">> BY <2>1, Plans
  <2>3. <<"play">> \in Seq(Calls) BY Plans
  <2>4. todo' \in Seq(Calls) BY <2>2, <2>3
  <2> QED BY <1>2, <2>4 DEF PressPlay, CallType
<1>3. CASE LoadOrEject BY <1>3 DEF LoadOrEject, Acts
<1>4. CASE ApplyOptions BY <1>4 DEF ApplyOptions, Acts, AskStop
<1>5. CASE LoadSession
  <2>1. \E c \in {<<"toggle", "sioWait", "pump">>, <<>>} : todo' = c \o <<"toggle">>
    BY <1>5 DEF LoadSession, Acts
  <2>2. PICK c \in Seq(Calls) : todo' = c \o <<"toggle">> BY <2>1, Plans
  <2>3. <<"toggle">> \in Seq(Calls) BY Plans
  <2>4. todo' \in Seq(Calls) BY <2>2, <2>3
  <2> QED BY <1>5, <2>4 DEF LoadSession, CallType
<1>6. CASE CableTimer BY <1>6 DEF CableTimer, Acts
<1>7. CASE EventLoop
  <2>1. <<>> \in Seq(Calls) OBVIOUS
  <2> QED BY <1>7, <2>1, DeliverType DEF EventLoop
<1>8. CASE Pump
  <2>1. CASE Deliver(todo) BY <2>1, DeliverType DEF CallType
  <2>2. CASE ~Deliver(todo)
    <3>1. Running("pump") /\ Return(<<>>) /\ UNCHANGED events BY <1>8, <2>2 DEF Pump, engine
    <3>2. <<>> \in Seq(Calls) OBVIOUS
    <3> QED BY <3>1, <3>2, ReturnType DEF CallType
  <2> QED BY <2>1, <2>2
<1>9. CASE SioStart BY <1>9 DEF SioStart, Running, Return
<1>10. CASE SioWait
  <2> DEFINE calls == <<"sioJoined">>
  <2>1. calls \in Seq(Calls) BY Plans
  <2>2. Running("sioWait") /\ Return(calls) /\ events' = events BY <1>10 DEF SioWait
  <2> QED BY <2>1, <2>2, ReturnType DEF CallType
<1>11. CASE SioJoined BY <1>11 DEF SioJoined, Delete, Running, Return
<1>12. CASE TapeWait
  <2> DEFINE calls == <<"tapeJoined">>
  <2>1. calls \in Seq(Calls) BY Plans
  <2>2. Running("tapeWait") /\ Return(calls) /\ events' = events BY <1>12 DEF TapeWait
  <2> QED BY <2>1, <2>2, ReturnType DEF CallType
<1>13. CASE TapeJoined BY <1>13 DEF TapeJoined, Delete, Running, Return
<1>14. CASE Toggle
  <2>1. PICK c \in {<<"tapeWait">>, <<>>, <<"start">>} : Running("toggle") /\ Return(c) /\ events' = events
    BY <1>14 DEF Toggle, StopTape
  <2>2. c \in Seq(Calls) BY Plans
  <2> QED BY <2>1, <2>2, ReturnType DEF CallType
<1>15. CASE Stopped
  <2> DEFINE calls == IF restart THEN <<"toggle">> ELSE <<>>
  <2>1. calls \in Seq(Calls) BY Plans
  <2>2. Running("stopped") /\ Return(calls) /\ events' = events BY <1>15 DEF Stopped
  <2> QED BY <2>1, <2>2, ReturnType DEF CallType
<1>16. CASE Play BY <1>16 DEF Play, Running, Return
<1>17. CASE Eject
  <2> DEFINE calls == IF TapeRuns THEN <<"tapeWait", "load", "resume">> ELSE <<"load", "resume">>
  <2>1. calls \in Seq(Calls) BY Plans
  <2>2. Running("eject") /\ Return(calls) /\ events' = events BY <1>17 DEF Eject, engine
  <2> QED BY <2>1, <2>2, ReturnType DEF CallType
<1>18. CASE Load BY <1>18 DEF Load, Running, Return
<1>19. CASE Resume
  <2> DEFINE calls == IF resume /\ ~emulating THEN <<"toggle">> ELSE <<>>
  <2>1. calls \in Seq(Calls) BY Plans
  <2>2. Running("resume") /\ Return(calls) /\ events' = events BY <1>19 DEF Resume
  <2> QED BY <2>1, <2>2, ReturnType DEF CallType
<1>20. CASE SioBegins BY <1>20 DEF SioBegins
<1>21. CASE SioOpens BY <1>21 DEF SioOpens, Leave
<1>22. CASE SioPolls BY <1>22 DEF SioPolls, Leave, Close
<1>23. CASE SioServes BY <1>23 DEF SioServes
<1>24. CASE SioGivesUp BY <1>24 DEF SioGivesUp, Fails, Leave, Close
<1>25. CASE LineFails BY <1>25 DEF LineFails, Fails, Leave, Close
<1>26. CASE TapeOpens BY <1>26 DEF TapeOpens, TapeOver, Overlooked
<1>27. CASE TapeStops BY <1>27 DEF TapeStops, TapeOver
<1>28. CASE TapeRefused BY <1>28 DEF TapeRefused, TapeOver, Overlooked
<1>29. CASE TapeLastByte BY <1>29 DEF TapeLastByte
<1>30. CASE TapeCloses BY <1>30 DEF TapeCloses, TapeOver, Close
<1>31. CASE UNCHANGED vars BY <1>31
<1> QED
  BY <1>1, <1>2, <1>3, <1>4, <1>5, <1>6, <1>7, <1>8, <1>9, <1>10, <1>11, <1>12, <1>13, <1>14, <1>15,
     <1>16, <1>17, <1>18, <1>19, <1>20, <1>21, <1>22, <1>23, <1>24, <1>25, <1>26, <1>27, <1>28,
        <1>29, <1>30,
     <1>31
  DEF Next, User, EngineCall, Threads

-----------------------------------------------------------------------------
(* What the engine has heard. Up: the SIO thread has announced itself and  *)
(* not yet left. Places is where two calls may stand in a slot: stopped    *)
(* comes first, or right after the join that sioFinished begins with, and  *)
(* play comes last, of a player that does not run. Told is the cassette    *)
(* player's mutex.                                                         *)
Has(s, f) == \E i \in DOMAIN s : s[i] = f

Up == sio.thread \in {"opening", "polling", "reading"}

Last(i, e) == events[i] = e /\ \A j \in DOMAIN events : j > i => events[j] = "casFinished"

Heard ==
    /\ \A i \in DOMAIN events : Last(i, "started") => Up
    /\ \A i \in DOMAIN events : Last(i, "finished") => ~Up
    /\ ~Has(events, "started") /\ ~Has(events, "finished") =>
           IF Has(todo, "stopped") THEN ~Up ELSE emulating <=> Up

Places == \A i \in DOMAIN todo :
    /\ todo[i] = "stopped" => i <= 2 /\ (i = 2 => todo[1] \in {"sioWait", "sioJoined"})
    /\ todo[i] = "play" => i = Len(todo) /\ tape.thread = "idle"

Told ==
    /\ tape.stop => asked \/ "late" \in upset
    /\ tape.stop /\ tape.thread \in {"idle", "ending"} => "late" \in upset

(* Sequences of calls: where the elements of a joined sequence come from.  *)
LEMMA Concat ==
    ASSUME NEW c \in Seq(Calls), NEW t \in Seq(Calls)
    PROVE  /\ Len(c \o t) = Len(c) + Len(t) /\ c \o t \in Seq(Calls)
           /\ \A i \in DOMAIN (c \o t) : \/ i \in DOMAIN c /\ (c \o t)[i] = c[i]
                                         \/ i > Len(c) /\ i - Len(c) \in DOMAIN t /\ (c \o t)[i] = t[i - Len(c)]
           /\ \A i \in DOMAIN c : i \in DOMAIN (c \o t) /\ (c \o t)[i] = c[i]
           /\ \A i \in DOMAIN t : Len(c) + i \in DOMAIN (c \o t) /\ (c \o t)[Len(c) + i] = t[i]
OBVIOUS

(* What is behind the first call of a slot.                                *)
LEMMA TailOf ==
    ASSUME NEW t \in Seq(Calls), t # <<>>
    PROVE  /\ Tail(t) \in Seq(Calls) /\ Len(Tail(t)) = Len(t) - 1 /\ Head(t) = t[1] /\ 1 \in DOMAIN t
           /\ \A i \in DOMAIN Tail(t) : i + 1 \in DOMAIN t /\ Tail(t)[i] = t[i + 1]
           /\ \A i \in DOMAIN t : i # 1 => i - 1 \in DOMAIN Tail(t) /\ Tail(t)[i - 1] = t[i]
OBVIOUS

(* A call that returns leaves stopped and play where they were.            *)
LEMMA ReturnPlaces ==
    ASSUME CallType, Places, NEW f, Running(f), NEW c \in Seq(Calls), Return(c),
           ~Has(c, "stopped"), ~Has(c, "play"),
           f = "sioWait" => Len(c) = 1 /\ c[1] = "sioJoined", f = "sioJoined" => Len(c) = 0,
           tape.thread = "idle" => tape'.thread = "idle"
    PROVE  Places'
<1> DEFINE t == Tail(todo)
<1>1. todo \in Seq(Calls) /\ todo # <<>> /\ todo[1] = f /\ t \in Seq(Calls) /\ Len(t) = Len(todo) - 1
  BY TailOf DEF CallType, Running
<1>2. \A i \in DOMAIN t : i + 1 \in DOMAIN todo /\ t[i] = todo[i + 1] BY <1>1, TailOf
<1> HIDE DEF t
<1>3. todo' = c \o t BY DEF Return, t
<1> DEFINE r == c \o t
<1>a. /\ Len(r) = Len(c) + Len(t) /\ r \in Seq(Calls)
      /\ \A i \in DOMAIN r : \/ i \in DOMAIN c /\ r[i] = c[i]
                             \/ i > Len(c) /\ i - Len(c) \in DOMAIN t /\ r[i] = t[i - Len(c)]
      /\ \A i \in DOMAIN c : r[i] = c[i]
  BY <1>1, Concat
<1> HIDE DEF r
<1>b. todo' = r BY <1>3 DEF r
<1>c. /\ DOMAIN r = 1 .. Len(r) /\ Len(c) \in Nat /\ DOMAIN c = 1 .. Len(c) /\ Len(t) \in Nat
      /\ Len(todo) \in Nat /\ DOMAIN todo = 1 .. Len(todo)
  BY <1>1, <1>a
<1>4. /\ Len(todo') = Len(c) + Len(t)
      /\ \A i \in DOMAIN todo' : \/ i \in DOMAIN c /\ todo'[i] = c[i]
                                 \/ i > Len(c) /\ i - Len(c) \in DOMAIN t /\ todo'[i] = t[i - Len(c)]
      /\ \A i \in DOMAIN c : todo'[i] = c[i]
      /\ DOMAIN todo' = 1 .. Len(todo') /\ Len(c) \in Nat /\ DOMAIN c = 1 .. Len(c) /\ Len(t) \in Nat
      /\ Len(todo) \in Nat /\ DOMAIN todo = 1 .. Len(todo)
  BY <1>a, <1>b, <1>c
<1> SUFFICES ASSUME NEW i \in DOMAIN todo', todo'[i] \in {"stopped", "play"}
             PROVE  /\ todo'[i] = "stopped" => i <= 2 /\ (i = 2 => todo'[1] \in {"sioWait", "sioJoined"})
                    /\ todo'[i] = "play" => i = Len(todo') /\ tape'.thread = "idle"
  BY DEF Places
<1>5. i > Len(c) /\ i - Len(c) \in DOMAIN t /\ todo'[i] = t[i - Len(c)]
  BY <1>4 DEF Has
<1> DEFINE j == i - Len(c) + 1
<1>6. j \in DOMAIN todo /\ todo'[i] = todo[j] /\ i = Len(c) + j - 1 /\ j >= 2 /\ j \in Nat /\ i \in Nat
  BY <1>2, <1>4, <1>5
<1> HIDE DEF j
<1>7. CASE todo'[i] = "stopped"
  <2>1. j = 2 /\ f \in {"sioWait", "sioJoined"} BY <1>1, <1>6, <1>7 DEF Places
  <2>2. CASE f = "sioWait"
    <3>1. Len(c) = 1 /\ c[1] = "sioJoined" /\ 1 \in DOMAIN c BY <1>4, <2>2
    <3>2. todo'[1] = "sioJoined" /\ i = 2 BY <1>4, <1>6, <2>1, <3>1
    <3> QED BY <1>7, <3>2
  <2>3. CASE f = "sioJoined" BY <1>4, <1>6, <1>7, <2>1, <2>3
  <2> QED BY <2>1, <2>2, <2>3
<1>8. CASE todo'[i] = "play"
  <2>1. j = Len(todo) /\ tape.thread = "idle" BY <1>6, <1>8 DEF Places
  <2> QED BY <1>1, <1>4, <1>6, <1>8, <2>1
<1> QED BY <1>7, <1>8

(* A call that returns does not change whether stopped is still to come.   *)
LEMMA ReturnHas ==
    ASSUME CallType, NEW f, Running(f), f # "stopped", NEW c \in Seq(Calls), Return(c), ~Has(c,
       "stopped")
    PROVE  Has(todo, "stopped") <=> Has(todo', "stopped")
<1> DEFINE t == Tail(todo)
<1>1. todo \in Seq(Calls) /\ todo # <<>> /\ todo[1] = f /\ t \in Seq(Calls)
  BY TailOf DEF CallType, Running
<1>2. /\ \A i \in DOMAIN t : i + 1 \in DOMAIN todo /\ t[i] = todo[i + 1]
      /\ \A i \in DOMAIN todo : i # 1 => i - 1 \in DOMAIN t /\ t[i - 1] = todo[i]
  BY <1>1, TailOf
<1> HIDE DEF t
<1>3. todo' = c \o t BY DEF Return, t
<1> DEFINE r == c \o t
<1>4. /\ \A i \in DOMAIN r : \/ i \in DOMAIN c /\ r[i] = c[i]
                             \/ i - Len(c) \in DOMAIN t /\ r[i] = t[i - Len(c)]
      /\ \A i \in DOMAIN t : Len(c) + i \in DOMAIN r /\ r[Len(c) + i] = t[i]
  BY <1>1, Concat
<1> HIDE DEF r
<1>5. ASSUME Has(todo, "stopped") PROVE Has(r, "stopped")
  <2>1. PICK i \in DOMAIN todo : todo[i] = "stopped" BY <1>5 DEF Has
  <2>2. i - 1 \in DOMAIN t /\ t[i - 1] = "stopped" BY <1>1, <1>2, <2>1
  <2> QED BY <1>4, <2>2 DEF Has
<1>6. ASSUME Has(r, "stopped") PROVE Has(todo, "stopped")
  <2>1. PICK i \in DOMAIN r : r[i] = "stopped" BY <1>6 DEF Has
  <2>2. i - Len(c) \in DOMAIN t /\ t[i - Len(c)] = "stopped" BY <1>4, <2>1 DEF Has
  <2> QED BY <1>2, <2>2 DEF Has
<1> QED BY <1>3, <1>5, <1>6 DEF r
(* A slot without calls is the empty one.                                  *)
LEMMA Empty == ASSUME NEW s \in Seq(Calls), Len(s) = 0 PROVE s = <<>>
OBVIOUS

(* Two short slots joined, written out: <<a>> and <<b>>, and so on.        *)
LEMMA Join11 ==
    ASSUME NEW a \in Calls, NEW b \in Calls
    PROVE  <<a>> \o <<b>> = <<a, b>>
<1>1. <<a>> \in Seq(Calls) /\ <<b>> \in Seq(Calls) /\ <<a, b>> \in Seq(Calls) OBVIOUS
<1>2. /\ Len(<<a>> \o <<b>>) = 2 /\ <<a>> \o <<b>> \in Seq(Calls)
      /\ \A i \in 1 .. 2 : (<<a>> \o <<b>>)[i] = <<a, b>>[i]
  BY <1>1
<1> QED BY <1>1, <1>2, SeqEqual

LEMMA Join12 ==
    ASSUME NEW a \in Calls, NEW b \in Calls, NEW c \in Calls
    PROVE  <<a>> \o <<b, c>> = <<a, b, c>>
<1>1. <<a>> \in Seq(Calls) /\ <<b, c>> \in Seq(Calls) /\ <<a, b, c>> \in Seq(Calls) OBVIOUS
<1>2. /\ Len(<<a>> \o <<b, c>>) = 3 /\ <<a>> \o <<b, c>> \in Seq(Calls)
      /\ \A i \in 1 .. 3 : (<<a>> \o <<b, c>>)[i] = <<a, b, c>>[i]
  BY <1>1
<1> QED BY <1>1, <1>2, SeqEqual

LEMMA Join13 ==
    ASSUME NEW a \in Calls, NEW b \in Calls, NEW c \in Calls, NEW d \in Calls
    PROVE  <<a>> \o <<b, c, d>> = <<a, b, c, d>>
<1>1. <<a>> \in Seq(Calls) /\ <<b, c, d>> \in Seq(Calls) /\ <<a, b, c, d>> \in Seq(Calls) OBVIOUS
<1>2. /\ Len(<<a>> \o <<b, c, d>>) = 4 /\ <<a>> \o <<b, c, d>> \in Seq(Calls)
      /\ \A i \in 1 .. 4 : (<<a>> \o <<b, c, d>>)[i] = <<a, b, c, d>>[i]
  BY <1>1
<1> QED BY <1>1, <1>2, SeqEqual

LEMMA Join22 ==
    ASSUME NEW a \in Calls, NEW b \in Calls, NEW c \in Calls, NEW d \in Calls
    PROVE  <<a, b>> \o <<c, d>> = <<a, b, c, d>>
<1>1. <<a, b>> \in Seq(Calls) /\ <<c, d>> \in Seq(Calls) /\ <<a, b, c, d>> \in Seq(Calls) OBVIOUS
<1>2. /\ Len(<<a, b>> \o <<c, d>>) = 4 /\ <<a, b>> \o <<c, d>> \in Seq(Calls)
      /\ \A i \in 1 .. 4 : (<<a, b>> \o <<c, d>>)[i] = <<a, b, c, d>>[i]
  BY <1>1
<1> QED BY <1>1, <1>2, SeqEqual

LEMMA Join31 ==
    ASSUME NEW a \in Calls, NEW b \in Calls, NEW c \in Calls, NEW d \in Calls
    PROVE  <<a, b, c>> \o <<d>> = <<a, b, c, d>>
<1>1. <<a, b, c>> \in Seq(Calls) /\ <<d>> \in Seq(Calls) /\ <<a, b, c, d>> \in Seq(Calls) OBVIOUS
<1>2. /\ Len(<<a, b, c>> \o <<d>>) = 4 /\ <<a, b, c>> \o <<d>> \in Seq(Calls)
      /\ \A i \in 1 .. 4 : (<<a, b, c>> \o <<d>>)[i] = <<a, b, c, d>>[i]
  BY <1>1
<1> QED BY <1>1, <1>2, SeqEqual

(* The rest of a short slot, written out.                                  *)
LEMMA Rest1 ==
    ASSUME NEW a \in Calls
    PROVE  Tail(<<a>>) = <<>> /\ Head(<<a>>) = a
OBVIOUS

LEMMA Rest2 ==
    ASSUME NEW a \in Calls, NEW b \in Calls
    PROVE  Tail(<<a, b>>) = <<b>> /\ Head(<<a, b>>) = a
OBVIOUS

LEMMA Rest3 ==
    ASSUME NEW a \in Calls, NEW b \in Calls, NEW c \in Calls
    PROVE  Tail(<<a, b, c>>) = <<b, c>> /\ Head(<<a, b, c>>) = a
OBVIOUS

LEMMA Rest4 ==
    ASSUME NEW a \in Calls, NEW b \in Calls, NEW c \in Calls, NEW d \in Calls
    PROVE  Tail(<<a, b, c, d>>) = <<b, c, d>> /\ Head(<<a, b, c, d>>) = a
OBVIOUS

(* Nothing joined to a slot is the slot.                                   *)
LEMMA Ends == ASSUME NEW s \in Seq(Calls) PROVE s \o <<>> = s /\ <<>> \o s = s
OBVIOUS


(* A call that returns with nothing more to do leaves the rest of a slot.  *)
LEMMA Drops ==
    ASSUME NEW f, Running(f), Return(<<>>)
    PROVE  /\ \A a \in Calls : todo = <<a>> => f = a /\ todo' = <<>>
           /\ \A a, b \in Calls : todo = <<a, b>> => f = a /\ todo' = <<b>>
           /\ \A a, b, d \in Calls : todo = <<a, b, d>> => f = a /\ todo' = <<b, d>>
           /\ \A a, b, d, e \in Calls : todo = <<a, b, d, e>> => f = a /\ todo' = <<b, d, e>>
<1>1. <<>> \in Seq(Calls) BY Plans
<1>2. ASSUME NEW a \in Calls, todo = <<a>> PROVE f = a /\ todo' = <<>>
  <2>1. Tail(todo) = <<>> /\ Head(todo) = a BY <1>2, Rest1
  <2> QED BY <1>1, <2>1, Ends DEF Running, Return
<1>3. ASSUME NEW a \in Calls, NEW b \in Calls, todo = <<a, b>> PROVE f = a /\ todo' = <<b>>
  <2>1. f = a /\ todo' = <<>> \o <<b>>
    <3>1. Tail(todo) = <<b>> /\ Head(todo) = a BY <1>3, Rest2
    <3> QED BY <3>1, Zenon DEF Running, Return
  <2>2. <<b>> \in Seq(Calls) OBVIOUS
  <2>3. <<>> \o <<b>> = <<b>> BY <2>2, Ends, Zenon
  <2> QED BY <2>1, <2>2, <2>3, Zenon
<1>4. ASSUME NEW a \in Calls, NEW b \in Calls, NEW d \in Calls, todo = <<a, b, d>> PROVE f = a /\ todo' = <<b, d>>
  <2>1. f = a /\ todo' = <<>> \o <<b, d>>
    <3>1. Tail(todo) = <<b, d>> /\ Head(todo) = a BY <1>4, Rest3
    <3> QED BY <3>1, Zenon DEF Running, Return
  <2>2. <<b, d>> \in Seq(Calls) OBVIOUS
  <2>3. <<>> \o <<b, d>> = <<b, d>> BY <2>2, Ends, Zenon
  <2> QED BY <2>1, <2>2, <2>3, Zenon
<1>5. ASSUME NEW a \in Calls, NEW b \in Calls, NEW d \in Calls, NEW e \in Calls, todo = <<a, b, d, e>> PROVE f = a /\ todo' = <<b, d, e>>
  <2>1. f = a /\ todo' = <<>> \o <<b, d, e>>
    <3>1. Tail(todo) = <<b, d, e>> /\ Head(todo) = a BY <1>5, Rest4
    <3> QED BY <3>1, Zenon DEF Running, Return
  <2>2. <<b, d, e>> \in Seq(Calls) OBVIOUS
  <2>3. <<>> \o <<b, d, e>> = <<b, d, e>> BY <2>2, Ends, Zenon
  <2> QED BY <2>1, <2>2, <2>3, Zenon
<1> QED BY <1>2, <1>3, <1>4, <1>5, Zenon

(* A call that returns with one thing more to do has replaced itself.      *)
LEMMA Swaps ==
    ASSUME NEW f, Running(f), NEW x \in Calls, Return(<<x>>)
    PROVE  /\ \A a \in Calls : todo = <<a>> => f = a /\ todo' = <<x>>
           /\ \A a, b \in Calls : todo = <<a, b>> => f = a /\ todo' = <<x, b>>
           /\ \A a, b, d \in Calls : todo = <<a, b, d>> => f = a /\ todo' = <<x, b, d>>
           /\ \A a, b, d, e \in Calls : todo = <<a, b, d, e>> => f = a /\ todo' = <<x, b, d, e>>
<1>1. <<x>> \in Seq(Calls) OBVIOUS
<1>2. ASSUME NEW a \in Calls, todo = <<a>> PROVE f = a /\ todo' = <<x>>
  <2>1. Tail(todo) = <<>> /\ Head(todo) = a BY <1>2, Rest1
  <2> QED BY <1>1, <2>1, Ends DEF Running, Return
<1>3. ASSUME NEW a \in Calls, NEW b \in Calls, todo = <<a, b>> PROVE f = a /\ todo' = <<x, b>>
  <2>1. f = a /\ todo' = <<x>> \o <<b>>
    <3>1. Tail(todo) = <<b>> /\ Head(todo) = a BY <1>3, Rest2
    <3> QED BY <3>1, Zenon DEF Running, Return
  <2>2. <<x>> \o <<b>> = <<x, b>> BY Join11, Zenon
  <2> QED BY <2>1, <2>2, Zenon
<1>4. ASSUME NEW a \in Calls, NEW b \in Calls, NEW d \in Calls, todo = <<a, b, d>> PROVE f = a /\ todo' = <<x, b, d>>
  <2>1. f = a /\ todo' = <<x>> \o <<b, d>>
    <3>1. Tail(todo) = <<b, d>> /\ Head(todo) = a BY <1>4, Rest3
    <3> QED BY <3>1, Zenon DEF Running, Return
  <2>2. <<x>> \o <<b, d>> = <<x, b, d>> BY Join12, Zenon
  <2> QED BY <2>1, <2>2, Zenon
<1>5. ASSUME NEW a \in Calls, NEW b \in Calls, NEW d \in Calls, NEW e \in Calls, todo = <<a, b, d, e>> PROVE f = a /\ todo' = <<x, b, d, e>>
  <2>1. f = a /\ todo' = <<x>> \o <<b, d, e>>
    <3>1. Tail(todo) = <<b, d, e>> /\ Head(todo) = a BY <1>5, Rest4
    <3> QED BY <3>1, Zenon DEF Running, Return
  <2>2. <<x>> \o <<b, d, e>> = <<x, b, d, e>> BY Join13, ZenonT(30)
  <2> QED BY <2>1, <2>2, Zenon
<1> QED BY <1>2, <1>3, <1>4, <1>5, Zenon

(* The slots of the play button and of a session, while emulation runs or  *)
(* not.                                                                    *)
LEMMA Joined ==
    /\ <<"toggle", "sioWait", "pump">> \o <<"play">> = <<"toggle", "sioWait", "pump", "play">>
    /\ <<"toggle", "sioWait", "pump">> \o <<"toggle">> = <<"toggle", "sioWait", "pump", "toggle">>
    /\ <<>> \o <<"play">> = <<"play">> /\ <<>> \o <<"toggle">> = <<"toggle">>
<1>1. /\ "toggle" \in Calls /\ "sioWait" \in Calls /\ "pump" \in Calls /\ "play" \in Calls
      /\ <<"toggle">> \in Seq(Calls) /\ <<"play">> \in Seq(Calls)
  BY Plans DEF Calls
<1>2. <<"toggle", "sioWait", "pump">> \o <<"play">> = <<"toggle", "sioWait", "pump", "play">>
  BY <1>1, Join31, ZenonT(30)
<1>3. <<"toggle", "sioWait", "pump">> \o <<"toggle">> = <<"toggle", "sioWait", "pump", "toggle">>
  BY <1>1, Join31, Zenon
<1>4. <<>> \o <<"play">> = <<"play">> /\ <<>> \o <<"toggle">> = <<"toggle">>
  BY <1>1, Ends, Zenon
<1> QED BY <1>2, <1>3, <1>4, Zenon

(* None of the sequences put in front has a stopped in it ...              *)
LEMMA NoneStopped ==
    /\ ~Has(<<>>, "stopped") /\ ~Has(<<"start">>, "stopped") /\ ~Has(<<"toggle">>, "stopped")
    /\ ~Has(<<"tapeWait">>, "stopped") /\ ~Has(<<"resume">>, "stopped")
    /\ ~Has(<<"load", "resume">>, "stopped") /\ ~Has(<<"tapeWait", "load", "resume">>, "stopped")
    /\ ~Has(<<"eject">>, "stopped") /\ ~Has(<<"sioJoined">>, "stopped") /\ ~Has(<<"tapeJoined">>, "stopped")
BY DEF Has

(* ... or a play.                                                          *)
LEMMA NonePlay ==
    /\ ~Has(<<>>, "play") /\ ~Has(<<"start">>, "play") /\ ~Has(<<"toggle">>, "play")
    /\ ~Has(<<"tapeWait">>, "play") /\ ~Has(<<"resume">>, "play")
    /\ ~Has(<<"load", "resume">>, "play") /\ ~Has(<<"tapeWait", "load", "resume">>, "play")
    /\ ~Has(<<"eject">>, "play") /\ ~Has(<<"sioJoined">>, "play") /\ ~Has(<<"tapeJoined">>, "play")
BY DEF Has

(* Returns(f, c): the running call f returns, and c is done before the     *)
(* rest.                                                                   *)
Small == {<<>>, <<"start">>, <<"toggle">>, <<"tapeWait">>, <<"resume">>, <<"load", "resume">>,
          <<"tapeWait", "load", "resume">>, <<"sioJoined">>, <<"tapeJoined">>}

Returns(f, c) ==
    /\ Running(f) /\ Return(c) /\ c \in Small
    /\ f = "sioWait" => c = <<"sioJoined">>
    /\ f = "sioJoined" => c = <<>>

(* Every call of the engine returns so, or delivers a signal.              *)
LEMMA EveryReturn ==
    /\ SioStart => Returns("start", <<>>)
    /\ SioWait => Returns("sioWait", <<"sioJoined">>)
    /\ SioJoined => Returns("sioJoined", <<>>)
    /\ TapeWait => Returns("tapeWait", <<"tapeJoined">>)
    /\ TapeJoined => Returns("tapeJoined", <<>>)
    /\ Toggle => \E c \in Small : Returns("toggle", c)
    /\ Stopped => \E c \in Small : Returns("stopped", c)
    /\ Play => Returns("play", <<>>)
    /\ Eject => \E c \in Small : Returns("eject", c)
    /\ Load => Returns("load", <<>>)
    /\ Resume => \E c \in Small : Returns("resume", c)
    /\ Pump /\ ~Deliver(todo) => Returns("pump", <<>>)
<1> USE DEF Returns, Small
<1>1. SioStart => Returns("start", <<>>) BY DEF SioStart
<1>2. SioWait => Returns("sioWait", <<"sioJoined">>) BY DEF SioWait
<1>3. SioJoined => Returns("sioJoined", <<>>) BY DEF SioJoined
<1>4. TapeWait => Returns("tapeWait", <<"tapeJoined">>) BY DEF TapeWait
<1>5. TapeJoined => Returns("tapeJoined", <<>>) BY DEF TapeJoined
<1>6. Toggle => \E c \in Small : Returns("toggle", c) BY DEF Toggle, StopTape
<1>7. Stopped => \E c \in Small : Returns("stopped", c) BY DEF Stopped
<1>8. Play => Returns("play", <<>>) BY DEF Play
<1>9. Eject => \E c \in Small : Returns("eject", c) BY DEF Eject
<1>10. Load => Returns("load", <<>>) BY DEF Load
<1>11. Resume => \E c \in Small : Returns("resume", c) BY DEF Resume
<1>12. Pump /\ ~Deliver(todo) => Returns("pump", <<>>) BY DEF Pump
<1> HIDE DEF Returns, Small
<1> QED BY <1>1, <1>2, <1>3, <1>4, <1>5, <1>6, <1>7, <1>8, <1>9, <1>10, <1>11, <1>12

(* What is done before the rest has neither a stopped nor a play.          *)
LEMMA ReturnsType ==
    ASSUME NEW c \in Small
    PROVE  c \in Seq(Calls) /\ ~Has(c, "stopped") /\ ~Has(c, "play")
BY Plans, NoneStopped, NonePlay DEF Small

(* Places and the stopped to come, in terms of Returns.                    *)
LEMMA ReturnsPlaces ==
    ASSUME CallType, Places, NEW f, NEW c, Returns(f, c),
       tape.thread = "idle" => tape'.thread = "idle"
    PROVE  Places'
<1>1. c \in Seq(Calls) /\ ~Has(c, "stopped") /\ ~Has(c, "play") BY ReturnsType DEF Returns
<1>2. f = "sioWait" => Len(c) = 1 /\ c[1] = "sioJoined" BY DEF Returns
<1>3. f = "sioJoined" => Len(c) = 0 BY DEF Returns
<1> QED BY <1>1, <1>2, <1>3, ReturnPlaces DEF Returns

LEMMA ReturnsHas ==
    ASSUME CallType, NEW f, NEW c, Returns(f, c), f # "stopped"
    PROVE  Has(todo, "stopped") <=> Has(todo', "stopped")
BY ReturnsType, ReturnHas DEF Returns

(* A slot starts in an idle engine or in one that pumps, and there is no   *)
(* stopped to come.                                                        *)
LEMMA DeliverPlaces ==
    ASSUME CallType, Places, NEW rest \in {<<>>, todo}, rest # <<>> => Running("pump"), Deliver(rest)
    PROVE  Places' /\ ~Has(rest, "stopped")
<1>1. rest \in Seq(Calls) BY Plans DEF CallType
<1>2. ~Has(rest, "stopped")
  <2>1. CASE rest = <<>> BY <2>1, NoneStopped
  <2>2. CASE rest # <<>>
    <3>1. rest = todo /\ todo # <<>> /\ todo[1] = "pump" BY <2>2, TailOf DEF Running, CallType
    <3> QED BY <3>1 DEF Places, Has, CallType
  <2> QED BY <2>1, <2>2
<1>3. \A i \in DOMAIN rest : rest[i] = "play" => i = Len(rest) /\ tape.thread = "idle"
  <2>1. CASE rest = <<>> BY <2>1
  <2>2. CASE rest = todo BY <2>2 DEF Places
  <2> QED BY <2>1, <2>2
<1> DEFINE slot == Slot(Head(events))
           r == slot \o rest
<1>4. slot \in {<<"sioWait", "stopped">>, <<"resume">>, <<>>}
  <2>1. Head(events) \in Signals BY DEF Deliver, CallType
  <2> QED BY <2>1 DEF Slot, Signals
<1>5. todo' = r /\ tape' = tape BY DEF Deliver
<1> HIDE DEF slot
<1>6. slot \in Seq(Calls) BY <1>4, Plans
<1>7. /\ Len(r) = Len(slot) + Len(rest) /\ r \in Seq(Calls)
      /\ \A i \in DOMAIN r : \/ i \in DOMAIN slot /\ r[i] = slot[i]
                             \/ i > Len(slot) /\ i - Len(slot) \in DOMAIN rest /\ r[i] = rest[i - Len(slot)]
      /\ \A i \in DOMAIN slot : r[i] = slot[i]
  BY <1>1, <1>6, Concat
<1> HIDE DEF r
<1>8. \A i \in DOMAIN slot : /\ slot[i] # "play"
                             /\ slot[i] = "stopped" => i = 2 /\ 1 \in DOMAIN slot /\ slot[1] = "sioWait"
  BY <1>4
<1>9. ASSUME NEW i \in DOMAIN r, r[i] = "stopped" PROVE i <= 2 /\ (i = 2 => r[1] \in {"sioWait", "sioJoined"})
  BY <1>2, <1>7, <1>8, <1>9 DEF Has
<1>10. ASSUME NEW i \in DOMAIN r, r[i] = "play" PROVE i = Len(r) /\ tape.thread = "idle"
  <2>1. i - Len(slot) = Len(rest) /\ tape.thread = "idle" BY <1>3, <1>7, <1>8, <1>10
  <2>2. i \in Nat /\ Len(slot) \in Nat /\ Len(rest) \in Nat BY <1>1, <1>6, <1>7
  <2> QED BY <1>7, <2>1, <2>2
<1> QED BY <1>2, <1>5, <1>9, <1>10 DEF Places

(* stopped and play stay in their places.                                  *)
LEMMA PlacesNext == CallType /\ TapeType /\ Places /\ [Next]_vars => Places'
<1> SUFFICES ASSUME CallType /\ TapeType /\ Places, [Next]_vars PROVE Places' OBVIOUS
<1> USE DEF TapeType, line, engine, ghost, vars
<1>1. CASE PressToggle BY <1>1 DEF PressToggle, Acts, Places
<1>2. CASE PressPlay
  <2>1. tape.thread = "idle" /\ tape' = tape BY <1>2 DEF PressPlay
  <2>2. todo' = (IF emulating THEN <<"toggle", "sioWait", "pump">> ELSE <<>>) \o <<"play">>
    BY <1>2 DEF PressPlay, Acts, Places
  <2>3. todo' = <<"toggle", "sioWait", "pump", "play">> \/ todo' = <<"play">> BY <2>2, Joined
  <2>4. CASE todo' = <<"toggle", "sioWait", "pump", "play">> BY <2>1, <2>4 DEF Places
  <2>5. CASE todo' = <<"play">> BY <2>1, <2>5 DEF Places
  <2> QED BY <2>3, <2>4, <2>5
<1>3. CASE LoadOrEject BY <1>3 DEF LoadOrEject, Acts, Places
<1>4. CASE ApplyOptions BY <1>4 DEF ApplyOptions, Acts, AskStop, Places
<1>5. CASE LoadSession
  <2>1. todo' = (IF emulating THEN <<"toggle", "sioWait", "pump">> ELSE <<>>) \o <<"toggle">>
    BY <1>5 DEF LoadSession, Acts, Places
  <2>2. todo' = <<"toggle", "sioWait", "pump", "toggle">> \/ todo' = <<"toggle">> BY <2>1, Joined
  <2> QED BY <2>2 DEF Places
<1>6. CASE CableTimer BY <1>6 DEF CableTimer, Acts, Places
<1>7. CASE EventLoop
  <2>1. Deliver(<<>>) /\ <<>> \in {<<>>, todo} BY <1>7 DEF EventLoop
  <2> QED BY <2>1, DeliverPlaces
<1>8. CASE Pump
  <2>1. CASE Deliver(todo)
    <3>1. Running("pump") BY <1>8 DEF Pump
    <3> QED BY <2>1, <3>1, DeliverPlaces
  <2>2. CASE ~Deliver(todo)
    <3>1. Returns("pump", <<>>) BY <1>8, <2>2, EveryReturn
    <3>2. tape' = tape BY <1>8, <2>2 DEF Pump
    <3> QED BY <3>1, <3>2, ReturnsPlaces
  <2> QED BY <2>1, <2>2
<1>9. CASE SioStart
  <2>1. \E c \in Small : \E f \in Calls : Returns(f, c) BY <1>9, EveryReturn DEF Small, Calls
  <2>2. tape.thread = "idle" => tape'.thread = "idle" BY <1>9 DEF SioStart
  <2> QED BY <2>1, <2>2, ReturnsPlaces
<1>10. CASE SioWait
  <2>1. \E c \in Small : \E f \in Calls : Returns(f, c) BY <1>10, EveryReturn DEF Small, Calls
  <2>2. tape.thread = "idle" => tape'.thread = "idle" BY <1>10 DEF SioWait
  <2> QED BY <2>1, <2>2, ReturnsPlaces
<1>11. CASE SioJoined
  <2>1. \E c \in Small : \E f \in Calls : Returns(f, c) BY <1>11, EveryReturn DEF Small, Calls
  <2>2. tape.thread = "idle" => tape'.thread = "idle" BY <1>11 DEF SioJoined
  <2> QED BY <2>1, <2>2, ReturnsPlaces
<1>12. CASE TapeWait
  <2>1. \E c \in Small : \E f \in Calls : Returns(f, c) BY <1>12, EveryReturn DEF Small, Calls
  <2>2. tape.thread = "idle" => tape'.thread = "idle" BY <1>12 DEF TapeWait
  <2> QED BY <2>1, <2>2, ReturnsPlaces
<1>13. CASE TapeJoined
  <2>1. \E c \in Small : \E f \in Calls : Returns(f, c) BY <1>13, EveryReturn DEF Small, Calls
  <2>2. tape.thread = "idle" => tape'.thread = "idle" BY <1>13 DEF TapeJoined
  <2> QED BY <2>1, <2>2, ReturnsPlaces
<1>14. CASE Toggle
  <2>1. \E c \in Small : \E f \in Calls : Returns(f, c) BY <1>14, EveryReturn DEF Small, Calls
  <2>2. tape.thread = "idle" => tape'.thread = "idle" BY <1>14 DEF Toggle
  <2> QED BY <2>1, <2>2, ReturnsPlaces
<1>15. CASE Stopped
  <2>1. \E c \in Small : \E f \in Calls : Returns(f, c) BY <1>15, EveryReturn DEF Small, Calls
  <2>2. tape.thread = "idle" => tape'.thread = "idle" BY <1>15 DEF Stopped
  <2> QED BY <2>1, <2>2, ReturnsPlaces
<1>16. CASE Play
  <2>1. todo \in Seq(Calls) /\ todo # <<>> /\ todo[1] = "play" /\ 1 \in DOMAIN todo
    BY <1>16, TailOf DEF Play, Running, CallType
  <2>2. Len(todo) = 1 BY <2>1 DEF Places
  <2>3. Tail(todo) = <<>>
    <3>1. Tail(todo) \in Seq(Calls) /\ Len(Tail(todo)) = 0 BY <2>1, <2>2, TailOf
    <3> QED BY <3>1, Empty
  <2>4. todo' = <<>> BY <1>16, <2>3 DEF Play, Return
  <2> QED BY <2>4 DEF Places
<1>17. CASE Eject
  <2>1. \E c \in Small : \E f \in Calls : Returns(f, c) BY <1>17, EveryReturn DEF Small, Calls
  <2>2. tape.thread = "idle" => tape'.thread = "idle" BY <1>17 DEF Eject
  <2> QED BY <2>1, <2>2, ReturnsPlaces
<1>18. CASE Load
  <2>1. \E c \in Small : \E f \in Calls : Returns(f, c) BY <1>18, EveryReturn DEF Small, Calls
  <2>2. tape.thread = "idle" => tape'.thread = "idle" BY <1>18 DEF Load
  <2> QED BY <2>1, <2>2, ReturnsPlaces
<1>19. CASE Resume
  <2>1. \E c \in Small : \E f \in Calls : Returns(f, c) BY <1>19, EveryReturn DEF Small, Calls
  <2>2. tape.thread = "idle" => tape'.thread = "idle" BY <1>19 DEF Resume
  <2> QED BY <2>1, <2>2, ReturnsPlaces
<1>20. CASE SioBegins BY <1>20 DEF SioBegins, Places
<1>21. CASE SioOpens BY <1>21 DEF SioOpens, Leave, Places
<1>22. CASE SioPolls BY <1>22 DEF SioPolls, Leave, Close, Places
<1>23. CASE SioServes BY <1>23 DEF SioServes, Places
<1>24. CASE SioGivesUp BY <1>24 DEF SioGivesUp, Fails, Leave, Close, Places
<1>25. CASE LineFails BY <1>25 DEF LineFails, Fails, Leave, Close, Places
<1>26. CASE TapeOpens BY <1>26 DEF TapeOpens, TapeOver, Overlooked, Places
<1>27. CASE TapeStops BY <1>27 DEF TapeStops, TapeOver, Places
<1>28. CASE TapeRefused BY <1>28 DEF TapeRefused, TapeOver, Overlooked, Places
<1>29. CASE TapeLastByte BY <1>29 DEF TapeLastByte, Places
<1>30. CASE TapeCloses BY <1>30 DEF TapeCloses, TapeOver, Close, Places
<1>31. CASE UNCHANGED vars BY <1>31 DEF Places
<1> QED
  BY <1>1, <1>2, <1>3, <1>4, <1>5, <1>6, <1>7, <1>8, <1>9, <1>10, <1>11, <1>12, <1>13, <1>14, <1>15,
     <1>16, <1>17, <1>18, <1>19, <1>20, <1>21, <1>22, <1>23, <1>24, <1>25, <1>26, <1>27, <1>28,
        <1>29, <1>30,
     <1>31
  DEF Next, User, EngineCall, Threads

(* A player finds its mutex unlocked only when this playback was stopped,  *)
(* or when an earlier one had overlooked it.                               *)
LEMMA ToldNext == CallType /\ TapeType /\ Places /\ Told /\ [Next]_vars => Told'
<1> SUFFICES ASSUME CallType /\ TapeType /\ Places /\ Told, [Next]_vars PROVE Told' OBVIOUS
<1> USE DEF TapeType, Told, line, engine, ghost, vars
<1>1. CASE PressToggle BY <1>1 DEF PressToggle, Acts
<1>2. CASE PressPlay BY <1>2 DEF PressPlay, Acts
<1>3. CASE LoadOrEject BY <1>3 DEF LoadOrEject, Acts
<1>4. CASE ApplyOptions BY <1>4 DEF ApplyOptions, Acts, AskStop
<1>5. CASE LoadSession BY <1>5 DEF LoadSession, Acts
<1>6. CASE CableTimer BY <1>6 DEF CableTimer, Acts
<1>7. CASE EventLoop BY <1>7 DEF EventLoop, Deliver, Slot
<1>8. CASE Pump BY <1>8 DEF Pump, Deliver, Slot, Running, Return
<1>9. CASE SioStart BY <1>9 DEF SioStart, Running, Return
<1>10. CASE SioWait BY <1>10 DEF SioWait, AskStop, Running, Return
<1>11. CASE SioJoined BY <1>11 DEF SioJoined, Delete, Running, Return
<1>12. CASE TapeWait BY <1>12 DEF TapeWait, Running, Return
<1>13. CASE TapeJoined BY <1>13 DEF TapeJoined, Delete, Running, Return
<1>14. CASE Toggle BY <1>14 DEF Toggle, StopTape, Takes, AskStop, Running, Return
<1>15. CASE Stopped BY <1>15 DEF Stopped, Running, Return
<1>16. CASE Play
  <2>1. tape.thread = "idle" BY <1>16, TailOf DEF Play, Running, CallType, Places
  <2> QED BY <1>16, <2>1 DEF Play
<1>17. CASE Eject BY <1>17 DEF Eject, Running, Return
<1>18. CASE Load BY <1>18 DEF Load, Running, Return
<1>19. CASE Resume BY <1>19 DEF Resume, Running, Return
<1>20. CASE SioBegins BY <1>20 DEF SioBegins
<1>21. CASE SioOpens BY <1>21 DEF SioOpens, Leave
<1>22. CASE SioPolls BY <1>22 DEF SioPolls, Leave, Close
<1>23. CASE SioServes BY <1>23 DEF SioServes
<1>24. CASE SioGivesUp BY <1>24 DEF SioGivesUp, Fails, Leave, Close
<1>25. CASE LineFails BY <1>25 DEF LineFails, Fails, Leave, Close
<1>26. CASE TapeOpens BY <1>26 DEF TapeOpens, TapeOver, Overlooked
<1>27. CASE TapeStops BY <1>27 DEF TapeStops, TapeOver
<1>28. CASE TapeRefused BY <1>28 DEF TapeRefused, TapeOver, Overlooked
<1>29. CASE TapeLastByte BY <1>29 DEF TapeLastByte
<1>30. CASE TapeCloses BY <1>30 DEF TapeCloses, TapeOver, Close
<1>31. CASE UNCHANGED vars BY <1>31
<1> QED
  BY <1>1, <1>2, <1>3, <1>4, <1>5, <1>6, <1>7, <1>8, <1>9, <1>10, <1>11, <1>12, <1>13, <1>14, <1>15,
     <1>16, <1>17, <1>18, <1>19, <1>20, <1>21, <1>22, <1>23, <1>24, <1>25, <1>26, <1>27, <1>28,
        <1>29, <1>30,
     <1>31
  DEF Next, User, EngineCall, Threads

(* A step that leaves the signals, the flag and the thread alone.          *)
LEMMA SameHeard ==
    ASSUME Heard, UNCHANGED <<events, emulating>>, Up' <=> Up, Has(todo, "stopped")' <=> Has(todo, "stopped")
    PROVE  Heard'
BY DEF Heard, Last, Has

(* A thread that announces itself, or that leaves, as the last signal.     *)
LEMMA AppendHeard ==
    ASSUME CallType, Heard, NEW e \in Signals, events' = Append(events, e), UNCHANGED <<todo, emulating>>,
           e = "started" => Up', e = "finished" => ~Up', e = "casFinished" => (Up' <=> Up)
    PROVE  Heard'
<1> DEFINE r == Append(events, e)
           n == Len(events)
<1>1. /\ DOMAIN r = 1 .. n + 1 /\ n \in Nat /\ DOMAIN events = 1 .. n
      /\ r[n + 1] = e /\ \A i \in 1 .. n : r[i] = events[i]
  BY DEF CallType
<1> HIDE DEF r, n
<1>2. events' = r BY DEF r
<1>3. CASE e = "casFinished"
  <2>1. ASSUME NEW i \in DOMAIN r, NEW x \in {"started", "finished"}, Last(i, x)'
        PROVE  i \in DOMAIN events /\ Last(i, x)
    BY <1>1, <1>2, <1>3, <2>1 DEF Last
  <2>2. ASSUME NEW x \in {"started", "finished"} PROVE Has(r, x) <=> Has(events, x)
    BY <1>1, <1>3 DEF Has
  <2>3. Has(todo, "stopped")' <=> Has(todo, "stopped") BY DEF Has
  <2>4. /\ \A i \in DOMAIN r : Last(i, "started")' => Up'
        /\ \A i \in DOMAIN r : Last(i, "finished")' => ~Up'
    BY <1>3, <2>1 DEF Heard
  <2>5. (~Has(events, "started") /\ ~Has(events, "finished"))' =>
           IF Has(todo, "stopped")' THEN ~Up' ELSE emulating' <=> Up'
    BY <1>2, <1>3, <2>2, <2>3 DEF Heard
  <2> QED BY <1>2, <2>4, <2>5 DEF Heard
<1>4. CASE e # "casFinished"
  <2>1. ASSUME NEW i \in DOMAIN r, NEW x, x # "casFinished", Last(i, x)' PROVE x = e
    BY <1>1, <1>2, <1>4, <2>1 DEF Last
  <2>2. Has(r, e) BY <1>1 DEF Has
  <2>3. e \in {"started", "finished"} BY <1>4 DEF Signals
  <2>4. /\ \A i \in DOMAIN r : Last(i, "started")' => Up'
        /\ \A i \in DOMAIN r : Last(i, "finished")' => ~Up'
    BY <2>1, <2>3
  <2> QED BY <1>2, <2>2, <2>3, <2>4 DEF Heard
<1> QED BY <1>3, <1>4

(* The first signal is heard: the flag follows it, or sioFinished will     *)
(* clear it.                                                               *)
LEMMA DeliverHeard ==
    ASSUME CallType, Heard, NEW rest \in {<<>>, todo}, ~Has(rest, "stopped"), Deliver(rest), sio' = sio,
           ~Has(todo, "stopped"), FlagType
    PROVE  Heard'
<1>1. /\ events # <<>> /\ events' = Tail(events) /\ todo' = Slot(Head(events)) \o rest
      /\ emulating' = (emulating \/ Head(events) = "started")
  BY DEF Deliver
<1> DEFINE t == Tail(events)
           e == Head(events)
           n == Len(events)
<1>2. /\ n \in Nat /\ n > 0 /\ DOMAIN events = 1 .. n /\ e = events[1] /\ e \in Signals
      /\ DOMAIN t = 1 .. n - 1 /\ \A i \in 1 .. n - 1 : t[i] = events[i + 1]
  BY <1>1 DEF CallType
<1> HIDE DEF t, e, n
<1>3. events' = t BY <1>1 DEF t
<1>4. Up' <=> Up BY DEF Up
<1>5. ASSUME NEW i \in DOMAIN t, NEW x, Last(i, x)' PROVE i + 1 \in DOMAIN events /\ Last(i + 1, x)
  <2>1. i \in Nat /\ i + 1 \in 1 .. n /\ events[i + 1] = x BY <1>2, <1>3, <1>5 DEF Last
  <2>2. ASSUME NEW j \in DOMAIN events, j > i + 1 PROVE events[j] = "casFinished"
    <3>1. j - 1 \in DOMAIN t /\ j - 1 > i /\ t[j - 1] = events[j] BY <1>2, <2>1, <2>2
    <3> QED BY <1>3, <1>5, <3>1 DEF Last
  <2> QED BY <1>2, <2>1, <2>2 DEF Last
<1>6. /\ \A i \in DOMAIN t : Last(i, "started")' => Up'
      /\ \A i \in DOMAIN t : Last(i, "finished")' => ~Up'
  BY <1>4, <1>5 DEF Heard
<1>7. ASSUME ~Has(t, "started"), ~Has(t, "finished")
      PROVE  IF Has(todo, "stopped")' THEN ~Up' ELSE emulating' <=> Up'
  <2>1. \A j \in DOMAIN events : j > 1 => events[j] = "casFinished"
    <3> SUFFICES ASSUME NEW j \in DOMAIN events, j > 1 PROVE events[j] = "casFinished" OBVIOUS
    <3>1. j - 1 \in DOMAIN t /\ t[j - 1] = events[j] BY <1>2
    <3>2. events[j] \in Signals BY DEF CallType
    <3> QED BY <1>7, <3>1, <3>2 DEF Has, Signals
  <2>2. 1 \in DOMAIN events /\ Last(1, e) BY <1>2, <2>1 DEF Last
  <2> DEFINE slot == Slot(e)
  <2>3. todo' = slot \o rest BY <1>1 DEF e
  <2>4. rest \in Seq(Calls) BY Plans DEF CallType
  <2>5. CASE e = "started"
    <3>1. todo' = rest
      <4>1. slot = <<>> BY <2>5 DEF Slot
      <4> QED BY <2>3, <2>4, <4>1, Ends, Zenon
    <3>2. Up BY <2>2, <2>5 DEF Heard
    <3>3. emulating' BY <1>1, <2>5 DEF e
    <3> QED BY <1>4, <3>1, <3>2, <3>3
  <2>6. CASE e = "finished"
    <3>1. ~Up BY <2>2, <2>6 DEF Heard
    <3>2. slot \in Seq(Calls) /\ slot[2] = "stopped" /\ 2 \in DOMAIN slot BY <2>6, Plans DEF Slot
    <3> HIDE DEF slot
    <3> DEFINE r == slot \o rest
    <3>3. 2 \in DOMAIN r /\ r[2] = "stopped" BY <2>4, <3>2, Concat
    <3> HIDE DEF r
    <3>4. todo' = r BY <2>3 DEF r
    <3>5. Has(todo, "stopped")' BY <3>3, <3>4 DEF Has
    <3> QED BY <1>4, <3>1, <3>5
  <2>7. CASE e = "casFinished"
    <3>1. \A j \in DOMAIN events : events[j] = "casFinished"
      <4>1. \A j \in DOMAIN events : j > 1 \/ j = 1 BY <1>2
      <4> QED BY <1>2, <2>1, <2>7, <4>1
    <3>0. ~Has(events, "started") /\ ~Has(events, "finished") BY <3>1 DEF Has
    <3>2. emulating <=> Up BY <3>0 DEF Heard
    <3>3. emulating' <=> emulating BY <1>1, <2>7 DEF e
    <3>4. ~Has(slot, "stopped") /\ slot \in Seq(Calls) BY <2>7, Plans, NoneStopped DEF Slot
    <3> HIDE DEF slot
    <3> DEFINE r == slot \o rest
    <3>5. \A i \in DOMAIN r : \/ i \in DOMAIN slot /\ r[i] = slot[i]
                              \/ i - Len(slot) \in DOMAIN rest /\ r[i] = rest[i - Len(slot)]
      BY <2>4, <3>4, Concat
    <3> HIDE DEF r
    <3>6. ~Has(r, "stopped") BY <3>4, <3>5 DEF Has
    <3>7. ~Has(todo, "stopped")' BY <2>3, <3>6 DEF r
    <3> QED BY <1>4, <3>2, <3>3, <3>7
  <2> QED BY <1>2, <2>5, <2>6, <2>7 DEF Signals
<1> QED BY <1>3, <1>6, <1>7 DEF Heard

(* What the engine will have heard when the queue is empty is how the SIO  *)
(* thread is: the last started or finished in the queue tells, and with    *)
(* none of them the flag does, or a stopped still to come.                 *)
LEMMA HeardNext == CallType /\ SioType /\ FlagType /\ Places /\ Heard /\ [Next]_vars => Heard'
<1> SUFFICES ASSUME CallType /\ SioType /\ FlagType /\ Places /\ Heard, [Next]_vars PROVE Heard' OBVIOUS
<1> USE DEF line, engine, ghost, vars
<1>1. CASE PressToggle
  <2>1. todo = <<>> /\ todo' = <<"toggle">> BY <1>1 DEF PressToggle, Acts
  <2>2. ~Has(todo, "stopped") /\ ~Has(todo', "stopped") BY <2>1, NoneStopped
  <2>3. (Up' <=> Up) /\ UNCHANGED <<events, emulating>> BY <1>1 DEF PressToggle, Up, SioType
  <2> QED BY <2>2, <2>3, SameHeard DEF Has
<1>2. CASE PressPlay
  <2>1. todo = <<>> /\ todo' = (IF emulating THEN <<"toggle", "sioWait", "pump">> ELSE <<>>) \o <<"play">>
    BY <1>2 DEF PressPlay, Acts
  <2>2. todo' = <<"toggle", "sioWait", "pump", "play">> \/ todo' = <<"play">> BY <2>1, Joined
  <2>3. ~Has(todo', "stopped") BY <2>2 DEF Has
  <2>4. ~Has(todo, "stopped") BY <2>1, NoneStopped
  <2>5. UNCHANGED <<sio, events, emulating>> BY <1>2 DEF PressPlay
  <2> QED BY <2>3, <2>4, <2>5, SameHeard DEF Up, Has
<1>3. CASE LoadOrEject
  <2>1. todo = <<>> /\ todo' = <<"eject">> BY <1>3 DEF LoadOrEject, Acts
  <2>2. ~Has(todo, "stopped") /\ ~Has(todo', "stopped") BY <2>1, NoneStopped
  <2>3. (Up' <=> Up) /\ UNCHANGED <<events, emulating>> BY <1>3 DEF LoadOrEject, Up, SioType
  <2> QED BY <2>2, <2>3, SameHeard DEF Has
<1>4. CASE ApplyOptions
  <2>1. todo = <<>> /\ todo' = <<>> BY <1>4 DEF ApplyOptions, Acts
  <2>2. ~Has(todo, "stopped") /\ ~Has(todo', "stopped") BY <2>1, NoneStopped
  <2>3. (Up' <=> Up) /\ UNCHANGED <<events, emulating>>
    BY <1>4 DEF ApplyOptions, AskStop, Up, SioType
  <2> QED BY <2>2, <2>3, SameHeard DEF Has
<1>5. CASE LoadSession
  <2>1. todo = <<>> /\ todo' = (IF emulating THEN <<"toggle", "sioWait", "pump">> ELSE <<>>) \o <<"toggle">>
    BY <1>5 DEF LoadSession, Acts
  <2>2. todo' = <<"toggle", "sioWait", "pump", "toggle">> \/ todo' = <<"toggle">> BY <2>1, Joined
  <2>3. ~Has(todo', "stopped") BY <2>2 DEF Has
  <2>4. ~Has(todo, "stopped") BY <2>1, NoneStopped
  <2>5. UNCHANGED <<sio, events, emulating>> BY <1>5 DEF LoadSession
  <2> QED BY <2>3, <2>4, <2>5, SameHeard DEF Up, Has
<1>6. CASE CableTimer
  <2>1. todo = <<>> /\ todo' = <<"toggle">> BY <1>6 DEF CableTimer, Acts
  <2>2. ~Has(todo, "stopped") /\ ~Has(todo', "stopped") BY <2>1, NoneStopped
  <2>3. (Up' <=> Up) /\ UNCHANGED <<events, emulating>> BY <1>6 DEF CableTimer, Up, SioType
  <2> QED BY <2>2, <2>3, SameHeard DEF Has
<1>7. CASE EventLoop
  <2>1. Deliver(<<>>) /\ todo = <<>> /\ <<>> \in {<<>>, todo} BY <1>7 DEF EventLoop
  <2>2. ~Has(todo, "stopped") BY <2>1, NoneStopped
  <2>3. sio' = sio BY <2>1 DEF Deliver
  <2> QED BY <2>1, <2>2, <2>3, DeliverHeard
<1>8. CASE Pump
  <2>1. CASE Deliver(todo)
    <3>1. Running("pump") BY <1>8 DEF Pump
    <3>2. ~Has(todo, "stopped") BY <2>1, <3>1, DeliverPlaces
    <3>3. sio' = sio BY <2>1 DEF Deliver
    <3> QED BY <2>1, <3>2, <3>3, DeliverHeard
  <2>2. CASE ~Deliver(todo)
    <3>1. Returns("pump", <<>>) BY <1>8, <2>2, EveryReturn
    <3>2. Has(todo, "stopped") <=> Has(todo', "stopped") BY <3>1, ReturnsHas
    <3>3. UNCHANGED <<sio, events, emulating>> BY <1>8, <2>2 DEF Pump, engine
    <3> QED BY <3>2, <3>3, SameHeard DEF Up, Has
  <2> QED BY <2>1, <2>2
<1>9. CASE SioStart
  <2>1. \E c \in Small : Returns("start", c) BY <1>9, EveryReturn DEF Small
  <2>2. Has(todo, "stopped") <=> Has(todo', "stopped") BY <2>1, ReturnsHas
  <2>3. Up' <=> Up BY <1>9 DEF SioStart, Up, SioType
  <2>4. UNCHANGED <<events, emulating>> BY <1>9 DEF SioStart
  <2> QED BY <2>2, <2>3, <2>4, SameHeard DEF Has
<1>10. CASE SioWait
  <2>1. \E c \in Small : Returns("sioWait", c) BY <1>10, EveryReturn DEF Small
  <2>2. Has(todo, "stopped") <=> Has(todo', "stopped") BY <2>1, ReturnsHas
  <2>3. Up' <=> Up BY <1>10 DEF SioWait, AskStop, Up, SioType
  <2>4. UNCHANGED <<events, emulating>> BY <1>10 DEF SioWait
  <2> QED BY <2>2, <2>3, <2>4, SameHeard DEF Has
<1>11. CASE SioJoined
  <2>1. \E c \in Small : Returns("sioJoined", c) BY <1>11, EveryReturn DEF Small
  <2>2. Has(todo, "stopped") <=> Has(todo', "stopped") BY <2>1, ReturnsHas
  <2>3. Up' <=> Up BY <1>11 DEF SioJoined, Up, SioType
  <2>4. UNCHANGED <<events, emulating>> BY <1>11 DEF SioJoined
  <2> QED BY <2>2, <2>3, <2>4, SameHeard DEF Has
<1>12. CASE TapeWait
  <2>1. \E c \in Small : Returns("tapeWait", c) BY <1>12, EveryReturn DEF Small
  <2>2. Has(todo, "stopped") <=> Has(todo', "stopped") BY <2>1, ReturnsHas
  <2>3. Up' <=> Up BY <1>12 DEF TapeWait, Up, SioType
  <2>4. UNCHANGED <<events, emulating>> BY <1>12 DEF TapeWait
  <2> QED BY <2>2, <2>3, <2>4, SameHeard DEF Has
<1>13. CASE TapeJoined
  <2>1. \E c \in Small : Returns("tapeJoined", c) BY <1>13, EveryReturn DEF Small
  <2>2. Has(todo, "stopped") <=> Has(todo', "stopped") BY <2>1, ReturnsHas
  <2>3. Up' <=> Up BY <1>13 DEF TapeJoined, Up, SioType
  <2>4. UNCHANGED <<events, emulating>> BY <1>13 DEF TapeJoined
  <2> QED BY <2>2, <2>3, <2>4, SameHeard DEF Has
<1>14. CASE Toggle
  <2>1. \E c \in Small : Returns("toggle", c) BY <1>14, EveryReturn DEF Small
  <2>2. Has(todo, "stopped") <=> Has(todo', "stopped") BY <2>1, ReturnsHas
  <2>3. Up' <=> Up BY <1>14 DEF Toggle, AskStop, Up, SioType
  <2>4. UNCHANGED <<events, emulating>> BY <1>14 DEF Toggle
  <2> QED BY <2>2, <2>3, <2>4, SameHeard DEF Has
<1>15. CASE Stopped
  <2>1. todo \in Seq(Calls) /\ todo # <<>> /\ todo[1] = "stopped" /\ 1 \in DOMAIN todo
    BY <1>15, TailOf DEF Stopped, Running, CallType
  <2>2. ~Has(Tail(todo), "stopped")
    <3>1. ASSUME NEW i \in DOMAIN Tail(todo), Tail(todo)[i] = "stopped" PROVE FALSE
      <4>1. i + 1 \in DOMAIN todo /\ todo[i + 1] = "stopped" /\ i \in Nat /\ i >= 1
        BY <2>1, <3>1, TailOf
      <4>2. i + 1 <= 2 /\ (i + 1 = 2 => todo[1] \in {"sioWait", "sioJoined"}) BY <4>1 DEF Places
      <4> QED BY <2>1, <4>1, <4>2
    <3> QED BY <3>1 DEF Has
  <2>3. PICK c \in Small : Returns("stopped", c) BY <1>15, EveryReturn DEF Small
  <2>4. c \in Seq(Calls) /\ ~Has(c, "stopped") /\ todo' = c \o Tail(todo)
    BY <2>3, ReturnsType DEF Returns, Return
  <2> DEFINE t == Tail(todo)
             r == c \o t
  <2>5. t \in Seq(Calls) BY <2>1, TailOf
  <2>6. \A i \in DOMAIN r : \/ i \in DOMAIN c /\ r[i] = c[i]
                            \/ i - Len(c) \in DOMAIN t /\ r[i] = t[i - Len(c)]
    BY <2>4, <2>5, Concat
  <2>7. todo' = r /\ ~Has(t, "stopped") BY <2>2, <2>4
  <2> HIDE DEF t, r
  <2>8. ~Has(r, "stopped") BY <2>4, <2>6, <2>7 DEF Has
  <2>9. Has(todo, "stopped") BY <2>1 DEF Has
  <2>10. emulating' = FALSE /\ events' = events /\ sio' = sio BY <1>15 DEF Stopped
  <2>11. Has(todo, "stopped")' = Has(r, "stopped") BY <2>7
  <2> QED BY <2>8, <2>9, <2>10, <2>11 DEF Heard, Last, Up, Has
<1>16. CASE Play
  <2>1. \E c \in Small : Returns("play", c) BY <1>16, EveryReturn DEF Small
  <2>2. Has(todo, "stopped") <=> Has(todo', "stopped") BY <2>1, ReturnsHas
  <2>3. Up' <=> Up BY <1>16 DEF Play, Up, SioType
  <2>4. UNCHANGED <<events, emulating>> BY <1>16 DEF Play
  <2> QED BY <2>2, <2>3, <2>4, SameHeard DEF Has
<1>17. CASE Eject
  <2>1. \E c \in Small : Returns("eject", c) BY <1>17, EveryReturn DEF Small
  <2>2. Has(todo, "stopped") <=> Has(todo', "stopped") BY <2>1, ReturnsHas
  <2>3. Up' <=> Up BY <1>17 DEF Eject, Up, SioType
  <2>4. UNCHANGED <<events, emulating>> BY <1>17 DEF Eject
  <2> QED BY <2>2, <2>3, <2>4, SameHeard DEF Has
<1>18. CASE Load
  <2>1. \E c \in Small : Returns("load", c) BY <1>18, EveryReturn DEF Small
  <2>2. Has(todo, "stopped") <=> Has(todo', "stopped") BY <2>1, ReturnsHas
  <2>3. Up' <=> Up BY <1>18 DEF Load, Up, SioType
  <2>4. UNCHANGED <<events, emulating>> BY <1>18 DEF Load
  <2> QED BY <2>2, <2>3, <2>4, SameHeard DEF Has
<1>19. CASE Resume
  <2>1. \E c \in Small : Returns("resume", c) BY <1>19, EveryReturn DEF Small
  <2>2. Has(todo, "stopped") <=> Has(todo', "stopped") BY <2>1, ReturnsHas
  <2>3. Up' <=> Up BY <1>19 DEF Resume, Up, SioType
  <2>4. UNCHANGED <<events, emulating>> BY <1>19 DEF Resume
  <2> QED BY <2>2, <2>3, <2>4, SameHeard DEF Has
<1>20. CASE SioBegins
  <2>1. "started" \in Signals BY DEF Signals
  <2>2. Up' BY <1>20 DEF SioBegins, Up, SioType
  <2> QED BY <1>20, <2>1, <2>2, AppendHeard DEF SioBegins
<1>21. CASE SioOpens
  <2>1. "finished" \in Signals BY DEF Signals
  <2>2. CASE Leave
    <3>1. ~Up' BY <2>2 DEF Leave, Up, SioType
    <3>2. UNCHANGED <<todo, emulating>> BY <1>21 DEF SioOpens
    <3> QED BY <2>1, <2>2, <3>1, <3>2, AppendHeard DEF Leave
  <2>3. CASE ~Leave
    <3>1. (Up' <=> Up) /\ UNCHANGED <<events, emulating, todo>>
      BY <1>21, <2>3 DEF SioOpens, Up, SioType
    <3> QED BY <3>1, SameHeard DEF Has
  <2> QED BY <2>2, <2>3
<1>22. CASE SioPolls
  <2>1. "finished" \in Signals BY DEF Signals
  <2>2. CASE Leave
    <3>1. ~Up' BY <2>2 DEF Leave, Up, SioType
    <3>2. UNCHANGED <<todo, emulating>> BY <1>22 DEF SioPolls
    <3> QED BY <2>1, <2>2, <3>1, <3>2, AppendHeard DEF Leave
  <2>3. CASE ~Leave
    <3>1. (Up' <=> Up) /\ UNCHANGED <<events, emulating, todo>>
      BY <1>22, <2>3 DEF SioPolls, Up, SioType
    <3> QED BY <3>1, SameHeard DEF Has
  <2> QED BY <2>2, <2>3
<1>23. CASE SioServes
  <2>1. (Up' <=> Up) /\ UNCHANGED <<events, emulating, todo>> BY <1>23 DEF SioServes, Up, SioType
  <2> QED BY <2>1, SameHeard DEF Has
<1>24. CASE SioGivesUp
  <2>1. "finished" \in Signals BY DEF Signals
  <2>2. CASE Leave
    <3>1. ~Up' BY <2>2 DEF Leave, Up, SioType
    <3>2. UNCHANGED <<todo, emulating>> BY <1>24 DEF SioGivesUp, Fails
    <3> QED BY <2>1, <2>2, <3>1, <3>2, AppendHeard DEF Leave
  <2> QED BY <1>24, <2>2 DEF SioGivesUp, Fails
<1>25. CASE LineFails
  <2>1. "finished" \in Signals BY DEF Signals
  <2>2. CASE Leave
    <3>1. ~Up' BY <2>2 DEF Leave, Up, SioType
    <3>2. UNCHANGED <<todo, emulating>> BY <1>25 DEF LineFails, Fails
    <3> QED BY <2>1, <2>2, <3>1, <3>2, AppendHeard DEF Leave
  <2> QED BY <1>25, <2>2 DEF LineFails, Fails
<1>26. CASE TapeOpens
  <2>1. "casFinished" \in Signals BY DEF Signals
  <2>2. UNCHANGED <<sio, emulating, todo>> BY <1>26 DEF TapeOpens
  <2>3. CASE TapeOver BY <2>1, <2>2, <2>3, AppendHeard DEF TapeOver, Up
  <2>4. CASE ~TapeOver
    <3>1. events' = events BY <1>26, <2>4 DEF TapeOpens
    <3> QED BY <2>2, <3>1, SameHeard DEF Up, Has
  <2> QED BY <2>3, <2>4
<1>27. CASE TapeStops
  <2>1. "casFinished" \in Signals BY DEF Signals
  <2>2. UNCHANGED <<sio, emulating, todo>> BY <1>27 DEF TapeStops
  <2> QED BY <1>27, <2>1, <2>2, AppendHeard DEF TapeStops, TapeOver, Up
<1>28. CASE TapeRefused
  <2>1. "casFinished" \in Signals BY DEF Signals
  <2>2. UNCHANGED <<sio, emulating, todo>> BY <1>28 DEF TapeRefused
  <2> QED BY <1>28, <2>1, <2>2, AppendHeard DEF TapeRefused, TapeOver, Up
<1>29. CASE TapeLastByte
  <2>1. UNCHANGED <<sio, events, emulating, todo>> BY <1>29 DEF TapeLastByte
  <2> QED BY <2>1, SameHeard DEF Up, Has
<1>30. CASE TapeCloses
  <2>1. "casFinished" \in Signals BY DEF Signals
  <2>2. UNCHANGED <<sio, emulating, todo>> BY <1>30 DEF TapeCloses
  <2> QED BY <1>30, <2>1, <2>2, AppendHeard DEF TapeCloses, TapeOver, Up
<1>31. CASE UNCHANGED vars
  <2>1. UNCHANGED <<sio, events, emulating, todo>> BY <1>31
  <2> QED BY <2>1, SameHeard DEF Up, Has
<1> QED
  BY <1>1, <1>2, <1>3, <1>4, <1>5, <1>6, <1>7, <1>8, <1>9, <1>10, <1>11, <1>12, <1>13, <1>14, <1>15,
     <1>16, <1>17, <1>18, <1>19, <1>20, <1>21, <1>22, <1>23, <1>24, <1>25, <1>26, <1>27, <1>28,
        <1>29, <1>30,
     <1>31
  DEF Next, User, EngineCall, Threads

-----------------------------------------------------------------------------
(* The situations of the engine, as long as no request of the user and no  *)
(* toggle meets a thread it has not heard of. Emulation is all off, with   *)
(* an errand of the engine under way; it is coming up, has started, has    *)
(* failed to; it serves; or its end is being heard. Each lists the slots   *)
(* that may be running and what the flags are then.                        *)
Quiet == Calm({"unheard", "stopping"})

AllOff ==
    /\ sio.thread = "idle" /\ sio.stop /\ ~emulating /\ ~restart
    /\ events \in {<<>>, <<"casFinished">>} /\ (tape.thread # "idle" => events = <<>>)

Errand ==
    \/ /\ todo \in {<<>>, <<"eject">>, <<"toggle">>, <<"tapeWait">>, <<"tapeJoined">>,
                    <<"tapeWait", "load", "resume">>, <<"tapeJoined", "load", "resume">>}
       /\ resume => tape.thread # "idle" \/ events # <<>>
    \/ todo = <<"load", "resume">> /\ tape.thread = "idle" /\ (resume => events # <<>>)
    \/ todo = <<"resume">> /\ tape.thread = "idle"
    \/ /\ todo \in {<<"play">>, <<"pump", "play">>}
       /\ tape.thread = "idle" /\ tape.loaded /\ events = <<>>
    \/ /\ todo \in {<<"start">>, <<"pump", "toggle">>}
       /\ tape.thread = "idle" /\ events = <<>> /\ ~resume

Down == AllOff /\ Errand

Coming ==
    /\ sio.thread = "starting" /\ ~sio.stop /\ ~emulating /\ ~restart /\ ~resume
    /\ tape.thread = "idle" /\ events = <<>> /\ todo = <<>>

Started ==
    /\ Up /\ ~sio.stop /\ ~emulating /\ ~restart /\ ~resume
    /\ tape.thread = "idle" /\ events = <<"started">> /\ todo = <<>>

Failed ==
    /\ sio.thread = "idle" /\ ~sio.stop /\ ~emulating /\ ~restart /\ ~resume
    /\ tape.thread = "idle" /\ events = <<"started", "finished">> /\ todo = <<>>

Serving ==
    /\ emulating /\ tape.thread = "idle"
    /\ \/ Up /\ events = <<>>
       \/ sio.thread = "idle" /\ events = <<"finished">>
    /\ \/ todo = <<>> /\ ~resume /\ (restart => sio.stop)
       \/ /\ ~sio.stop /\ ~restart /\ ~resume
          /\ todo \in {<<"eject">>, <<"load", "resume">>, <<"resume">>, <<"toggle">>,
                      <<"toggle", "sioWait", "pump", "toggle">>}
       \/ ~sio.stop /\ ~restart /\ tape.loaded /\ todo = <<"toggle", "sioWait", "pump", "play">>
       \/ /\ sio.stop /\ ~restart /\ ~resume
          /\ todo \in {<<"sioWait", "pump", "toggle">>, <<"sioJoined", "pump", "toggle">>}
       \/ /\ sio.stop /\ ~restart /\ tape.loaded
          /\ todo \in {<<"sioWait", "pump", "play">>, <<"sioJoined", "pump", "play">>}
       \/ /\ sio.stop /\ ~restart /\ sio.thread = "idle"
          /\ \/ todo = <<"pump", "play">> /\ tape.loaded
             \/ todo = <<"pump", "toggle">> /\ ~resume

Hearing ==
    /\ emulating /\ tape.thread = "idle" /\ sio.thread = "idle" /\ events = <<>>
    /\ \/ ~resume /\ todo \in {<<"sioWait", "stopped">>, <<"sioJoined", "stopped">>, <<"stopped">>}
       \/ /\ ~restart /\ ~resume
          /\ todo \in {<<"sioWait", "stopped", "pump", "toggle">>,
                      <<"sioJoined", "stopped", "pump", "toggle">>,
                      <<"stopped", "pump", "toggle">>}
       \/ /\ ~restart /\ tape.loaded
          /\ todo \in {<<"sioWait", "stopped", "pump", "play">>,
                      <<"sioJoined", "stopped", "pump", "play">>,
                      <<"stopped", "pump", "play">>}
    /\ restart => sio.stop
    /\ todo[1] # "sioWait" => sio.stop

Stage == Down \/ Coming \/ Started \/ Failed \/ Serving \/ Hearing

Loaded == tape.thread # "idle" => tape.loaded

Situation == Quiet => Loaded /\ Stage

(* The slots of the situations: which call each begins with.               *)
LEMMA Heads ==
    /\ Head(<<"eject">>) = "eject" /\ <<"eject">> # <<>>
    /\ Head(<<"toggle">>) = "toggle" /\ <<"toggle">> # <<>>
    /\ Head(<<"tapeWait">>) = "tapeWait" /\ <<"tapeWait">> # <<>>
    /\ Head(<<"tapeJoined">>) = "tapeJoined" /\ <<"tapeJoined">> # <<>>
    /\ Head(<<"tapeWait", "load", "resume">>) = "tapeWait" /\ <<"tapeWait", "load", "resume">> # <<>>
    /\ Head(<<"tapeJoined", "load", "resume">>) = "tapeJoined" /\ <<"tapeJoined", "load", "resume">> # <<>>
    /\ Head(<<"load", "resume">>) = "load" /\ <<"load", "resume">> # <<>>
    /\ Head(<<"resume">>) = "resume" /\ <<"resume">> # <<>>
    /\ Head(<<"play">>) = "play" /\ <<"play">> # <<>>
    /\ Head(<<"pump", "play">>) = "pump" /\ <<"pump", "play">> # <<>>
    /\ Head(<<"start">>) = "start" /\ <<"start">> # <<>>
    /\ Head(<<"pump", "toggle">>) = "pump" /\ <<"pump", "toggle">> # <<>>
    /\ Head(<<"toggle", "sioWait", "pump", "toggle">>) = "toggle" /\ <<"toggle", "sioWait", "pump", "toggle">> # <<>>
    /\ Head(<<"toggle", "sioWait", "pump", "play">>) = "toggle" /\ <<"toggle", "sioWait", "pump", "play">> # <<>>
    /\ Head(<<"sioWait", "pump", "toggle">>) = "sioWait" /\ <<"sioWait", "pump", "toggle">> # <<>>
    /\ Head(<<"sioJoined", "pump", "toggle">>) = "sioJoined" /\ <<"sioJoined", "pump", "toggle">> # <<>>
    /\ Head(<<"sioWait", "pump", "play">>) = "sioWait" /\ <<"sioWait", "pump", "play">> # <<>>
    /\ Head(<<"sioJoined", "pump", "play">>) = "sioJoined" /\ <<"sioJoined", "pump", "play">> # <<>>
    /\ Head(<<"sioWait", "stopped">>) = "sioWait" /\ <<"sioWait", "stopped">> # <<>>
    /\ Head(<<"sioJoined", "stopped">>) = "sioJoined" /\ <<"sioJoined", "stopped">> # <<>>
    /\ Head(<<"stopped">>) = "stopped" /\ <<"stopped">> # <<>>
    /\ Head(<<"sioWait", "stopped", "pump", "toggle">>) = "sioWait" /\ <<"sioWait", "stopped", "pump", "toggle">> # <<>>
    /\ Head(<<"sioJoined", "stopped", "pump", "toggle">>) = "sioJoined" /\ <<"sioJoined", "stopped", "pump", "toggle">> # <<>>
    /\ Head(<<"stopped", "pump", "toggle">>) = "stopped" /\ <<"stopped", "pump", "toggle">> # <<>>
    /\ Head(<<"sioWait", "stopped", "pump", "play">>) = "sioWait" /\ <<"sioWait", "stopped", "pump", "play">> # <<>>
    /\ Head(<<"sioJoined", "stopped", "pump", "play">>) = "sioJoined" /\ <<"sioJoined", "stopped", "pump", "play">> # <<>>
    /\ Head(<<"stopped", "pump", "play">>) = "stopped" /\ <<"stopped", "pump", "play">> # <<>>
<1>1. Head(<<"eject">>) = "eject" /\ <<"eject">> # <<>> OBVIOUS
<1>2. Head(<<"toggle">>) = "toggle" /\ <<"toggle">> # <<>> OBVIOUS
<1>3. Head(<<"tapeWait">>) = "tapeWait" /\ <<"tapeWait">> # <<>> OBVIOUS
<1>4. Head(<<"tapeJoined">>) = "tapeJoined" /\ <<"tapeJoined">> # <<>> OBVIOUS
<1>5. Head(<<"tapeWait", "load", "resume">>) = "tapeWait" /\ <<"tapeWait", "load", "resume">> # <<>> OBVIOUS
<1>6. Head(<<"tapeJoined", "load", "resume">>) = "tapeJoined" /\ <<"tapeJoined", "load", "resume">> # <<>> OBVIOUS
<1>7. Head(<<"load", "resume">>) = "load" /\ <<"load", "resume">> # <<>> OBVIOUS
<1>8. Head(<<"resume">>) = "resume" /\ <<"resume">> # <<>> OBVIOUS
<1>9. Head(<<"play">>) = "play" /\ <<"play">> # <<>> OBVIOUS
<1>10. Head(<<"pump", "play">>) = "pump" /\ <<"pump", "play">> # <<>> OBVIOUS
<1>11. Head(<<"start">>) = "start" /\ <<"start">> # <<>> OBVIOUS
<1>12. Head(<<"pump", "toggle">>) = "pump" /\ <<"pump", "toggle">> # <<>> OBVIOUS
<1>13. Head(<<"toggle", "sioWait", "pump", "toggle">>) = "toggle" /\ <<"toggle", "sioWait", "pump", "toggle">> # <<>> OBVIOUS
<1>14. Head(<<"toggle", "sioWait", "pump", "play">>) = "toggle" /\ <<"toggle", "sioWait", "pump", "play">> # <<>> OBVIOUS
<1>15. Head(<<"sioWait", "pump", "toggle">>) = "sioWait" /\ <<"sioWait", "pump", "toggle">> # <<>> OBVIOUS
<1>16. Head(<<"sioJoined", "pump", "toggle">>) = "sioJoined" /\ <<"sioJoined", "pump", "toggle">> # <<>> OBVIOUS
<1>17. Head(<<"sioWait", "pump", "play">>) = "sioWait" /\ <<"sioWait", "pump", "play">> # <<>> OBVIOUS
<1>18. Head(<<"sioJoined", "pump", "play">>) = "sioJoined" /\ <<"sioJoined", "pump", "play">> # <<>> OBVIOUS
<1>19. Head(<<"sioWait", "stopped">>) = "sioWait" /\ <<"sioWait", "stopped">> # <<>> OBVIOUS
<1>20. Head(<<"sioJoined", "stopped">>) = "sioJoined" /\ <<"sioJoined", "stopped">> # <<>> OBVIOUS
<1>21. Head(<<"stopped">>) = "stopped" /\ <<"stopped">> # <<>> OBVIOUS
<1>22. Head(<<"sioWait", "stopped", "pump", "toggle">>) = "sioWait" /\ <<"sioWait", "stopped", "pump", "toggle">> # <<>> OBVIOUS
<1>23. Head(<<"sioJoined", "stopped", "pump", "toggle">>) = "sioJoined" /\ <<"sioJoined", "stopped", "pump", "toggle">> # <<>> OBVIOUS
<1>24. Head(<<"stopped", "pump", "toggle">>) = "stopped" /\ <<"stopped", "pump", "toggle">> # <<>> OBVIOUS
<1>25. Head(<<"sioWait", "stopped", "pump", "play">>) = "sioWait" /\ <<"sioWait", "stopped", "pump", "play">> # <<>> OBVIOUS
<1>26. Head(<<"sioJoined", "stopped", "pump", "play">>) = "sioJoined" /\ <<"sioJoined", "stopped", "pump", "play">> # <<>> OBVIOUS
<1>27. Head(<<"stopped", "pump", "play">>) = "stopped" /\ <<"stopped", "pump", "play">> # <<>> OBVIOUS
<1> QED
  BY <1>1, <1>2, <1>3, <1>4, <1>5, <1>6, <1>7, <1>8, <1>9, <1>10, <1>11, <1>12, <1>13, <1>14, <1>15,
     <1>16, <1>17, <1>18, <1>19, <1>20, <1>21, <1>22, <1>23, <1>24, <1>25, <1>26, <1>27, Zenon

(* The queue of signals after one more.                                    *)
LEMMA AppendOne ==
    ASSUME NEW s \in Seq(Signals), NEW x \in Signals
    PROVE  /\ Append(s, x) \in Seq(Signals) /\ Len(Append(s, x)) = Len(s) + 1
           /\ Append(s, x)[Len(s) + 1] = x
           /\ \A i \in 1 .. Len(s) : Append(s, x)[i] = s[i]
OBVIOUS

(* The queues of signals of the situations.                                *)
LEMMA SignalQueue ==
    /\ Tail(<<"casFinished">>) = <<>> /\ Head(<<"casFinished">>) = "casFinished" /\ <<"casFinished">> # <<>>
    /\ Tail(<<"started">>) = <<>> /\ Head(<<"started">>) = "started" /\ <<"started">> # <<>>
    /\ Tail(<<"finished">>) = <<>> /\ Head(<<"finished">>) = "finished" /\ <<"finished">> # <<>>
    /\ Tail(<<"started", "finished">>) = <<"finished">> /\ Head(<<"started", "finished">>) = "started"
    /\ <<"started", "finished">> # <<>>
    /\ Append(<<>>, "casFinished") = <<"casFinished">> /\ Append(<<>>, "started") = <<"started">>
    /\ Append(<<>>, "finished") = <<"finished">>
    /\ Append(<<"started">>, "finished") = <<"started", "finished">>
<1>1. /\ Tail(<<"casFinished">>) = <<>> /\ Head(<<"casFinished">>) = "casFinished" /\ <<"casFinished">> # <<>>
      /\ Append(<<>>, "casFinished") = <<"casFinished">>
  OBVIOUS
<1>2. /\ Tail(<<"started">>) = <<>> /\ Head(<<"started">>) = "started" /\ <<"started">> # <<>>
      /\ Append(<<>>, "started") = <<"started">>
  OBVIOUS
<1>3. /\ Tail(<<"finished">>) = <<>> /\ Head(<<"finished">>) = "finished" /\ <<"finished">> # <<>>
      /\ Append(<<>>, "finished") = <<"finished">>
  OBVIOUS
<1>4. /\ Tail(<<"started", "finished">>) = <<"finished">> /\ Head(<<"started", "finished">>) = "started"
      /\ <<"started", "finished">> # <<>>
  OBVIOUS
<1>5. Append(<<"started">>, "finished") = <<"started", "finished">>
  <2> DEFINE s == <<"started">>
             t == <<"started", "finished">>
             r == Append(s, "finished")
  <2>1. s \in Seq(Signals) /\ t \in Seq(Signals) /\ "finished" \in Signals BY DEF Signals
  <2>2. Len(s) = 1 /\ s[1] = "started" /\ Len(t) = 2 /\ t[1] = "started" /\ t[2] = "finished" OBVIOUS
  <2> HIDE DEF s, t
  <2>3. r \in Seq(Signals) /\ Len(r) = 2 /\ r[1] = "started" /\ r[2] = "finished"
    <3>1. /\ r \in Seq(Signals) /\ Len(r) = Len(s) + 1 /\ r[Len(s) + 1] = "finished"
          /\ \A i \in 1 .. Len(s) : r[i] = s[i]
      BY <2>1, AppendOne DEF r
    <3> HIDE DEF r
    <3> QED BY <2>2, <3>1
  <2> HIDE DEF r
  <2>4. \A i \in 1 .. 2 : r[i] = t[i] BY <2>2, <2>3
  <2>5. r = t BY <2>1, <2>2, <2>3, <2>4, SeqEqual
  <2> QED BY <2>5 DEF r, s, t
<1> QED BY <1>1, <1>2, <1>3, <1>4, <1>5, Zenon

(* What has happened stays on record.                                      *)
LEMMA QuietBefore == [Next]_vars /\ Quiet' => Quiet
<1> SUFFICES ASSUME [Next]_vars, Quiet' PROVE Quiet OBVIOUS
<1> USE DEF Quiet, Calm, line, engine, ghost, vars
<1>1. CASE PressToggle BY <1>1 DEF PressToggle, Acts
<1>2. CASE PressPlay BY <1>2 DEF PressPlay, Acts
<1>3. CASE LoadOrEject BY <1>3 DEF LoadOrEject, Acts
<1>4. CASE ApplyOptions BY <1>4 DEF ApplyOptions, Acts, AskStop
<1>5. CASE LoadSession BY <1>5 DEF LoadSession, Acts
<1>6. CASE CableTimer BY <1>6 DEF CableTimer, Acts
<1>7. CASE EventLoop BY <1>7 DEF EventLoop, Deliver, Slot
<1>8. CASE Pump BY <1>8 DEF Pump, Deliver, Slot, Running, Return
<1>9. CASE SioStart BY <1>9 DEF SioStart, Running, Return
<1>10. CASE SioWait BY <1>10 DEF SioWait, AskStop, Running, Return
<1>11. CASE SioJoined BY <1>11 DEF SioJoined, Delete, Running, Return
<1>12. CASE TapeWait BY <1>12 DEF TapeWait, Running, Return
<1>13. CASE TapeJoined BY <1>13 DEF TapeJoined, Delete, Running, Return
<1>14. CASE Toggle BY <1>14 DEF Toggle, StopTape, Takes, AskStop, Running, Return
<1>15. CASE Stopped BY <1>15 DEF Stopped, Running, Return
<1>16. CASE Play BY <1>16 DEF Play, Running, Return
<1>17. CASE Eject BY <1>17 DEF Eject, Running, Return
<1>18. CASE Load BY <1>18 DEF Load, Running, Return
<1>19. CASE Resume BY <1>19 DEF Resume, Running, Return
<1>20. CASE SioBegins BY <1>20 DEF SioBegins
<1>21. CASE SioOpens BY <1>21 DEF SioOpens, Leave
<1>22. CASE SioPolls BY <1>22 DEF SioPolls, Leave, Close
<1>23. CASE SioServes BY <1>23 DEF SioServes
<1>24. CASE SioGivesUp BY <1>24 DEF SioGivesUp, Fails, Leave, Close
<1>25. CASE LineFails BY <1>25 DEF LineFails, Fails, Leave, Close
<1>26. CASE TapeOpens BY <1>26 DEF TapeOpens, TapeOver, Overlooked
<1>27. CASE TapeStops BY <1>27 DEF TapeStops, TapeOver
<1>28. CASE TapeRefused BY <1>28 DEF TapeRefused, TapeOver, Overlooked
<1>29. CASE TapeLastByte BY <1>29 DEF TapeLastByte
<1>30. CASE TapeCloses BY <1>30 DEF TapeCloses, TapeOver, Close
<1>31. CASE UNCHANGED vars BY <1>31
<1> QED
  BY <1>1, <1>2, <1>3, <1>4, <1>5, <1>6, <1>7, <1>8, <1>9, <1>10, <1>11, <1>12, <1>13, <1>14, <1>15,
     <1>16, <1>17, <1>18, <1>19, <1>20, <1>21, <1>22, <1>23, <1>24, <1>25, <1>26, <1>27, <1>28,
        <1>29, <1>30,
     <1>31
  DEF Next, User, EngineCall, Threads

(* The names of the calls are names of calls.                              *)
LEMMA CallsAre ==
    /\ "toggle" \in Calls /\ "start" \in Calls /\ "sioWait" \in Calls /\ "sioJoined" \in Calls
    /\ "stopped" \in Calls /\ "pump" \in Calls /\ "tapeWait" \in Calls /\ "tapeJoined" \in Calls
    /\ "play" \in Calls /\ "eject" \in Calls /\ "resume" \in Calls /\ "load" \in Calls
BY DEF Calls

(* The end of emulation heard by a slot that pumps.                        *)
LEMMA Interrupted ==
    /\ <<"sioWait", "stopped">> \o <<"pump", "play">> = <<"sioWait", "stopped", "pump", "play">>
    /\ <<"sioWait", "stopped">> \o <<"pump", "toggle">> = <<"sioWait", "stopped", "pump", "toggle">>
<1>1. "sioWait" \in Calls /\ "stopped" \in Calls /\ "pump" \in Calls BY DEF Calls
<1>2. <<"sioWait", "stopped">> \o <<"pump", "play">> = <<"sioWait", "stopped", "pump", "play">>
  <2>1. "play" \in Calls BY DEF Calls
  <2> QED BY <1>1, <2>1, Join22, ZenonT(30)
<1>3. <<"sioWait", "stopped">> \o <<"pump", "toggle">> = <<"sioWait", "stopped", "pump", "toggle">>
  <2>1. "toggle" \in Calls BY DEF Calls
  <2> QED BY <1>1, <2>1, Join22, Zenon
<1> QED BY <1>2, <1>3

(* The user finds the engine at rest, and emulation off or serving.        *)
LEMMA Acting ==
    ASSUME SioType, FlagType, Stage, NEW calls, NEW wish, Acts(calls, wish), Quiet'
    PROVE  /\ todo' = calls /\ todo = <<>> /\ events = <<>>
           /\ \/ Down
              \/ Serving /\ Up /\ ~sio.stop /\ ~restart /\ ~resume
<1>1. todo = <<>> /\ todo' = calls BY DEF Acts
<1>2. ~Unheard /\ ~Stopping BY DEF Acts, Quiet, Calm
<1>3. events = <<>> BY <1>2 DEF Unheard
<1>4. CASE Down BY <1>1, <1>3, <1>4
<1>5. ~Coming BY <1>2 DEF Coming, Unheard
<1>6. ~Started /\ ~Failed BY <1>3, SignalQueue DEF Started, Failed
<1>7. ~Hearing BY <1>1, Heads DEF Hearing
<1>8. CASE Serving
  <2>1. Up BY <1>3, <1>8, SignalQueue DEF Serving
  <2>2. ~sio.stop BY <1>2, <1>8, <2>1 DEF Serving, Stopping, Up
  <2>3. ~restart /\ ~resume BY <1>1, <1>8, <2>2, Heads DEF Serving
  <2> QED BY <1>1, <1>3, <1>8, <2>1, <2>2, <2>3
<1> QED BY <1>4, <1>5, <1>6, <1>7, <1>8 DEF Stage

(* Which situation a call of the engine runs in.                           *)
LEMMA Calling ==
    ASSUME Stage
    PROVE  /\ Running("start") => todo = <<"start">> /\ Down
           /\ Running("sioWait") => Serving \/ Hearing
           /\ Running("sioJoined") => Serving \/ Hearing
           /\ Running("tapeWait") => todo \in {<<"tapeWait">>, <<"tapeWait", "load", "resume">>} /\ Down
           /\ Running("tapeJoined") => todo \in {<<"tapeJoined">>, <<"tapeJoined", "load", "resume">>} /\ Down
           /\ Running("stopped") => Hearing
           /\ Running("play") => todo = <<"play">> /\ Down
           /\ Running("eject") => todo = <<"eject">> /\ (Down \/ Serving)
           /\ Running("load") => todo = <<"load", "resume">> /\ (Down \/ Serving)
           /\ Running("resume") => todo = <<"resume">> /\ (Down \/ Serving)
           /\ Running("toggle") => Down \/ Serving
           /\ Running("pump") => Down \/ Serving
<1>1. ASSUME Running("start") PROVE todo = <<"start">> /\ Down
  <2>1. todo # <<>> /\ Head(todo) = "start" BY <1>1 DEF Running
  <2>2. ~Coming /\ ~Started /\ ~Failed BY <2>1 DEF Coming, Started, Failed
  <2>3. Down => todo = <<"start">> /\ Down BY <2>1, Heads DEF Down, AllOff, Errand
  <2>4. Serving => FALSE BY <2>1, Heads DEF Serving
  <2>5. Hearing => FALSE BY <2>1, Heads DEF Hearing
  <2> QED BY <2>2, <2>3, <2>4, <2>5 DEF Stage
<1>2. ASSUME Running("sioWait") PROVE Serving \/ Hearing
  <2>1. todo # <<>> /\ Head(todo) = "sioWait" BY <1>2 DEF Running
  <2>2. ~Coming /\ ~Started /\ ~Failed BY <2>1 DEF Coming, Started, Failed
  <2>3. Down => FALSE BY <2>1, Heads DEF Down, AllOff, Errand
  <2>4. Serving => Serving \/ Hearing BY <2>1, Heads DEF Serving
  <2>5. Hearing => Serving \/ Hearing BY <2>1, Heads DEF Hearing
  <2> QED BY <2>2, <2>3, <2>4, <2>5 DEF Stage
<1>3. ASSUME Running("sioJoined") PROVE Serving \/ Hearing
  <2>1. todo # <<>> /\ Head(todo) = "sioJoined" BY <1>3 DEF Running
  <2>2. ~Coming /\ ~Started /\ ~Failed BY <2>1 DEF Coming, Started, Failed
  <2>3. Down => FALSE BY <2>1, Heads DEF Down, AllOff, Errand
  <2>4. Serving => Serving \/ Hearing BY <2>1, Heads DEF Serving
  <2>5. Hearing => Serving \/ Hearing BY <2>1, Heads DEF Hearing
  <2> QED BY <2>2, <2>3, <2>4, <2>5 DEF Stage
<1>4. ASSUME Running("tapeWait") PROVE todo \in {<<"tapeWait">>, <<"tapeWait", "load", "resume">>} /\ Down
  <2>1. todo # <<>> /\ Head(todo) = "tapeWait" BY <1>4 DEF Running
  <2>2. ~Coming /\ ~Started /\ ~Failed BY <2>1 DEF Coming, Started, Failed
  <2>3. Down => todo \in {<<"tapeWait">>, <<"tapeWait", "load", "resume">>} /\ Down
    BY <2>1, Heads DEF Down, AllOff, Errand
  <2>4. Serving => FALSE BY <2>1, Heads DEF Serving
  <2>5. Hearing => FALSE BY <2>1, Heads DEF Hearing
  <2> QED BY <2>2, <2>3, <2>4, <2>5 DEF Stage
<1>5. ASSUME Running("tapeJoined") PROVE todo \in {<<"tapeJoined">>, <<"tapeJoined", "load", "resume">>} /\ Down
  <2>1. todo # <<>> /\ Head(todo) = "tapeJoined" BY <1>5 DEF Running
  <2>2. ~Coming /\ ~Started /\ ~Failed BY <2>1 DEF Coming, Started, Failed
  <2>3. Down => todo \in {<<"tapeJoined">>, <<"tapeJoined", "load", "resume">>} /\ Down
    BY <2>1, Heads DEF Down, AllOff, Errand
  <2>4. Serving => FALSE BY <2>1, Heads DEF Serving
  <2>5. Hearing => FALSE BY <2>1, Heads DEF Hearing
  <2> QED BY <2>2, <2>3, <2>4, <2>5 DEF Stage
<1>6. ASSUME Running("stopped") PROVE Hearing
  <2>1. todo # <<>> /\ Head(todo) = "stopped" BY <1>6 DEF Running
  <2>2. ~Coming /\ ~Started /\ ~Failed BY <2>1 DEF Coming, Started, Failed
  <2>3. Down => FALSE BY <2>1, Heads DEF Down, AllOff, Errand
  <2>4. Serving => FALSE BY <2>1, Heads DEF Serving
  <2>5. Hearing => Hearing BY <2>1, Heads DEF Hearing
  <2> QED BY <2>2, <2>3, <2>4, <2>5 DEF Stage
<1>7. ASSUME Running("play") PROVE todo = <<"play">> /\ Down
  <2>1. todo # <<>> /\ Head(todo) = "play" BY <1>7 DEF Running
  <2>2. ~Coming /\ ~Started /\ ~Failed BY <2>1 DEF Coming, Started, Failed
  <2>3. Down => todo = <<"play">> /\ Down BY <2>1, Heads DEF Down, AllOff, Errand
  <2>4. Serving => FALSE BY <2>1, Heads DEF Serving
  <2>5. Hearing => FALSE BY <2>1, Heads DEF Hearing
  <2> QED BY <2>2, <2>3, <2>4, <2>5 DEF Stage
<1>8. ASSUME Running("eject") PROVE todo = <<"eject">> /\ (Down \/ Serving)
  <2>1. todo # <<>> /\ Head(todo) = "eject" BY <1>8 DEF Running
  <2>2. ~Coming /\ ~Started /\ ~Failed BY <2>1 DEF Coming, Started, Failed
  <2>3. Down => todo = <<"eject">> /\ (Down \/ Serving) BY <2>1, Heads DEF Down, AllOff, Errand
  <2>4. Serving => todo = <<"eject">> /\ (Down \/ Serving) BY <2>1, Heads DEF Serving
  <2>5. Hearing => FALSE BY <2>1, Heads DEF Hearing
  <2> QED BY <2>2, <2>3, <2>4, <2>5 DEF Stage
<1>9. ASSUME Running("load") PROVE todo = <<"load", "resume">> /\ (Down \/ Serving)
  <2>1. todo # <<>> /\ Head(todo) = "load" BY <1>9 DEF Running
  <2>2. ~Coming /\ ~Started /\ ~Failed BY <2>1 DEF Coming, Started, Failed
  <2>3. Down => todo = <<"load", "resume">> /\ (Down \/ Serving)
    BY <2>1, Heads DEF Down, AllOff, Errand
  <2>4. Serving => todo = <<"load", "resume">> /\ (Down \/ Serving) BY <2>1, Heads DEF Serving
  <2>5. Hearing => FALSE BY <2>1, Heads DEF Hearing
  <2> QED BY <2>2, <2>3, <2>4, <2>5 DEF Stage
<1>10. ASSUME Running("resume") PROVE todo = <<"resume">> /\ (Down \/ Serving)
  <2>1. todo # <<>> /\ Head(todo) = "resume" BY <1>10 DEF Running
  <2>2. ~Coming /\ ~Started /\ ~Failed BY <2>1 DEF Coming, Started, Failed
  <2>3. Down => todo = <<"resume">> /\ (Down \/ Serving) BY <2>1, Heads DEF Down, AllOff, Errand
  <2>4. Serving => todo = <<"resume">> /\ (Down \/ Serving) BY <2>1, Heads DEF Serving
  <2>5. Hearing => FALSE BY <2>1, Heads DEF Hearing
  <2> QED BY <2>2, <2>3, <2>4, <2>5 DEF Stage
<1>11. ASSUME Running("toggle") PROVE Down \/ Serving
  <2>1. todo # <<>> /\ Head(todo) = "toggle" BY <1>11 DEF Running
  <2>2. ~Coming /\ ~Started /\ ~Failed BY <2>1 DEF Coming, Started, Failed
  <2>3. Down => Down \/ Serving BY <2>1, Heads DEF Down, AllOff, Errand
  <2>4. Serving => Down \/ Serving BY <2>1, Heads DEF Serving
  <2>5. Hearing => FALSE BY <2>1, Heads DEF Hearing
  <2> QED BY <2>2, <2>3, <2>4, <2>5 DEF Stage
<1>12. ASSUME Running("pump") PROVE Down \/ Serving
  <2>1. todo # <<>> /\ Head(todo) = "pump" BY <1>12 DEF Running
  <2>2. ~Coming /\ ~Started /\ ~Failed BY <2>1 DEF Coming, Started, Failed
  <2>3. Down => Down \/ Serving BY <2>1, Heads DEF Down, AllOff, Errand
  <2>4. Serving => Down \/ Serving BY <2>1, Heads DEF Serving
  <2>5. Hearing => FALSE BY <2>1, Heads DEF Hearing
  <2> QED BY <2>2, <2>3, <2>4, <2>5 DEF Stage
<1> QED BY <1>1, <1>2, <1>3, <1>4, <1>5, <1>6, <1>7, <1>8, <1>9, <1>10, <1>11, <1>12

(* Every step leads from one situation to another.                         *)
LEMMA StageNext ==
  CallType /\ SioType /\ TapeType /\ FlagType /\ Situation /\ [Next]_vars /\ Quiet' => Stage'
<1> SUFFICES ASSUME CallType, SioType, TapeType, FlagType, Situation, [Next]_vars, Quiet'
             PROVE  Stage'
  OBVIOUS
<1>0. Loaded /\ Stage BY QuietBefore DEF Situation
<1> USE DEF line, engine, ghost, vars
<1>1. CASE PressToggle
  <2>1. Acts(<<"toggle">>, "pressed") BY <1>1 DEF PressToggle
  <2>2. UNCHANGED <<sio, tape, emulating, restart, resume, events>> BY <1>1 DEF PressToggle
  <2>3. CASE Down
    <3>a. AllOff' BY <2>1, <2>2, <2>3, <1>0, Acting DEF Down, AllOff
    <3>b. Errand' BY <2>1, <2>2, <2>3, <1>0, Acting, <3>a DEF Down, AllOff, Errand
    <3> QED BY <3>a, <3>b DEF Down, Stage
  <2>4. CASE Serving /\ Up /\ ~sio.stop /\ ~restart /\ ~resume
    BY <2>1, <2>2, <2>4, <1>0, Acting DEF Serving, Stage, Up
  <2> QED BY <2>1, <2>3, <2>4, <1>0, Acting
<1>2. CASE PressPlay
  <2> DEFINE plan == (IF emulating THEN <<"toggle", "sioWait", "pump">> ELSE <<>>) \o <<"play">>
             wish == IF emulating THEN "tape" ELSE "any"
  <2>1. Acts(plan, wish) BY <1>2 DEF PressPlay
  <2>2. IF emulating THEN plan = <<"toggle", "sioWait", "pump", "play">> ELSE plan = <<"play">>
    BY Joined
  <2> HIDE DEF plan, wish
  <2>3. UNCHANGED <<sio, tape, emulating, restart, events>> /\ tape.loaded /\ tape.thread = "idle"
    BY <1>2 DEF PressPlay
  <2>4. CASE Down
    <3>1. plan = <<"play">> /\ todo' = plan /\ events = <<>>
      BY <2>1, <2>2, <2>4, <1>0, Acting DEF Down, AllOff, Errand
    <3>2. todo = <<>> /\ (resume => tape.thread # "idle")
      BY <2>1, <2>4, <1>0, <1>0, Acting, Heads DEF Down, AllOff, Errand
    <3>a. AllOff' BY <2>3, <2>4, <3>1, <3>2 DEF Down, AllOff
    <3>b. Errand' BY <2>3, <2>4, <3>1, <3>2, <3>a DEF AllOff, Errand
    <3>3. Down' BY <3>a, <3>b DEF Down
    <3> QED BY <3>3 DEF Stage
  <2>5. CASE Serving /\ Up /\ ~sio.stop /\ ~restart /\ ~resume
    <3>1. todo' = <<"toggle", "sioWait", "pump", "play">> /\ events = <<>>
      BY <2>1, <2>2, <2>5, <1>0, Acting DEF Serving
    <3> QED BY <2>3, <2>5, <3>1 DEF Serving, Stage, Up
  <2> QED BY <2>1, <2>4, <2>5, <1>0, Acting
<1>3. CASE LoadOrEject
  <2>1. Acts(<<"eject">>, "any") BY <1>3 DEF LoadOrEject
  <2>2. UNCHANGED <<sio, tape, emulating, restart, resume, events>> BY <1>3 DEF LoadOrEject
  <2>3. CASE Down
    <3>a. AllOff' BY <2>1, <2>2, <2>3, <1>0, Acting DEF Down, AllOff
    <3>b. Errand' BY <2>1, <2>2, <2>3, <1>0, Acting, <3>a DEF Down, AllOff, Errand
    <3> QED BY <3>a, <3>b DEF Down, Stage
  <2>4. CASE Serving /\ Up /\ ~sio.stop /\ ~restart /\ ~resume
    BY <2>1, <2>2, <2>4, <1>0, Acting DEF Serving, Stage, Up
  <2> QED BY <2>1, <2>3, <2>4, <1>0, Acting
<1>4. CASE ApplyOptions
  <2>1. Acts(<<>>, "any") /\ emulating BY <1>4 DEF ApplyOptions
  <2>2. UNCHANGED <<tape, emulating, resume, events>> BY <1>4 DEF ApplyOptions
  <2>3. sio'.stop /\ sio'.thread = sio.thread BY <1>4 DEF ApplyOptions, AskStop, SioType
  <2>4. Serving /\ Up /\ ~resume BY <2>1, <1>0, Acting DEF Down, AllOff, Errand
  <2> QED BY <2>1, <2>2, <2>3, <2>4, <1>0, Acting DEF Serving, Stage, Up
<1>5. CASE LoadSession
  <2> DEFINE plan == (IF emulating THEN <<"toggle", "sioWait", "pump">> ELSE <<>>) \o <<"toggle">>
             wish == "any"
  <2>1. Acts(plan, wish) BY <1>5 DEF LoadSession
  <2>2. IF emulating THEN plan = <<"toggle", "sioWait", "pump", "toggle">> ELSE plan = <<"toggle">>
    BY Joined
  <2> HIDE DEF plan, wish
  <2>3. UNCHANGED <<sio, tape, emulating, restart, events>> /\ resume' = resume
    BY <1>5 DEF LoadSession
  <2>4. CASE Down
    <3>1. plan = <<"toggle">> /\ todo' = plan /\ events = <<>>
      BY <2>1, <2>2, <2>4, <1>0, Acting DEF Down, AllOff, Errand
    <3>2. todo = <<>> /\ (resume => tape.thread # "idle")
      BY <2>1, <2>4, <1>0, <1>0, Acting, Heads DEF Down, AllOff, Errand
    <3>a. AllOff' BY <2>3, <2>4, <3>1, <3>2 DEF Down, AllOff
    <3>b. Errand' BY <2>3, <2>4, <3>1, <3>2, <3>a DEF AllOff, Errand
    <3>3. Down' BY <3>a, <3>b DEF Down
    <3> QED BY <3>3 DEF Stage
  <2>5. CASE Serving /\ Up /\ ~sio.stop /\ ~restart /\ ~resume
    <3>1. todo' = <<"toggle", "sioWait", "pump", "toggle">> /\ events = <<>>
      BY <2>1, <2>2, <2>5, <1>0, Acting DEF Serving
    <3> QED BY <2>3, <2>5, <3>1 DEF Serving, Stage, Up
  <2> QED BY <2>1, <2>4, <2>5, <1>0, Acting
<1>6. CASE CableTimer
  <2>1. Acts(<<"toggle">>, "any") BY <1>6 DEF CableTimer
  <2>2. UNCHANGED <<sio, tape, emulating, restart, resume, events>> /\ ~emulating
    BY <1>6 DEF CableTimer
  <2>3. Down BY <2>1, <2>2, <1>0, Acting DEF Serving
  <2>a. AllOff' BY <2>1, <2>2, <2>3, <1>0, Acting DEF Down, AllOff
  <2>b. Errand' BY <2>1, <2>2, <2>3, <1>0, Acting, <2>a DEF Down, AllOff, Errand
  <2> QED BY <2>a, <2>b DEF Down, Stage
<1>7. CASE EventLoop
  <2>1. todo = <<>> /\ events # <<>> BY <1>7 DEF EventLoop, Deliver
  <2>2. UNCHANGED <<sio, tape, restart, resume>> /\ events' = Tail(events)
    BY <1>7 DEF EventLoop, Deliver
  <2>3. emulating' = (emulating \/ Head(events) = "started") BY <1>7 DEF EventLoop, Deliver
  <2>4. todo' = Slot(Head(events))
    <3>1. todo' = Slot(Head(events)) \o <<>> BY <1>7 DEF EventLoop, Deliver
    <3>2. Head(events) \in Signals BY <2>1 DEF CallType
    <3>3. Slot(Head(events)) \in Seq(Calls) BY <3>2, Plans DEF Slot, Signals
    <3> QED BY <3>1, <3>3, Ends, Zenon
  <2>5. Slot("finished") = <<"sioWait", "stopped">> /\ Slot("casFinished") = <<"resume">> /\ Slot("started") = <<>>
    BY DEF Slot
  <2>6. CASE Down
    <3>1. events = <<"casFinished">> /\ todo' = <<"resume">> /\ events' = <<>> /\ emulating' = emulating
      BY <2>1, <2>2, <2>3, <2>4, <2>5, <2>6, SignalQueue DEF Down, AllOff, Errand, FlagType
    <3>a. AllOff' BY <2>2, <2>6, <3>1, SignalQueue DEF Down, AllOff
    <3>b. Errand' BY <2>2, <2>6, <3>1, SignalQueue, <3>a DEF Down, AllOff, Errand
    <3> QED BY <3>a, <3>b DEF Down, Stage
  <2>7. ~Coming BY <2>1 DEF Coming
  <2>8. CASE Started
    <3>1. todo' = <<>> /\ events' = <<>> /\ emulating'
      BY <2>2, <2>3, <2>4, <2>5, <2>8, SignalQueue DEF Started
    <3> QED BY <2>2, <2>8, <3>1 DEF Started, Serving, Stage, Up
  <2>9. CASE Failed
    <3>1. todo' = <<>> /\ events' = <<"finished">> /\ emulating'
      BY <2>2, <2>3, <2>4, <2>5, <2>9, SignalQueue DEF Failed
    <3> QED BY <2>2, <2>9, <3>1 DEF Failed, Serving, Stage, Up
  <2>10. CASE Serving
    <3>1. sio.thread = "idle" /\ events = <<"finished">> /\ ~resume /\ (restart => sio.stop)
      BY <2>1, <2>10, Heads DEF Serving
    <3>2. todo' = <<"sioWait", "stopped">> /\ events' = <<>> /\ emulating' = emulating
      BY <2>2, <2>3, <2>4, <2>5, <3>1, SignalQueue DEF FlagType
    <3>3. todo'[1] = "sioWait" BY <3>2
    <3> QED BY <2>2, <2>10, <3>1, <3>2, <3>3 DEF Serving, Hearing, Stage
  <2>11. ~Hearing BY <2>1 DEF Hearing
  <2> QED BY <1>0, <2>6, <2>7, <2>8, <2>9, <2>10, <2>11 DEF Stage
<1>8. CASE Pump
  <2>1. Running("pump") BY <1>8 DEF Pump
  <2>2. UNCHANGED <<sio, tape, restart, resume>> BY <1>8 DEF Pump, Deliver
  <2>3. CASE Down
    <3>1. events = <<>> /\ todo \in {<<"pump", "play">>, <<"pump", "toggle">>}
      BY <2>1, <2>3, Heads DEF Down, AllOff, Errand, Running
    <3>2. Return(<<>>) /\ UNCHANGED <<emulating, events>> BY <1>8, <3>1 DEF Pump, Deliver
    <3>3. /\ todo = <<"pump", "play">> => todo' = <<"play">>
          /\ todo = <<"pump", "toggle">> => todo' = <<"toggle">>
      BY <2>1, <3>2, Drops, CallsAre
    <3>4. CASE todo = <<"pump", "play">>
      <4>1. tape.loaded /\ tape.thread = "idle" BY <2>3, <3>4, Heads DEF Down, AllOff, Errand
      <4>a. AllOff' BY <2>2, <2>3, <3>1, <3>2, <3>3, <3>4, <4>1 DEF Down, AllOff
      <4>b. Errand' BY <2>2, <2>3, <3>1, <3>2, <3>3, <3>4, <4>1, <4>a DEF AllOff, Errand
      <4> QED BY <4>a, <4>b DEF Down, Stage
    <3>5. CASE todo = <<"pump", "toggle">>
      <4>1. ~resume /\ tape.thread = "idle" BY <2>3, <3>5, Heads DEF Down, AllOff, Errand
      <4>a. AllOff' BY <2>2, <2>3, <3>1, <3>2, <3>3, <3>5, <4>1 DEF Down, AllOff
      <4>b. Errand' BY <2>2, <2>3, <3>1, <3>2, <3>3, <3>5, <4>1, <4>a DEF AllOff, Errand
      <4> QED BY <4>a, <4>b DEF Down, Stage
    <3> QED BY <3>1, <3>4, <3>5
  <2>4. CASE Serving
    <3>1. /\ sio.thread = "idle" /\ events = <<"finished">> /\ sio.stop /\ ~restart
          /\ \/ todo = <<"pump", "play">> /\ tape.loaded
             \/ todo = <<"pump", "toggle">> /\ ~resume
      <4>1. /\ sio.stop /\ ~restart /\ sio.thread = "idle"
            /\ \/ todo = <<"pump", "play">> /\ tape.loaded
               \/ todo = <<"pump", "toggle">> /\ ~resume
        BY <2>1, <2>4, Heads DEF Serving, Running
      <4> QED BY <2>4, <4>1 DEF Serving, Up
    <3>2. Deliver(todo) BY <1>8, <3>1, SignalQueue DEF Pump
    <3>3. events' = <<>> /\ emulating' /\ todo' = <<"sioWait", "stopped">> \o todo
      BY <2>4, <3>1, <3>2, SignalQueue DEF Deliver, Slot, Serving
    <3>5. \/ todo' = <<"sioWait", "stopped", "pump", "play">> /\ tape.loaded
          \/ todo' = <<"sioWait", "stopped", "pump", "toggle">> /\ ~resume
      BY <3>1, <3>3, Interrupted, Zenon
    <3> QED BY <2>2, <2>4, <3>1, <3>3, <3>5 DEF Serving, Hearing, Stage
  <2> QED BY <2>1, <2>3, <2>4, <1>0, Calling
<1>9. CASE SioStart
  <2>1. todo = <<"start">> /\ Down BY <1>9, <1>0, Calling DEF SioStart
  <2>2. ~resume /\ tape.thread = "idle" /\ events = <<>> BY <2>1, Heads DEF Down, AllOff, Errand
  <2>3. todo' = <<>> BY <1>9, <2>1, Drops, CallsAre DEF SioStart
  <2>4. UNCHANGED <<tape, emulating, restart, resume, events>> BY <1>9 DEF SioStart
  <2>5. sio'.thread = "starting" /\ ~sio'.stop
    BY <1>9, <2>1 DEF SioStart, Down, AllOff, Errand, SioType
  <2> QED BY <2>1, <2>2, <2>3, <2>4, <2>5 DEF Down, AllOff, Errand, Coming, Stage
<1>10. CASE SioWait
  <2>1. UNCHANGED <<tape, emulating, restart, resume, events>> BY <1>10 DEF SioWait
  <2>2. sio'.stop /\ sio'.thread = sio.thread BY <1>10 DEF SioWait, AskStop, SioType
  <2>3. /\ todo = <<"sioWait", "pump", "toggle">> => todo' = <<"sioJoined", "pump", "toggle">>
        /\ todo = <<"sioWait", "pump", "play">> => todo' = <<"sioJoined", "pump", "play">>
        /\ todo = <<"sioWait", "stopped">> => todo' = <<"sioJoined", "stopped">>
        /\ todo = <<"sioWait", "stopped", "pump", "toggle">> => todo' = <<"sioJoined", "stopped", "pump", "toggle">>
        /\ todo = <<"sioWait", "stopped", "pump", "play">> => todo' = <<"sioJoined", "stopped", "pump", "play">>
    BY <1>10, Swaps, CallsAre DEF SioWait
  <2>4. Running("sioWait") BY <1>10 DEF SioWait
  <2>5. CASE Serving
    <3>1. /\ ~restart
          /\ \/ todo = <<"sioWait", "pump", "toggle">> /\ ~resume
             \/ todo = <<"sioWait", "pump", "play">> /\ tape.loaded
      BY <2>4, <2>5, Heads DEF Serving, Running
    <3>2. \/ todo' = <<"sioJoined", "pump", "toggle">> /\ ~resume
          \/ todo' = <<"sioJoined", "pump", "play">> /\ tape.loaded
      BY <2>3, <3>1
    <3> QED BY <2>1, <2>2, <2>5, <3>1, <3>2 DEF Serving, Stage, Up
  <2>6. CASE Hearing
    <3>1. \/ todo = <<"sioWait", "stopped">> /\ ~resume
          \/ todo = <<"sioWait", "stopped", "pump", "toggle">> /\ ~resume /\ ~restart
          \/ todo = <<"sioWait", "stopped", "pump", "play">> /\ tape.loaded /\ ~restart
      BY <2>4, <2>6, Heads DEF Hearing, Running
    <3>2. \/ todo' = <<"sioJoined", "stopped">> /\ ~resume
          \/ todo' = <<"sioJoined", "stopped", "pump", "toggle">> /\ ~resume /\ ~restart
          \/ todo' = <<"sioJoined", "stopped", "pump", "play">> /\ tape.loaded /\ ~restart
      BY <2>3, <3>1
    <3> QED BY <2>1, <2>2, <2>6, <3>2 DEF Hearing, Stage
  <2> QED BY <2>4, <2>5, <2>6, <1>0, Calling
<1>11. CASE SioJoined
  <2>1. UNCHANGED <<tape, emulating, restart, resume, events>> BY <1>11 DEF SioJoined
  <2>2. sio'.stop = sio.stop /\ sio'.thread = sio.thread /\ sio.thread = "idle"
    BY <1>11 DEF SioJoined, SioType
  <2>3. /\ todo = <<"sioJoined", "pump", "toggle">> => todo' = <<"pump", "toggle">>
        /\ todo = <<"sioJoined", "pump", "play">> => todo' = <<"pump", "play">>
        /\ todo = <<"sioJoined", "stopped">> => todo' = <<"stopped">>
        /\ todo = <<"sioJoined", "stopped", "pump", "toggle">> => todo' = <<"stopped", "pump", "toggle">>
        /\ todo = <<"sioJoined", "stopped", "pump", "play">> => todo' = <<"stopped", "pump", "play">>
    BY <1>11, Drops, CallsAre DEF SioJoined
  <2>4. Running("sioJoined") BY <1>11 DEF SioJoined
  <2>5. CASE Serving
    <3>1. /\ ~restart /\ sio.stop
          /\ \/ todo = <<"sioJoined", "pump", "toggle">> /\ ~resume
             \/ todo = <<"sioJoined", "pump", "play">> /\ tape.loaded
      BY <2>4, <2>5, Heads DEF Serving, Running
    <3>2. \/ todo' = <<"pump", "toggle">> /\ ~resume
          \/ todo' = <<"pump", "play">> /\ tape.loaded
      BY <2>3, <3>1
    <3> QED BY <2>1, <2>2, <2>5, <3>1, <3>2 DEF Serving, Stage, Up
  <2>6. CASE Hearing
    <3>1. \/ todo = <<"sioJoined", "stopped">> /\ ~resume
          \/ todo = <<"sioJoined", "stopped", "pump", "toggle">> /\ ~resume /\ ~restart
          \/ todo = <<"sioJoined", "stopped", "pump", "play">> /\ tape.loaded /\ ~restart
      BY <2>4, <2>6, Heads DEF Hearing, Running
    <3>2. \/ todo' = <<"stopped">> /\ ~resume
          \/ todo' = <<"stopped", "pump", "toggle">> /\ ~resume /\ ~restart
          \/ todo' = <<"stopped", "pump", "play">> /\ tape.loaded /\ ~restart
      BY <2>3, <3>1
    <3>3. sio.stop
      <4>1. todo[1] = "sioJoined" BY <3>1
      <4> QED BY <2>6, <4>1 DEF Hearing
    <3> QED BY <2>1, <2>2, <2>6, <3>2, <3>3 DEF Hearing, Stage
  <2> QED BY <2>4, <2>5, <2>6, <1>0, Calling
<1>12. CASE TapeWait
  <2>1. UNCHANGED <<sio, emulating, restart, resume, events>> BY <1>12 DEF TapeWait
  <2>2. tape'.thread = tape.thread /\ tape'.loaded = tape.loaded BY <1>12 DEF TapeWait, TapeType
  <2>3. todo \in {<<"tapeWait">>, <<"tapeWait", "load", "resume">>} /\ Down
    BY <1>12, <1>0, Calling DEF TapeWait
  <2>4. /\ todo = <<"tapeWait">> => todo' = <<"tapeJoined">>
        /\ todo = <<"tapeWait", "load", "resume">> => todo' = <<"tapeJoined", "load", "resume">>
    BY <1>12, Swaps, CallsAre DEF TapeWait
  <2>5. resume => tape.thread # "idle" \/ events # <<>> BY <2>3, Heads DEF Down, AllOff, Errand
  <2>a. AllOff' BY <1>0, <2>1, <2>2, <2>3, <2>4, <2>5 DEF Down, AllOff
  <2>b. Errand' BY <1>0, <2>1, <2>2, <2>3, <2>4, <2>5, <2>a DEF AllOff, Errand
  <2> QED BY <2>a, <2>b DEF Down, Stage
<1>13. CASE TapeJoined
  <2>1. UNCHANGED <<sio, emulating, restart, resume, events>> BY <1>13 DEF TapeJoined
  <2>2. tape'.thread = tape.thread /\ tape.thread = "idle" BY <1>13 DEF TapeJoined, TapeType
  <2>3. todo \in {<<"tapeJoined">>, <<"tapeJoined", "load", "resume">>} /\ Down
    BY <1>13, <1>0, Calling DEF TapeJoined
  <2>4. /\ todo = <<"tapeJoined">> => todo' = <<>>
        /\ todo = <<"tapeJoined", "load", "resume">> => todo' = <<"load", "resume">>
    BY <1>13, Drops, CallsAre DEF TapeJoined
  <2>5. resume => tape.thread # "idle" \/ events # <<>> BY <2>3, Heads DEF Down, AllOff, Errand
  <2>a. AllOff' BY <1>0, <2>1, <2>2, <2>3, <2>4, <2>5 DEF Down, AllOff
  <2>b. Errand' BY <1>0, <2>1, <2>2, <2>3, <2>4, <2>5, <2>a DEF AllOff, Errand
  <2> QED BY <2>a, <2>b DEF Down, Stage
<1>14. CASE Toggle
  <2>1. Running("toggle") /\ UNCHANGED <<tape, emulating, restart, events>> BY <1>14 DEF Toggle
  <2>2. ~Unheard BY <1>14 DEF Toggle, Quiet, Calm
  <2>3. events = <<>> /\ (sio.thread # "idle" => emulating) BY <2>2 DEF Unheard
  <2>4. CASE Down
    <3>1. todo = <<"toggle">> /\ (resume => tape.thread # "idle" \/ events # <<>>)
      BY <2>1, <2>4, Heads DEF Down, AllOff, Errand, Running
    <3>2. CASE TapeRuns
      <4>1. Return(<<"tapeWait">>) /\ ~resume' /\ sio' = sio BY <1>14, <3>2 DEF Toggle, StopTape
      <4>2. todo' = <<"tapeWait">> BY <2>1, <3>1, <4>1, Swaps, CallsAre
      <4>a. AllOff' BY <2>1, <2>4, <3>2, <4>1, <4>2 DEF Down, AllOff, TapeRuns
      <4>b. Errand' BY <2>1, <2>4, <3>2, <4>1, <4>2, <4>a DEF AllOff, Errand, TapeRuns
      <4> QED BY <4>a, <4>b DEF Down, Stage
    <3>3. CASE ~TapeRuns
      <4>1. tape.thread = "idle" BY <1>0, <3>3 DEF TapeRuns, Loaded
      <4>2. ~emulating /\ ~resume BY <2>3, <2>4, <3>1, <4>1 DEF Down, AllOff, Errand
      <4>3. Return(<<"start">>) /\ UNCHANGED <<sio, resume>> BY <1>14, <3>3, <4>2 DEF Toggle
      <4>4. todo' = <<"start">> BY <2>1, <3>1, <4>3, Swaps, CallsAre
      <4>a. AllOff' BY <2>1, <2>3, <2>4, <4>1, <4>2, <4>3, <4>4 DEF Down, AllOff
      <4>b. Errand' BY <2>1, <2>3, <2>4, <4>1, <4>2, <4>3, <4>4, <4>a DEF AllOff, Errand
      <4> QED BY <4>a, <4>b DEF Down, Stage
    <3> QED BY <3>2, <3>3
  <2>5. CASE Serving
    <3>1. Up /\ ~TapeRuns /\ emulating BY <2>3, <2>5, SignalQueue DEF Serving, TapeRuns
    <3>2. /\ ~restart
          /\ \/ todo = <<"toggle">> /\ ~resume
             \/ todo = <<"toggle", "sioWait", "pump", "toggle">> /\ ~resume
             \/ todo = <<"toggle", "sioWait", "pump", "play">> /\ tape.loaded
      BY <2>1, <2>5, Heads DEF Serving, Running
    <3>3. Return(<<>>) /\ AskStop /\ resume' = resume BY <1>14, <3>1 DEF Toggle
    <3>4. sio'.stop /\ sio'.thread = sio.thread BY <3>3 DEF AskStop, SioType
    <3>5. /\ todo = <<"toggle">> => todo' = <<>>
          /\ todo = <<"toggle", "sioWait", "pump", "toggle">> => todo' = <<"sioWait", "pump", "toggle">>
          /\ todo = <<"toggle", "sioWait", "pump", "play">> => todo' = <<"sioWait", "pump", "play">>
      BY <2>1, <3>3, Drops, CallsAre
    <3>6. \/ todo' = <<>> /\ ~resume
          \/ todo' = <<"sioWait", "pump", "toggle">> /\ ~resume
          \/ todo' = <<"sioWait", "pump", "play">> /\ tape.loaded
      BY <3>2, <3>5
    <3> QED BY <2>1, <2>3, <2>5, <3>1, <3>2, <3>3, <3>4, <3>6 DEF Serving, Stage, Up
  <2> QED BY <2>1, <2>4, <2>5, <1>0, Calling
<1>15. CASE Stopped
  <2>1. Hearing /\ Running("stopped") BY <1>15, <1>0, Calling DEF Stopped
  <2>2. UNCHANGED <<sio, tape, resume, events>> /\ ~emulating' /\ ~restart' BY <1>15 DEF Stopped
  <2>3. \/ todo = <<"stopped">> /\ ~resume
        \/ todo = <<"stopped", "pump", "toggle">> /\ ~resume /\ ~restart
        \/ todo = <<"stopped", "pump", "play">> /\ tape.loaded /\ ~restart
    BY <2>1, Heads DEF Hearing, Running
  <2>4. sio.stop
    <3>1. todo[1] = "stopped" BY <2>3
    <3> QED BY <2>1, <3>1 DEF Hearing
  <2>5. CASE restart
    <3>1. Return(<<"toggle">>) BY <1>15, <2>5 DEF Stopped
    <3>2. todo' = <<"toggle">> /\ ~resume BY <2>1, <2>3, <2>5, <3>1, Swaps, CallsAre
    <3>a. AllOff' BY <2>1, <2>2, <2>4, <3>2 DEF Hearing, Down, AllOff
    <3>b. Errand' BY <2>1, <2>2, <2>4, <3>2, <3>a DEF Hearing, AllOff, Errand
    <3> QED BY <3>a, <3>b DEF Down, Stage
  <2>6. CASE ~restart
    <3>1. Return(<<>>) BY <1>15, <2>6 DEF Stopped
    <3>2. /\ todo = <<"stopped">> => todo' = <<>>
          /\ todo = <<"stopped", "pump", "toggle">> => todo' = <<"pump", "toggle">>
          /\ todo = <<"stopped", "pump", "play">> => todo' = <<"pump", "play">>
      BY <2>1, <3>1, Drops, CallsAre
    <3>a. AllOff' BY <2>1, <2>2, <2>3, <2>4, <3>2 DEF Hearing, Down, AllOff
    <3>b. Errand' BY <2>1, <2>2, <2>3, <2>4, <3>2, <3>a DEF Hearing, AllOff, Errand
    <3> QED BY <3>a, <3>b DEF Down, Stage
  <2> QED BY <2>5, <2>6
<1>16. CASE Play
  <2>1. todo = <<"play">> /\ Down BY <1>16, <1>0, Calling DEF Play
  <2>2. tape.loaded /\ events = <<>> BY <2>1, Heads DEF Down, AllOff, Errand
  <2>3. todo' = <<>> BY <1>16, <2>1, Drops, CallsAre DEF Play
  <2>4. UNCHANGED <<sio, emulating, restart, resume, events>> BY <1>16 DEF Play
  <2>5. tape'.thread = "opening" /\ tape'.loaded BY <1>16, <2>2 DEF Play, TapeType
  <2>a. AllOff' BY <2>1, <2>2, <2>3, <2>4, <2>5 DEF Down, AllOff
  <2>b. Errand' BY <2>1, <2>2, <2>3, <2>4, <2>5, <2>a DEF AllOff, Errand
  <2> QED BY <2>a, <2>b DEF Down, Stage
<1>17. CASE Eject
  <2>1. todo = <<"eject">> /\ (Down \/ Serving) BY <1>17, <1>0, Calling DEF Eject
  <2>2. UNCHANGED <<sio, tape, emulating, restart, resume, events>> BY <1>17 DEF Eject
  <2>3. IF TapeRuns THEN todo' = <<"tapeWait", "load", "resume">> ELSE todo' = <<"load", "resume">>
    <3>1. Tail(todo) = <<>> BY <2>1, Rest1, CallsAre
    <3>2. <<"load", "resume">> \o <<>> = <<"load", "resume">>
      BY Plans, Ends, Zenon
    <3>3. <<"tapeWait", "load", "resume">> \o <<>> = <<"tapeWait", "load", "resume">>
      BY Plans, Ends, Zenon
    <3>4. todo' = (IF TapeRuns THEN <<"tapeWait", "load", "resume">> ELSE <<"load", "resume">>) \o <<>>
      BY <1>17, <3>1, Zenon DEF Eject, Return
    <3> QED BY <3>2, <3>3, <3>4, Zenon
  <2>4. CASE Down
    <3>1. resume => tape.thread # "idle" \/ events # <<>>
      BY <2>1, <2>4, Heads DEF Down, AllOff, Errand
    <3>2. CASE TapeRuns
      <4>1. todo' = <<"tapeWait", "load", "resume">> BY <2>3, <3>2
      <4>a. AllOff' BY <2>2, <2>4, <3>1, <4>1 DEF Down, AllOff
      <4>b. Errand' BY <2>2, <2>4, <3>1, <4>1, <4>a DEF AllOff, Errand
      <4> QED BY <4>a, <4>b DEF Down, Stage
    <3>3. CASE ~TapeRuns
      <4>1. tape.thread = "idle" BY <1>0, <3>3 DEF TapeRuns, Loaded
      <4>a. AllOff' BY <2>2, <2>3, <2>4, <3>1, <3>3, <4>1 DEF Down, AllOff
      <4>b. Errand' BY <2>2, <2>3, <2>4, <3>1, <3>3, <4>1, <4>a DEF AllOff, Errand
      <4> QED BY <4>a, <4>b DEF Down, Stage
    <3> QED BY <3>2, <3>3
  <2>5. CASE Serving
    <3>1. ~TapeRuns BY <2>5 DEF Serving, TapeRuns
    <3>2. ~sio.stop /\ ~restart /\ ~resume BY <2>1, <2>5, Heads DEF Serving
    <3> QED BY <2>2, <2>3, <2>5, <3>1, <3>2 DEF Serving, Stage, Up
  <2> QED BY <2>1, <2>4, <2>5
<1>18. CASE Load
  <2>1. todo = <<"load", "resume">> /\ (Down \/ Serving) BY <1>18, <1>0, Calling DEF Load
  <2>2. UNCHANGED <<sio, emulating, restart, resume, events>> /\ tape'.thread = "idle"
    BY <1>18 DEF Load
  <2>3. todo' = <<"resume">> BY <1>18, <2>1, Drops, CallsAre DEF Load
  <2>4. CASE Down
    <3>a. AllOff' BY <2>2, <2>3, <2>4 DEF Down, AllOff
    <3>b. Errand' BY <2>2, <2>3, <2>4, <3>a DEF Down, AllOff, Errand
    <3> QED BY <3>a, <3>b DEF Down, Stage
  <2>5. CASE Serving
    <3>1. ~sio.stop /\ ~restart /\ ~resume BY <2>1, <2>5, Heads DEF Serving
    <3> QED BY <2>2, <2>3, <2>5, <3>1 DEF Serving, Stage, Up
  <2> QED BY <2>1, <2>4, <2>5
<1>19. CASE Resume
  <2>1. todo = <<"resume">> /\ (Down \/ Serving) BY <1>19, <1>0, Calling DEF Resume
  <2>2. UNCHANGED <<sio, tape, emulating, restart, events>> /\ ~resume' BY <1>19 DEF Resume
  <2>3. todo' = (IF resume /\ ~emulating THEN <<"toggle">> ELSE <<>>)
    <3>1. Running("resume") BY <1>19 DEF Resume
    <3>2. CASE resume /\ ~emulating
      <4>1. Return(<<"toggle">>) BY <1>19, <3>2 DEF Resume
      <4> QED BY <2>1, <3>1, <3>2, <4>1, Swaps, CallsAre
    <3>3. CASE ~(resume /\ ~emulating)
      <4>1. Return(<<>>) BY <1>19, <3>3 DEF Resume
      <4> QED BY <2>1, <3>1, <3>3, <4>1, Drops, CallsAre
    <3> QED BY <3>2, <3>3
  <2>4. CASE Down
    <3>1. todo' = <<"toggle">> \/ todo' = <<>> BY <2>3
    <3>2. todo' \in {<<>>, <<"eject">>, <<"toggle">>, <<"tapeWait">>, <<"tapeJoined">>,
                     <<"tapeWait", "load", "resume">>, <<"tapeJoined", "load", "resume">>}
      BY <3>1
    <3>a. AllOff' BY <2>2, <2>4, <3>2 DEF Down, AllOff
    <3>b. Errand' BY <2>2, <2>4, <3>2, <3>a DEF AllOff, Errand
    <3>3. Down' BY <3>a, <3>b DEF Down
    <3> QED BY <3>3 DEF Stage
  <2>5. CASE Serving
    <3>1. ~sio.stop /\ ~restart /\ ~resume BY <2>1, <2>5, Heads DEF Serving
    <3> QED BY <2>2, <2>3, <2>5, <3>1 DEF Serving, Stage, Up
  <2> QED BY <2>1, <2>4, <2>5
<1>20. CASE SioBegins
  <2>1. Coming
    BY <1>0, <1>20 DEF SioBegins, Stage, Down, AllOff, Errand, Started, Failed, Serving, Hearing, Up
  <2>2. events' = <<"started">> BY <1>20, <2>1, SignalQueue DEF SioBegins, Coming
  <2>3. UNCHANGED <<tape, emulating, restart, resume, todo>> BY <1>20 DEF SioBegins
  <2>4. Up' /\ sio'.stop = sio.stop BY <1>20 DEF SioBegins, Up, SioType
  <2> QED BY <2>1, <2>2, <2>3, <2>4 DEF Coming, Started, Stage
<1>21. CASE SioOpens
  <2>1. UNCHANGED <<tape, emulating, restart, resume, todo>> BY <1>21 DEF SioOpens
  <2>2. Up /\ (Started \/ Serving)
    BY <1>0, <1>21 DEF SioOpens, Up, Stage, Down, AllOff, Errand, Coming, Failed, Hearing
  <2>3. (Leave /\ sio'.thread = "idle" /\ sio'.stop = sio.stop) \/ (Up' /\ sio'.stop = sio.stop /\ events' = events)
    BY <1>21 DEF SioOpens, Leave, Up, SioType
  <2>4. CASE Started
    <3>1. Append(events, "finished") = <<"started", "finished">> BY <2>4, SignalQueue DEF Started
    <3> QED BY <2>1, <2>3, <2>4, <3>1 DEF Started, Failed, Stage, Leave
  <2>5. CASE Serving
    <3>1. events = <<>> /\ Append(events, "finished") = <<"finished">>
      BY <2>2, <2>5, SignalQueue DEF Serving, Up
    <3>2. todo \notin {<<"pump", "play">>, <<"pump", "toggle">>}
      BY <2>2, <2>5, Heads DEF Serving, Up
    <3> QED BY <2>1, <2>2, <2>3, <2>5, <3>1, <3>2 DEF Serving, Stage, Leave
  <2> QED BY <2>2, <2>4, <2>5
<1>22. CASE SioPolls
  <2>1. UNCHANGED <<tape, emulating, restart, resume, todo>> BY <1>22 DEF SioPolls
  <2>2. Up /\ (Started \/ Serving)
    BY <1>0, <1>22 DEF SioPolls, Up, Stage, Down, AllOff, Errand, Coming, Failed, Hearing
  <2>3. (Leave /\ sio'.thread = "idle" /\ sio'.stop = sio.stop) \/ (Up' /\ sio'.stop = sio.stop /\ events' = events)
    BY <1>22 DEF SioPolls, Leave, Up, SioType
  <2>4. CASE Started
    <3>1. Append(events, "finished") = <<"started", "finished">> BY <2>4, SignalQueue DEF Started
    <3> QED BY <2>1, <2>3, <2>4, <3>1 DEF Started, Failed, Stage, Leave
  <2>5. CASE Serving
    <3>1. events = <<>> /\ Append(events, "finished") = <<"finished">>
      BY <2>2, <2>5, SignalQueue DEF Serving, Up
    <3>2. todo \notin {<<"pump", "play">>, <<"pump", "toggle">>}
      BY <2>2, <2>5, Heads DEF Serving, Up
    <3> QED BY <2>1, <2>2, <2>3, <2>5, <3>1, <3>2 DEF Serving, Stage, Leave
  <2> QED BY <2>2, <2>4, <2>5
<1>23. CASE SioServes
  <2>1. UNCHANGED <<tape, emulating, restart, resume, todo>> BY <1>23 DEF SioServes
  <2>2. Up /\ (Started \/ Serving)
    BY <1>0, <1>23 DEF SioServes, Up, Stage, Down, AllOff, Errand, Coming, Failed, Hearing
  <2>3. (Leave /\ sio'.thread = "idle" /\ sio'.stop = sio.stop) \/ (Up' /\ sio'.stop = sio.stop /\ events' = events)
    BY <1>23 DEF SioServes, Leave, Up, SioType
  <2>4. CASE Started
    <3>1. Append(events, "finished") = <<"started", "finished">> BY <2>4, SignalQueue DEF Started
    <3> QED BY <2>1, <2>3, <2>4, <3>1 DEF Started, Failed, Stage, Leave
  <2>5. CASE Serving
    <3>1. events = <<>> /\ Append(events, "finished") = <<"finished">>
      BY <2>2, <2>5, SignalQueue DEF Serving, Up
    <3>2. todo \notin {<<"pump", "play">>, <<"pump", "toggle">>}
      BY <2>2, <2>5, Heads DEF Serving, Up
    <3> QED BY <2>1, <2>2, <2>3, <2>5, <3>1, <3>2 DEF Serving, Stage, Leave
  <2> QED BY <2>2, <2>4, <2>5
<1>24. CASE SioGivesUp
  <2>1. UNCHANGED <<tape, emulating, restart, resume, todo>> BY <1>24 DEF SioGivesUp, Fails
  <2>2. Up /\ (Started \/ Serving)
    BY <1>0, <1>24 DEF SioGivesUp, Fails, Up, Stage, Down, AllOff, Errand, Coming, Failed, Hearing
  <2>3. (Leave /\ sio'.thread = "idle" /\ sio'.stop = sio.stop) \/ (Up' /\ sio'.stop = sio.stop /\ events' = events)
    BY <1>24 DEF SioGivesUp, Fails, Leave, Up, SioType
  <2>4. CASE Started
    <3>1. Append(events, "finished") = <<"started", "finished">> BY <2>4, SignalQueue DEF Started
    <3> QED BY <2>1, <2>3, <2>4, <3>1 DEF Started, Failed, Stage, Leave
  <2>5. CASE Serving
    <3>1. events = <<>> /\ Append(events, "finished") = <<"finished">>
      BY <2>2, <2>5, SignalQueue DEF Serving, Up
    <3>2. todo \notin {<<"pump", "play">>, <<"pump", "toggle">>}
      BY <2>2, <2>5, Heads DEF Serving, Up
    <3> QED BY <2>1, <2>2, <2>3, <2>5, <3>1, <3>2 DEF Serving, Stage, Leave
  <2> QED BY <2>2, <2>4, <2>5
<1>25. CASE LineFails
  <2>1. UNCHANGED <<tape, emulating, restart, resume, todo>> BY <1>25 DEF LineFails, Fails
  <2>2. Up /\ (Started \/ Serving)
    BY <1>0, <1>25 DEF LineFails, Fails, Up, Stage, Down, AllOff, Errand, Coming, Failed, Hearing
  <2>3. (Leave /\ sio'.thread = "idle" /\ sio'.stop = sio.stop) \/ (Up' /\ sio'.stop = sio.stop /\ events' = events)
    BY <1>25 DEF LineFails, Fails, Leave, Up, SioType
  <2>4. CASE Started
    <3>1. Append(events, "finished") = <<"started", "finished">> BY <2>4, SignalQueue DEF Started
    <3> QED BY <2>1, <2>3, <2>4, <3>1 DEF Started, Failed, Stage, Leave
  <2>5. CASE Serving
    <3>1. events = <<>> /\ Append(events, "finished") = <<"finished">>
      BY <2>2, <2>5, SignalQueue DEF Serving, Up
    <3>2. todo \notin {<<"pump", "play">>, <<"pump", "toggle">>}
      BY <2>2, <2>5, Heads DEF Serving, Up
    <3> QED BY <2>1, <2>2, <2>3, <2>5, <3>1, <3>2 DEF Serving, Stage, Leave
  <2> QED BY <2>2, <2>4, <2>5
<1>26. CASE TapeOpens
  <2>1. Down /\ events = <<>> /\ tape.thread # "idle" /\ tape.loaded
    BY <1>0, <1>26
    DEF TapeOpens, Loaded, Stage, Down, AllOff, Errand, Coming, Started, Failed, Serving, Hearing
  <2>2. UNCHANGED <<sio, emulating, restart, resume, todo>> BY <1>26 DEF TapeOpens
  <2>3. /\ todo \in {<<>>, <<"eject">>, <<"toggle">>, <<"tapeWait">>, <<"tapeJoined">>,
                    <<"tapeWait", "load", "resume">>, <<"tapeJoined", "load", "resume">>}
    BY <2>1 DEF Down, AllOff, Errand
  <2>4. events' = events \/ events' = Append(events, "casFinished") BY <1>26 DEF TapeOpens, TapeOver
  <2>5. events' = <<>> \/ events' = <<"casFinished">> BY <2>1, <2>4, SignalQueue, Zenon
  <2>6. tape'.loaded /\ (events' = events <=> tape'.thread # "idle")
    <3>1. CASE events' = events
      <4>1. events # Append(events, "casFinished") BY <2>1, SignalQueue, Zenon
      <4> QED BY <1>26, <2>1, <3>1, <4>1 DEF TapeOpens, TapeOver, TapeType
    <3>2. CASE events' # events BY <1>26, <2>1, <3>2 DEF TapeOpens, TapeOver, TapeType
    <3> QED BY <3>1, <3>2
  <2>a. AllOff' BY <2>1, <2>2, <2>3, <2>5, <2>6, SignalQueue DEF Down, AllOff
  <2>b. Errand' BY <2>1, <2>2, <2>3, <2>5, <2>6, SignalQueue, <2>a DEF AllOff, Errand
  <2> QED BY <2>a, <2>b DEF Down, Stage
<1>27. CASE TapeStops
  <2>1. Down /\ events = <<>> /\ tape.thread # "idle" /\ tape.loaded
    BY <1>0, <1>27
    DEF TapeStops, Loaded, Stage, Down, AllOff, Errand, Coming, Started, Failed, Serving, Hearing
  <2>2. UNCHANGED <<sio, emulating, restart, resume, todo>> BY <1>27 DEF TapeStops
  <2>3. /\ todo \in {<<>>, <<"eject">>, <<"toggle">>, <<"tapeWait">>, <<"tapeJoined">>,
                    <<"tapeWait", "load", "resume">>, <<"tapeJoined", "load", "resume">>}
    BY <2>1 DEF Down, AllOff, Errand
  <2>4. events' = events \/ events' = Append(events, "casFinished") BY <1>27 DEF TapeStops, TapeOver
  <2>5. events' = <<>> \/ events' = <<"casFinished">> BY <2>1, <2>4, SignalQueue, Zenon
  <2>6. tape'.loaded /\ (events' = events <=> tape'.thread # "idle")
    <3>1. CASE events' = events
      <4>1. events # Append(events, "casFinished") BY <2>1, SignalQueue, Zenon
      <4> QED BY <1>27, <2>1, <3>1, <4>1 DEF TapeStops, TapeOver, TapeType
    <3>2. CASE events' # events BY <1>27, <2>1, <3>2 DEF TapeStops, TapeOver, TapeType
    <3> QED BY <3>1, <3>2
  <2>a. AllOff' BY <2>1, <2>2, <2>3, <2>5, <2>6, SignalQueue DEF Down, AllOff
  <2>b. Errand' BY <2>1, <2>2, <2>3, <2>5, <2>6, SignalQueue, <2>a DEF AllOff, Errand
  <2> QED BY <2>a, <2>b DEF Down, Stage
<1>28. CASE TapeRefused
  <2>1. Down /\ events = <<>> /\ tape.thread # "idle" /\ tape.loaded
    BY <1>0, <1>28
    DEF TapeRefused, Loaded, Stage, Down, AllOff, Errand, Coming, Started, Failed, Serving, Hearing
  <2>2. UNCHANGED <<sio, emulating, restart, resume, todo>> BY <1>28 DEF TapeRefused
  <2>3. /\ todo \in {<<>>, <<"eject">>, <<"toggle">>, <<"tapeWait">>, <<"tapeJoined">>,
                    <<"tapeWait", "load", "resume">>, <<"tapeJoined", "load", "resume">>}
    BY <2>1 DEF Down, AllOff, Errand
  <2>4. events' = events \/ events' = Append(events, "casFinished")
    BY <1>28 DEF TapeRefused, TapeOver
  <2>5. events' = <<>> \/ events' = <<"casFinished">> BY <2>1, <2>4, SignalQueue, Zenon
  <2>6. tape'.loaded /\ (events' = events <=> tape'.thread # "idle")
    <3>1. CASE events' = events
      <4>1. events # Append(events, "casFinished") BY <2>1, SignalQueue, Zenon
      <4> QED BY <1>28, <2>1, <3>1, <4>1 DEF TapeRefused, TapeOver, TapeType
    <3>2. CASE events' # events BY <1>28, <2>1, <3>2 DEF TapeRefused, TapeOver, TapeType
    <3> QED BY <3>1, <3>2
  <2>a. AllOff' BY <2>1, <2>2, <2>3, <2>5, <2>6, SignalQueue DEF Down, AllOff
  <2>b. Errand' BY <2>1, <2>2, <2>3, <2>5, <2>6, SignalQueue, <2>a DEF AllOff, Errand
  <2> QED BY <2>a, <2>b DEF Down, Stage
<1>29. CASE TapeLastByte
  <2>1. Down /\ events = <<>> /\ tape.thread # "idle" /\ tape.loaded
    BY <1>0, <1>29
    DEF TapeLastByte, Loaded, Stage, Down, AllOff, Errand, Coming, Started, Failed, Serving, Hearing
  <2>2. UNCHANGED <<sio, emulating, restart, resume, todo>> BY <1>29 DEF TapeLastByte
  <2>3. /\ todo \in {<<>>, <<"eject">>, <<"toggle">>, <<"tapeWait">>, <<"tapeJoined">>,
                    <<"tapeWait", "load", "resume">>, <<"tapeJoined", "load", "resume">>}
    BY <2>1 DEF Down, AllOff, Errand
  <2>4. events' = events \/ events' = Append(events, "casFinished") BY <1>29 DEF TapeLastByte
  <2>5. events' = <<>> \/ events' = <<"casFinished">> BY <2>1, <2>4, SignalQueue, Zenon
  <2>6. tape'.loaded /\ (events' = events <=> tape'.thread # "idle")
    <3>1. CASE events' = events
      <4>1. events # Append(events, "casFinished") BY <2>1, SignalQueue, Zenon
      <4> QED BY <1>29, <2>1, <3>1, <4>1 DEF TapeLastByte, TapeType
    <3>2. CASE events' # events BY <1>29, <2>1, <3>2 DEF TapeLastByte, TapeType
    <3> QED BY <3>1, <3>2
  <2>a. AllOff' BY <2>1, <2>2, <2>3, <2>5, <2>6, SignalQueue DEF Down, AllOff
  <2>b. Errand' BY <2>1, <2>2, <2>3, <2>5, <2>6, SignalQueue, <2>a DEF AllOff, Errand
  <2> QED BY <2>a, <2>b DEF Down, Stage
<1>30. CASE TapeCloses
  <2>1. Down /\ events = <<>> /\ tape.thread # "idle" /\ tape.loaded
    BY <1>0, <1>30
    DEF TapeCloses, Loaded, Stage, Down, AllOff, Errand, Coming, Started, Failed, Serving, Hearing
  <2>2. UNCHANGED <<sio, emulating, restart, resume, todo>> BY <1>30 DEF TapeCloses
  <2>3. /\ todo \in {<<>>, <<"eject">>, <<"toggle">>, <<"tapeWait">>, <<"tapeJoined">>,
                    <<"tapeWait", "load", "resume">>, <<"tapeJoined", "load", "resume">>}
    BY <2>1 DEF Down, AllOff, Errand
  <2>4. events' = events \/ events' = Append(events, "casFinished")
    BY <1>30 DEF TapeCloses, TapeOver
  <2>5. events' = <<>> \/ events' = <<"casFinished">> BY <2>1, <2>4, SignalQueue, Zenon
  <2>6. tape'.loaded /\ (events' = events <=> tape'.thread # "idle")
    <3>1. CASE events' = events
      <4>1. events # Append(events, "casFinished") BY <2>1, SignalQueue, Zenon
      <4> QED BY <1>30, <2>1, <3>1, <4>1 DEF TapeCloses, TapeOver, TapeType
    <3>2. CASE events' # events BY <1>30, <2>1, <3>2 DEF TapeCloses, TapeOver, TapeType
    <3> QED BY <3>1, <3>2
  <2>a. AllOff' BY <2>1, <2>2, <2>3, <2>5, <2>6, SignalQueue DEF Down, AllOff
  <2>b. Errand' BY <2>1, <2>2, <2>3, <2>5, <2>6, SignalQueue, <2>a DEF AllOff, Errand
  <2> QED BY <2>a, <2>b DEF Down, Stage
<1>31. CASE UNCHANGED vars
  <2>1. UNCHANGED <<sio, tape, emulating, restart, resume, events, todo>> BY <1>31
  <2> QED
    BY <1>0, <2>1 DEF Stage, Down, AllOff, Errand, Coming, Started, Failed, Serving, Hearing, Up
<1> QED
  BY <1>1, <1>2, <1>3, <1>4, <1>5, <1>6, <1>7, <1>8, <1>9, <1>10, <1>11, <1>12, <1>13, <1>14, <1>15,
     <1>16, <1>17, <1>18, <1>19, <1>20, <1>21, <1>22, <1>23, <1>24, <1>25, <1>26, <1>27, <1>28,
        <1>29, <1>30,
     <1>31
  DEF Next, User, EngineCall, Threads

(* Only a loaded tape plays.                                               *)
LEMMA LoadedNext == TapeType /\ Situation /\ [Next]_vars /\ Quiet' => Loaded'
<1> SUFFICES ASSUME TapeType, Situation, [Next]_vars, Quiet' PROVE Loaded'
  OBVIOUS
<1>0. Loaded /\ Stage BY QuietBefore DEF Situation
<1> USE DEF Loaded, line, engine, ghost, vars
<1>1. CASE PressToggle BY <1>0, <1>1 DEF PressToggle
<1>2. CASE PressPlay BY <1>0, <1>2 DEF PressPlay
<1>3. CASE LoadOrEject BY <1>0, <1>3 DEF LoadOrEject
<1>4. CASE ApplyOptions BY <1>0, <1>4 DEF ApplyOptions
<1>5. CASE LoadSession BY <1>0, <1>5 DEF LoadSession
<1>6. CASE CableTimer BY <1>0, <1>6 DEF CableTimer
<1>7. CASE EventLoop BY <1>0, <1>7 DEF EventLoop, Deliver
<1>8. CASE Pump BY <1>0, <1>8 DEF Pump, Deliver
<1>9. CASE SioStart BY <1>0, <1>9 DEF SioStart
<1>10. CASE SioWait BY <1>0, <1>10 DEF SioWait
<1>11. CASE SioJoined BY <1>0, <1>11 DEF SioJoined
<1>12. CASE TapeWait BY <1>0, <1>12 DEF TapeWait, Running, Return, TapeType
<1>13. CASE TapeJoined BY <1>0, <1>13 DEF TapeJoined, Delete, Running, Return, TapeType
<1>14. CASE Toggle BY <1>0, <1>14 DEF Toggle
<1>15. CASE Stopped BY <1>0, <1>15 DEF Stopped
<1>16. CASE Play
  <2>1. todo = <<"play">> /\ Down BY <1>16, <1>0, Calling DEF Play
  <2>2. tape.loaded BY <2>1, Heads DEF Down, AllOff, Errand
  <2> QED BY <1>16, <2>2 DEF Play, TapeType
<1>17. CASE Eject BY <1>0, <1>17 DEF Eject
<1>18. CASE Load BY <1>0, <1>18 DEF Load, Running, Return, TapeType
<1>19. CASE Resume BY <1>0, <1>19 DEF Resume
<1>20. CASE SioBegins BY <1>0, <1>20 DEF SioBegins
<1>21. CASE SioOpens BY <1>0, <1>21 DEF SioOpens
<1>22. CASE SioPolls BY <1>0, <1>22 DEF SioPolls
<1>23. CASE SioServes BY <1>0, <1>23 DEF SioServes
<1>24. CASE SioGivesUp BY <1>0, <1>24 DEF SioGivesUp, Fails
<1>25. CASE LineFails BY <1>0, <1>25 DEF LineFails, Fails
<1>26. CASE TapeOpens BY <1>0, <1>26 DEF TapeOpens, TapeOver, Overlooked, TapeType
<1>27. CASE TapeStops BY <1>0, <1>27 DEF TapeStops, TapeOver, TapeType
<1>28. CASE TapeRefused BY <1>0, <1>28 DEF TapeRefused, TapeOver, Overlooked, TapeType
<1>29. CASE TapeLastByte BY <1>0, <1>29 DEF TapeLastByte, TapeType
<1>30. CASE TapeCloses BY <1>0, <1>30 DEF TapeCloses, TapeOver, Close, TapeType
<1>31. CASE UNCHANGED vars BY <1>0, <1>31
<1> QED
  BY <1>1, <1>2, <1>3, <1>4, <1>5, <1>6, <1>7, <1>8, <1>9, <1>10, <1>11, <1>12, <1>13, <1>14, <1>15,
     <1>16, <1>17, <1>18, <1>19, <1>20, <1>21, <1>22, <1>23, <1>24, <1>25, <1>26, <1>27, <1>28,
        <1>29, <1>30,
     <1>31
  DEF Next, User, EngineCall, Threads

(* Both together.                                                          *)
LEMMA SituationNext ==
  CallType /\ SioType /\ TapeType /\ FlagType /\ Situation /\ [Next]_vars => Situation'
BY StageNext, LoadedNext DEF Situation

-----------------------------------------------------------------------------
(* What "off" means until somebody asks for something else: nothing that   *)
(* would bring emulation back is remembered, and no slot that could is     *)
(* running.                                                                *)
Off == Quiet =>
    /\ intent = "pressed" => todo = <<"toggle">>
    /\ intent = "off" =>
         /\ ~resume /\ ~restart /\ sio.stop
         /\ todo \in {<<>>, <<"tapeWait">>, <<"tapeJoined">>, <<"resume">>,
                     <<"sioWait", "stopped">>, <<"sioJoined", "stopped">>, <<"stopped">>}

(* toggleSio forgets the tape's request to resume; nothing sets it again.  *)
LEMMA OffNext ==
  CallType /\ SioType /\ FlagType /\ Situation /\ Off /\ [Next]_vars => Off'
<1> DEFINE off == /\ intent = "pressed" => todo = <<"toggle">>
                  /\ intent = "off" =>
                       /\ ~resume /\ ~restart /\ sio.stop
                       /\ todo \in {<<>>, <<"tapeWait">>, <<"tapeJoined">>, <<"resume">>,
                                   <<"sioWait", "stopped">>, <<"sioJoined", "stopped">>, <<"stopped">>}
<1> SUFFICES ASSUME CallType, SioType, FlagType, Situation, Off, [Next]_vars, Quiet' PROVE off'
  BY DEF Off
<1>0. off /\ Stage BY QuietBefore DEF Off, Situation
<1> USE DEF line, engine, ghost, vars
<1>1. CASE PressToggle
  <2>1. Acts(<<"toggle">>, "pressed") BY <1>1 DEF PressToggle
  <2> QED BY <2>1 DEF Acts
<1>2. CASE PressPlay
  <2>1. intent' \in {"tape", "any"} BY <1>2 DEF PressPlay, Acts
  <2> QED BY <2>1
<1>3. CASE LoadOrEject
  <2>1. Acts(<<"eject">>, "any") BY <1>3 DEF LoadOrEject
  <2> QED BY <2>1 DEF Acts
<1>4. CASE ApplyOptions
  <2>1. Acts(<<>>, "any") BY <1>4 DEF ApplyOptions
  <2> QED BY <2>1 DEF Acts
<1>5. CASE LoadSession
  <2>1. intent' = "any" BY <1>5 DEF LoadSession, Acts
  <2> QED BY <2>1
<1>6. CASE CableTimer
  <2>1. Acts(<<"toggle">>, "any") BY <1>6 DEF CableTimer
  <2> QED BY <2>1 DEF Acts
<1>7. CASE EventLoop
  <2>1. todo = <<>> /\ events # <<>> /\ UNCHANGED <<sio, resume, restart, intent>>
    BY <1>7 DEF EventLoop, Deliver
  <2>2. intent # "pressed" BY <1>0, <2>1, Heads
  <2>3. todo' = Slot(Head(events)) \o <<>> /\ Head(events) \in Signals
    BY <1>7, <2>1 DEF EventLoop, Deliver, CallType
  <2>4. Slot(Head(events)) \in {<<>>, <<"resume">>, <<"sioWait", "stopped">>}
    BY <2>3 DEF Slot, Signals
  <2>5. todo' \in {<<>>, <<"resume">>, <<"sioWait", "stopped">>}
    <3>1. Slot(Head(events)) \in Seq(Calls) BY <2>4, Plans
    <3> QED BY <2>3, <2>4, <3>1, Ends, Zenon
  <2> QED BY <1>0, <2>1, <2>2, <2>5
<1>8. CASE Pump
  <2>1. Running("pump") /\ UNCHANGED intent BY <1>8 DEF Pump, Deliver
  <2>2. intent # "pressed" /\ intent # "off" BY <1>0, <2>1, Heads DEF Running
  <2> QED BY <2>1, <2>2
<1>9. CASE SioStart
  <2>1. Running("start") /\ UNCHANGED intent BY <1>9 DEF SioStart
  <2>2. intent # "pressed" /\ intent # "off" BY <1>0, <2>1, Heads DEF Running
  <2> QED BY <2>1, <2>2
<1>10. CASE SioWait
  <2>1. Running("sioWait") /\ UNCHANGED <<intent, resume, restart>> BY <1>10 DEF SioWait
  <2>2. intent # "pressed" BY <1>0, <2>1, Heads DEF Running
  <2>3. sio'.stop BY <1>10 DEF SioWait, AskStop, SioType
  <2>4. intent = "off" => todo = <<"sioWait", "stopped">> BY <1>0, <2>1, Heads DEF Running
  <2>5. todo = <<"sioWait", "stopped">> => todo' = <<"sioJoined", "stopped">>
    BY <1>10, Swaps, CallsAre DEF SioWait
  <2> QED BY <1>0, <2>1, <2>2, <2>3, <2>4, <2>5
<1>11. CASE SioJoined
  <2>1. Running("sioJoined") /\ UNCHANGED <<intent, resume, restart>> BY <1>11 DEF SioJoined
  <2>2. intent # "pressed" BY <1>0, <2>1, Heads DEF Running
  <2>3. sio'.stop = sio.stop BY <1>11 DEF SioJoined, SioType
  <2>4. intent = "off" => todo = <<"sioJoined", "stopped">> BY <1>0, <2>1, Heads DEF Running
  <2>5. todo = <<"sioJoined", "stopped">> => todo' = <<"stopped">>
    BY <1>11, Drops, CallsAre DEF SioJoined
  <2> QED BY <1>0, <2>1, <2>2, <2>3, <2>4, <2>5
<1>12. CASE TapeWait
  <2>1. Running("tapeWait") /\ UNCHANGED <<sio, intent, resume, restart>> BY <1>12 DEF TapeWait
  <2>2. intent # "pressed" BY <1>0, <2>1, Heads DEF Running
  <2>3. intent = "off" => todo = <<"tapeWait">> BY <1>0, <2>1, Heads DEF Running
  <2>4. todo = <<"tapeWait">> => todo' = <<"tapeJoined">> BY <1>12, Swaps, CallsAre DEF TapeWait
  <2> QED BY <1>0, <2>1, <2>2, <2>3, <2>4
<1>13. CASE TapeJoined
  <2>1. Running("tapeJoined") /\ UNCHANGED <<sio, intent, resume, restart>> BY <1>13 DEF TapeJoined
  <2>2. intent # "pressed" BY <1>0, <2>1, Heads DEF Running
  <2>3. intent = "off" => todo = <<"tapeJoined">> BY <1>0, <2>1, Heads DEF Running
  <2>4. todo = <<"tapeJoined">> => todo' = <<>> BY <1>13, Drops, CallsAre DEF TapeJoined
  <2> QED BY <1>0, <2>1, <2>2, <2>3, <2>4
<1>14. CASE Toggle
  <2>1. Running("toggle") /\ UNCHANGED <<tape, restart>> BY <1>14 DEF Toggle
  <2>2. intent # "off" BY <1>0, <2>1, Heads DEF Running
  <2>3. CASE intent # "pressed"
    <3>1. intent' = intent BY <1>14, <2>3 DEF Toggle, Takes
    <3> QED BY <2>2, <2>3, <3>1
  <2>4. CASE intent = "pressed"
    <3>1. todo = <<"toggle">> BY <1>0, <2>4
    <3>2. CASE TapeRuns
      <4>1. Return(<<"tapeWait">>) /\ ~resume' /\ sio' = sio /\ intent' = "off"
        BY <1>14, <2>4, <3>2 DEF Toggle, StopTape, Takes
      <4>2. todo' = <<"tapeWait">> BY <2>1, <3>1, <4>1, Swaps, CallsAre
      <4>3. Down BY <1>0, <3>2 DEF TapeRuns, Stage, Coming, Started, Failed, Serving, Hearing
      <4> QED BY <2>1, <4>1, <4>2, <4>3 DEF Down, AllOff, Errand
    <3>3. CASE ~TapeRuns /\ emulating
      <4>1. Return(<<>>) /\ AskStop /\ resume' = resume /\ intent' = "off"
        BY <1>14, <2>4, <3>3 DEF Toggle, Takes
      <4>2. sio'.stop BY <4>1 DEF AskStop, SioType
      <4>3. todo' = <<>> BY <2>1, <3>1, <4>1, Drops, CallsAre
      <4>4. Serving BY <1>0, <2>1, <3>3, Calling DEF Down, AllOff, Errand
      <4>5. ~restart /\ ~resume BY <3>1, <4>4, Heads DEF Serving
      <4> QED BY <2>1, <4>1, <4>2, <4>3, <4>5
    <3>4. CASE ~TapeRuns /\ ~emulating
      <4>1. intent' = "on" BY <1>14, <2>4, <3>4 DEF Toggle, Takes
      <4> QED BY <4>1
    <3> QED BY <3>2, <3>3, <3>4
  <2> QED BY <2>3, <2>4
<1>15. CASE Stopped
  <2>1. Running("stopped") /\ UNCHANGED <<sio, intent, resume>> /\ ~restart' BY <1>15 DEF Stopped
  <2>2. intent # "pressed" BY <1>0, <2>1, Heads DEF Running
  <2>3. intent = "off" => todo = <<"stopped">> BY <1>0, <2>1, Heads DEF Running
  <2>4. intent = "off" => Return(<<>>) BY <1>0, <1>15 DEF Stopped
  <2>5. todo = <<"stopped">> /\ Return(<<>>) => todo' = <<>> BY <2>1, Drops, CallsAre
  <2> QED BY <1>0, <2>1, <2>2, <2>3, <2>4, <2>5
<1>16. CASE Play
  <2>1. Running("play") /\ UNCHANGED intent BY <1>16 DEF Play
  <2>2. intent # "pressed" /\ intent # "off" BY <1>0, <2>1, Heads DEF Running
  <2> QED BY <2>1, <2>2
<1>17. CASE Eject
  <2>1. Running("eject") /\ UNCHANGED intent BY <1>17 DEF Eject
  <2>2. intent # "pressed" /\ intent # "off" BY <1>0, <2>1, Heads DEF Running
  <2> QED BY <2>1, <2>2
<1>18. CASE Load
  <2>1. Running("load") /\ UNCHANGED intent BY <1>18 DEF Load
  <2>2. intent # "pressed" /\ intent # "off" BY <1>0, <2>1, Heads DEF Running
  <2> QED BY <2>1, <2>2
<1>19. CASE Resume
  <2>1. Running("resume") /\ UNCHANGED <<sio, intent, restart>> /\ ~resume' BY <1>19 DEF Resume
  <2>2. intent # "pressed" BY <1>0, <2>1, Heads DEF Running
  <2>3. intent = "off" => todo = <<"resume">> BY <1>0, <2>1, Heads DEF Running
  <2>4. intent = "off" => Return(<<>>) BY <1>0, <1>19 DEF Resume
  <2>5. todo = <<"resume">> /\ Return(<<>>) => todo' = <<>> BY <2>1, Drops, CallsAre
  <2> QED BY <1>0, <2>1, <2>2, <2>3, <2>4, <2>5
<1>20. CASE SioBegins
  <2>1. UNCHANGED <<intent, resume, restart, todo>> /\ sio'.stop = sio.stop
    BY <1>20 DEF SioBegins, SioType
  <2> QED BY <1>0, <2>1
<1>21. CASE SioOpens
  <2>1. UNCHANGED <<intent, resume, restart, todo>> /\ sio'.stop = sio.stop
    BY <1>21 DEF SioOpens, Leave, SioType
  <2> QED BY <1>0, <2>1
<1>22. CASE SioPolls
  <2>1. UNCHANGED <<intent, resume, restart, todo>> /\ sio'.stop = sio.stop
    BY <1>22 DEF SioPolls, Leave, Close, SioType
  <2> QED BY <1>0, <2>1
<1>23. CASE SioServes
  <2>1. UNCHANGED <<intent, resume, restart, todo>> /\ sio'.stop = sio.stop
    BY <1>23 DEF SioServes, SioType
  <2> QED BY <1>0, <2>1
<1>24. CASE SioGivesUp
  <2>1. UNCHANGED <<intent, resume, restart, todo>> /\ sio'.stop = sio.stop
    BY <1>24 DEF SioGivesUp, Fails, Leave, Close, SioType
  <2> QED BY <1>0, <2>1
<1>25. CASE LineFails
  <2>1. UNCHANGED <<intent, resume, restart, todo>> /\ sio'.stop = sio.stop
    BY <1>25 DEF LineFails, Fails, Leave, Close, SioType
  <2> QED BY <1>0, <2>1
<1>26. CASE TapeOpens
  <2>1. UNCHANGED <<sio, intent, resume, restart, todo>>
    BY <1>26 DEF TapeOpens, TapeOver, Overlooked
  <2> QED BY <1>0, <2>1
<1>27. CASE TapeStops
  <2>1. UNCHANGED <<sio, intent, resume, restart, todo>> BY <1>27 DEF TapeStops, TapeOver
  <2> QED BY <1>0, <2>1
<1>28. CASE TapeRefused
  <2>1. UNCHANGED <<sio, intent, resume, restart, todo>>
    BY <1>28 DEF TapeRefused, TapeOver, Overlooked
  <2> QED BY <1>0, <2>1
<1>29. CASE TapeLastByte
  <2>1. UNCHANGED <<sio, intent, resume, restart, todo>> BY <1>29 DEF TapeLastByte
  <2> QED BY <1>0, <2>1
<1>30. CASE TapeCloses
  <2>1. UNCHANGED <<sio, intent, resume, restart, todo>> BY <1>30 DEF TapeCloses, TapeOver, Close
  <2> QED BY <1>0, <2>1
<1>31. CASE UNCHANGED vars
  <2>1. UNCHANGED <<sio, intent, resume, restart, todo>> BY <1>31
  <2> QED BY <1>0, <2>1
<1> QED
  BY <1>1, <1>2, <1>3, <1>4, <1>5, <1>6, <1>7, <1>8, <1>9, <1>10, <1>11, <1>12, <1>13, <1>14, <1>15,
     <1>16, <1>17, <1>18, <1>19, <1>20, <1>21, <1>22, <1>23, <1>24, <1>25, <1>26, <1>27, <1>28,
        <1>29, <1>30,
     <1>31
  DEF Next, User, EngineCall, Threads

-----------------------------------------------------------------------------
(* Who holds the line: the thread that is past its open() and not past its *)
(* close(), or a player's port between the player's end and the end of     *)
(* CassetteWorker::wait.                                                   *)
Joining == todo \in {<<"tapeJoined">>, <<"tapeJoined", "load", "resume">>}

Held == upset = {} =>
    /\ tape.stop => tape.thread \in {"opening", "playing"} /\ Joining
    /\ sio.thread \in {"polling", "reading"} => open = {sio.port}
    /\ sio.thread = "reading" => sio.reading = sio.port
    /\ tape.thread \in {"playing", "ending"} => open = {tape.port}
    /\ sio.thread \in {"idle", "starting", "opening"} /\ tape.thread = "opening" => open = {}
    /\ sio.thread \in {"idle", "starting", "opening"} /\ tape.thread = "idle" =>
         open = {} \/ (open = {tape.port} /\ Joining)

(* Only tapeJoined joins the player.                                       *)
LEMMA NotJoining ==
    /\ todo = <<>> => ~Joining
    /\ \A f : Running(f) /\ f # "tapeJoined" => ~Joining
<1>1. todo = <<>> => ~Joining BY Heads DEF Joining
<1>2. ASSUME NEW f, Running(f), f # "tapeJoined" PROVE ~Joining BY <1>2, Heads DEF Joining, Running
<1> QED BY <1>1, <1>2

(* A step that touches neither the line nor its two users.                 *)
LEMMA SameHeld ==
    ASSUME Held, upset' = {} => upset = {}, UNCHANGED <<open, tape>>,
           sio'.thread = sio.thread, sio'.port = sio.port, sio'.reading = sio.reading,
           Joining => Joining'
    PROVE  Held'
BY DEF Held

(* Without a disturbance so far, there was none before.                    *)
LEMMA Clean ==
    ASSUME [Next]_vars, Situation, upset' = {}
    PROVE  upset = {} /\ Loaded /\ Stage
<1>1. upset = {}
  <2> USE DEF line, engine, ghost, vars
  <2>1. CASE PressToggle BY <2>1 DEF PressToggle, Acts
  <2>2. CASE PressPlay BY <2>2 DEF PressPlay, Acts
  <2>3. CASE LoadOrEject BY <2>3 DEF LoadOrEject, Acts
  <2>4. CASE ApplyOptions BY <2>4 DEF ApplyOptions, Acts, AskStop
  <2>5. CASE LoadSession BY <2>5 DEF LoadSession, Acts
  <2>6. CASE CableTimer BY <2>6 DEF CableTimer, Acts
  <2>7. CASE EventLoop BY <2>7 DEF EventLoop, Deliver, Slot
  <2>8. CASE Pump BY <2>8 DEF Pump, Deliver, Slot, Running, Return
  <2>9. CASE SioStart BY <2>9 DEF SioStart, Running, Return
  <2>10. CASE SioWait BY <2>10 DEF SioWait, AskStop, Running, Return
  <2>11. CASE SioJoined BY <2>11 DEF SioJoined, Delete, Running, Return
  <2>12. CASE TapeWait BY <2>12 DEF TapeWait, Running, Return
  <2>13. CASE TapeJoined BY <2>13 DEF TapeJoined, Delete, Running, Return
  <2>14. CASE Toggle BY <2>14 DEF Toggle, StopTape, Takes, AskStop, Running, Return
  <2>15. CASE Stopped BY <2>15 DEF Stopped, Running, Return
  <2>16. CASE Play BY <2>16 DEF Play, Running, Return
  <2>17. CASE Eject BY <2>17 DEF Eject, Running, Return
  <2>18. CASE Load BY <2>18 DEF Load, Running, Return
  <2>19. CASE Resume BY <2>19 DEF Resume, Running, Return
  <2>20. CASE SioBegins BY <2>20 DEF SioBegins
  <2>21. CASE SioOpens BY <2>21 DEF SioOpens, Leave
  <2>22. CASE SioPolls BY <2>22 DEF SioPolls, Leave, Close
  <2>23. CASE SioServes BY <2>23 DEF SioServes
  <2>24. CASE SioGivesUp BY <2>24 DEF SioGivesUp, Fails, Leave, Close
  <2>25. CASE LineFails BY <2>25 DEF LineFails, Fails, Leave, Close
  <2>26. CASE TapeOpens BY <2>26 DEF TapeOpens, TapeOver, Overlooked
  <2>27. CASE TapeStops BY <2>27 DEF TapeStops, TapeOver
  <2>28. CASE TapeRefused BY <2>28 DEF TapeRefused, TapeOver, Overlooked
  <2>29. CASE TapeLastByte BY <2>29 DEF TapeLastByte
  <2>30. CASE TapeCloses BY <2>30 DEF TapeCloses, TapeOver, Close
  <2>31. CASE UNCHANGED vars BY <2>31
  <2> QED
    BY <2>1, <2>2, <2>3, <2>4, <2>5, <2>6, <2>7, <2>8, <2>9, <2>10, <2>11, <2>12, <2>13, <2>14,
       <2>15,
       <2>16, <2>17, <2>18, <2>19, <2>20, <2>21, <2>22, <2>23, <2>24, <2>25, <2>26, <2>27, <2>28,
          <2>29, <2>30,
       <2>31
    DEF Next, User, EngineCall, Threads
<1>2. Quiet BY <1>1 DEF Quiet, Calm
<1> QED BY <1>1, <1>2 DEF Situation

(* The line is handed over closed: each thread opens it when the other has *)
(* closed it.                                                              *)
LEMMA HeldNext == SioType /\ TapeType /\ Situation /\ Held /\ [Next]_vars => Held'
<1> SUFFICES ASSUME SioType, TapeType, Situation, Held, [Next]_vars, upset' = {} PROVE Held'
  BY DEF Held
<1>0. upset = {} /\ Loaded /\ Stage /\ Held BY Clean
<1> USE DEF line, engine, ghost, vars
<1>1. CASE PressToggle
  <2>1. todo = <<>> BY <1>1 DEF PressToggle, Acts
  <2>2. UNCHANGED <<open, tape>> /\ sio'.thread = sio.thread /\ sio'.port = sio.port /\ sio'.reading = sio.reading
    BY <1>1 DEF PressToggle, SioType
  <2> QED BY <2>1, <2>2, <1>0, NotJoining, SameHeld
<1>2. CASE PressPlay
  <2>1. todo = <<>> BY <1>2 DEF PressPlay, Acts
  <2>2. UNCHANGED <<open, tape>> /\ sio'.thread = sio.thread /\ sio'.port = sio.port /\ sio'.reading = sio.reading
    BY <1>2 DEF PressPlay, SioType
  <2> QED BY <2>1, <2>2, <1>0, NotJoining, SameHeld
<1>3. CASE LoadOrEject
  <2>1. todo = <<>> BY <1>3 DEF LoadOrEject, Acts
  <2>2. UNCHANGED <<open, tape>> /\ sio'.thread = sio.thread /\ sio'.port = sio.port /\ sio'.reading = sio.reading
    BY <1>3 DEF LoadOrEject, SioType
  <2> QED BY <2>1, <2>2, <1>0, NotJoining, SameHeld
<1>4. CASE ApplyOptions
  <2>1. todo = <<>> BY <1>4 DEF ApplyOptions, Acts
  <2>2. UNCHANGED <<open, tape>> /\ sio'.thread = sio.thread /\ sio'.port = sio.port /\ sio'.reading = sio.reading
    BY <1>4 DEF ApplyOptions, AskStop, SioType
  <2> QED BY <2>1, <2>2, <1>0, NotJoining, SameHeld
<1>5. CASE LoadSession
  <2>1. todo = <<>> BY <1>5 DEF LoadSession, Acts
  <2>2. UNCHANGED <<open, tape>> /\ sio'.thread = sio.thread /\ sio'.port = sio.port /\ sio'.reading = sio.reading
    BY <1>5 DEF LoadSession, SioType
  <2> QED BY <2>1, <2>2, <1>0, NotJoining, SameHeld
<1>6. CASE CableTimer
  <2>1. todo = <<>> BY <1>6 DEF CableTimer, Acts
  <2>2. UNCHANGED <<open, tape>> /\ sio'.thread = sio.thread /\ sio'.port = sio.port /\ sio'.reading = sio.reading
    BY <1>6 DEF CableTimer, SioType
  <2> QED BY <2>1, <2>2, <1>0, NotJoining, SameHeld
<1>7. CASE EventLoop
  <2>1. todo = <<>> /\ UNCHANGED <<open, tape, sio>> BY <1>7 DEF EventLoop, Deliver
  <2> QED BY <2>1, <1>0, NotJoining, SameHeld
<1>8. CASE Pump
  <2>1. Running("pump") /\ "pump" # "tapeJoined" BY <1>8 DEF Pump
  <2>2. UNCHANGED <<open, tape>> /\ sio'.thread = sio.thread /\ sio'.port = sio.port /\ sio'.reading = sio.reading
    BY <1>8 DEF Pump, Deliver, SioType
  <2> QED BY <2>1, <2>2, <1>0, NotJoining, SameHeld
<1>9. CASE SioStart
  <2>1. Down /\ ~Joining BY <1>9, <1>0, Calling, NotJoining DEF SioStart
  <2>2. UNCHANGED <<open, tape>> /\ sio.thread = "idle" /\ sio'.thread = "starting"
    BY <1>9, <2>1 DEF SioStart, Down, AllOff, SioType
  <2> QED BY <1>0, <2>1, <2>2 DEF Held
<1>10. CASE SioWait
  <2>1. Running("sioWait") /\ "sioWait" # "tapeJoined" BY <1>10 DEF SioWait
  <2>2. UNCHANGED <<open, tape>> /\ sio'.thread = sio.thread /\ sio'.port = sio.port /\ sio'.reading = sio.reading
    BY <1>10 DEF SioWait, AskStop, SioType
  <2> QED BY <2>1, <2>2, <1>0, NotJoining, SameHeld
<1>11. CASE SioJoined
  <2>1. ~Joining BY <1>11, NotJoining DEF SioJoined
  <2>2. tape' = tape /\ sio.thread = "idle" /\ sio'.thread = "idle" /\ open' = open \ {sio.port}
    BY <1>11 DEF SioJoined, Delete, SioType
  <2>3. tape.thread \in {"playing", "ending"} => open' = open
    <3>1. Serving \/ Hearing BY <1>11, <1>0, Calling DEF SioJoined
    <3> QED BY <3>1 DEF Serving, Hearing
  <2>4. open = {} => open' = {} BY <2>2
  <2> QED BY <1>0, <2>1, <2>2, <2>3, <2>4 DEF Held
<1>12. CASE TapeWait
  <2>1. todo \in {<<"tapeWait">>, <<"tapeWait", "load", "resume">>} /\ Down /\ ~Joining
    BY <1>12, <1>0, Calling, NotJoining DEF TapeWait
  <2>2. Joining'
    <3>1. /\ todo = <<"tapeWait">> => todo' = <<"tapeJoined">>
          /\ todo = <<"tapeWait", "load", "resume">> => todo' = <<"tapeJoined", "load", "resume">>
      BY <1>12, Swaps, CallsAre DEF TapeWait
    <3> QED BY <2>1, <3>1 DEF Joining
  <2>3. tape.thread \in {"opening", "playing"}
    <3>1. tape.thread \notin {"idle", "ending"} BY <1>12 DEF TapeWait
    <3> QED BY <3>1 DEF TapeType
  <2>4. UNCHANGED <<open, sio>> /\ tape'.thread = tape.thread /\ tape'.port = tape.port
    BY <1>12 DEF TapeWait, TapeType
  <2> QED BY <1>0, <2>1, <2>2, <2>3, <2>4 DEF Held
<1>13. CASE TapeJoined
  <2>1. Down BY <1>13, <1>0, Calling DEF TapeJoined
  <2>2. sio' = sio /\ sio.thread = "idle" /\ tape.thread = "idle" /\ tape'.thread = "idle" /\ tape'.stop = tape.stop
    BY <1>13, <2>1 DEF TapeJoined, Down, AllOff, TapeType
  <2>3. open' = open \ {tape.port} BY <1>13 DEF TapeJoined, Delete
  <2>4. open' = {} /\ ~tape.stop BY <1>0, <2>2, <2>3 DEF Held
  <2> QED BY <2>2, <2>4 DEF Held
<1>14. CASE Toggle
  <2>1. Running("toggle") /\ "toggle" # "tapeJoined" BY <1>14 DEF Toggle
  <2>2. UNCHANGED <<open, tape>> /\ sio'.thread = sio.thread /\ sio'.port = sio.port /\ sio'.reading = sio.reading
    BY <1>14 DEF Toggle, AskStop, SioType
  <2> QED BY <2>1, <2>2, <1>0, NotJoining, SameHeld
<1>15. CASE Stopped
  <2>1. Running("stopped") /\ "stopped" # "tapeJoined" BY <1>15 DEF Stopped
  <2>2. UNCHANGED <<open, tape>> /\ sio'.thread = sio.thread /\ sio'.port = sio.port /\ sio'.reading = sio.reading
    BY <1>15 DEF Stopped, SioType
  <2> QED BY <2>1, <2>2, <1>0, NotJoining, SameHeld
<1>16. CASE Play
  <2>1. todo = <<"play">> /\ Down /\ ~Joining BY <1>16, <1>0, Calling, NotJoining DEF Play
  <2>2. tape.thread = "idle" BY <2>1, Heads DEF Down, AllOff, Errand
  <2>3. open = {} /\ ~tape.stop BY <1>0, <2>1, <2>2 DEF Held, Down, AllOff
  <2>4. UNCHANGED <<open, sio>> /\ tape'.thread = "opening" /\ tape'.stop = tape.stop /\ sio.thread = "idle"
    BY <1>16, <2>1 DEF Play, TapeType, Down, AllOff
  <2> QED BY <2>3, <2>4 DEF Held
<1>17. CASE Eject
  <2>1. Running("eject") /\ "eject" # "tapeJoined" BY <1>17 DEF Eject
  <2>2. UNCHANGED <<open, tape>> /\ sio'.thread = sio.thread /\ sio'.port = sio.port /\ sio'.reading = sio.reading
    BY <1>17 DEF Eject, SioType
  <2> QED BY <2>1, <2>2, <1>0, NotJoining, SameHeld
<1>18. CASE Load
  <2>1. todo = <<"load", "resume">> /\ (Down \/ Serving) /\ ~Joining
    BY <1>18, <1>0, Calling, NotJoining DEF Load
  <2>2. tape.thread = "idle" BY <2>1, Heads DEF Down, AllOff, Errand, Serving
  <2>3. UNCHANGED <<open, sio>> /\ tape'.thread = "idle" /\ ~tape'.stop BY <1>18 DEF Load
  <2> QED BY <1>0, <2>1, <2>2, <2>3 DEF Held
<1>19. CASE Resume
  <2>1. Running("resume") /\ "resume" # "tapeJoined" BY <1>19 DEF Resume
  <2>2. UNCHANGED <<open, tape>> /\ sio'.thread = sio.thread /\ sio'.port = sio.port /\ sio'.reading = sio.reading
    BY <1>19 DEF Resume, SioType
  <2> QED BY <2>1, <2>2, <1>0, NotJoining, SameHeld
<1>20. CASE SioBegins
  <2>1. UNCHANGED <<open, tape, todo>> /\ sio.thread = "starting" /\ sio'.thread = "opening"
    BY <1>20 DEF SioBegins, SioType
  <2> QED BY <1>0, <2>1 DEF Held, Joining
<1>21. CASE SioOpens
  <2>1. Up /\ (Started \/ Serving)
    BY <1>0, <1>21 DEF SioOpens, Up, Stage, Down, AllOff, Coming, Failed, Hearing
  <2>2. tape.thread = "idle" /\ ~Joining BY <2>1, Heads DEF Started, Serving, Joining
  <2>3. ~tape.stop /\ UNCHANGED <<tape, todo>> BY <1>0, <1>21, <2>2 DEF SioOpens, Held
  <2>4. open = {} BY <1>0, <1>21, <2>2 DEF SioOpens, Held
  <2>5. \/ open' = {sio'.port} /\ sio'.thread = "polling"
        \/ open' = {} /\ sio'.thread = "idle"
    BY <1>21, <2>4 DEF SioOpens, Leave, SioType
  <2> QED BY <2>2, <2>3, <2>5 DEF Held
<1>22. CASE SioPolls
  <2>1. Up /\ (Started \/ Serving)
    BY <1>0, <1>22 DEF SioPolls, Up, Stage, Down, AllOff, Coming, Failed, Hearing
  <2>2. tape.thread = "idle" /\ ~Joining BY <2>1, Heads DEF Started, Serving, Joining
  <2>3. ~tape.stop /\ UNCHANGED <<tape, todo>> BY <1>0, <1>22, <2>2 DEF SioPolls, Held
  <2>4. open = {sio.port} BY <1>0, <1>22 DEF SioPolls, Held
  <2>5. \/ open' = {sio'.port} /\ sio'.thread = "reading" /\ sio'.reading = sio'.port
        \/ open' = {} /\ sio'.thread = "idle"
    BY <1>22, <2>4 DEF SioPolls, Leave, Close, SioType
  <2> QED BY <2>2, <2>3, <2>5 DEF Held
<1>23. CASE SioServes
  <2>1. Up /\ (Started \/ Serving)
    BY <1>0, <1>23 DEF SioServes, Up, Stage, Down, AllOff, Coming, Failed, Hearing
  <2>2. tape.thread = "idle" /\ ~Joining BY <2>1, Heads DEF Started, Serving, Joining
  <2>3. ~tape.stop /\ UNCHANGED <<tape, todo>> BY <1>0, <1>23, <2>2 DEF SioServes, Held
  <2>4. open = {sio.port} BY <1>0, <1>23 DEF SioServes, Held
  <2>5. open' = {sio'.port} /\ sio'.thread = "polling" BY <1>23, <2>4 DEF SioServes, SioType
  <2> QED BY <2>2, <2>3, <2>5 DEF Held
<1>24. CASE SioGivesUp
  <2>1. Up /\ (Started \/ Serving)
    BY <1>0, <1>24 DEF SioGivesUp, Fails, Up, Stage, Down, AllOff, Coming, Failed, Hearing
  <2>2. tape.thread = "idle" /\ ~Joining BY <2>1, Heads DEF Started, Serving, Joining
  <2>3. ~tape.stop /\ UNCHANGED <<tape, todo>> BY <1>0, <1>24, <2>2 DEF SioGivesUp, Fails, Held
  <2>4. open = {sio.port} BY <1>0, <1>24 DEF SioGivesUp, Fails, Held
  <2>5. open' = {} /\ sio'.thread = "idle"
    BY <1>24, <2>4 DEF SioGivesUp, Fails, Leave, Close, SioType
  <2> QED BY <2>2, <2>3, <2>5 DEF Held
<1>25. CASE LineFails
  <2>1. Up /\ (Started \/ Serving)
    BY <1>0, <1>25 DEF LineFails, Fails, Up, Stage, Down, AllOff, Coming, Failed, Hearing
  <2>2. tape.thread = "idle" /\ ~Joining BY <2>1, Heads DEF Started, Serving, Joining
  <2>3. ~tape.stop /\ UNCHANGED <<tape, todo>> BY <1>0, <1>25, <2>2 DEF LineFails, Fails, Held
  <2>4. open = {sio.port} BY <1>0, <1>25 DEF LineFails, Fails, Held
  <2>5. open' = {} /\ sio'.thread = "idle"
    BY <1>25, <2>4 DEF LineFails, Fails, Leave, Close, SioType
  <2> QED BY <2>2, <2>3, <2>5 DEF Held
<1>26. CASE TapeOpens
  <2>1. Down /\ sio' = sio /\ todo' = todo
    BY <1>0, <1>26 DEF TapeOpens, Stage, Coming, Started, Failed, Serving, Hearing
  <2>2. sio.thread = "idle" BY <2>1 DEF Down, AllOff
  <2>3. open = {} BY <1>0, <1>26, <2>2 DEF TapeOpens, Held
  <2>4. CASE tape'.thread = "playing"
    <3>1. open' = {tape'.port} /\ tape'.stop = tape.stop
      BY <1>26, <2>3, <2>4 DEF TapeOpens, TapeType
    <3> QED BY <1>0, <2>1, <2>2, <2>4, <3>1 DEF Held, Joining
  <2>5. CASE tape'.thread # "playing"
    <3>1. open' = {} /\ tape'.thread = "idle" /\ tape'.stop = tape.stop /\ ~tape.stop
      BY <1>26, <2>3, <2>5 DEF TapeOpens, Overlooked, TapeType
    <3> QED BY <2>1, <2>2, <3>1 DEF Held
  <2> QED BY <2>4, <2>5
<1>27. CASE TapeStops
  <2>1. Down /\ sio' = sio /\ todo' = todo
    BY <1>0, <1>27 DEF TapeStops, Stage, Coming, Started, Failed, Serving, Hearing
  <2>2. sio.thread = "idle" BY <2>1 DEF Down, AllOff
  <2>3. open = {tape.port} /\ Joining BY <1>0, <1>27, <2>2 DEF TapeStops, Held
  <2>4. open' = {tape'.port} /\ tape'.thread = "idle" /\ ~tape'.stop
    BY <1>27, <2>3 DEF TapeStops, TapeType
  <2> QED BY <2>1, <2>2, <2>3, <2>4 DEF Held, Joining
<1>28. CASE TapeRefused
  <2>1. "speed" \in upset' BY <1>28 DEF TapeRefused, Overlooked
  <2> QED BY <2>1 DEF Held
<1>29. CASE TapeLastByte
  <2>1. Down /\ sio' = sio /\ todo' = todo
    BY <1>0, <1>29 DEF TapeLastByte, Stage, Coming, Started, Failed, Serving, Hearing
  <2>2. sio.thread = "idle" BY <2>1 DEF Down, AllOff
  <2>3. open = {tape.port} BY <1>0, <1>29, <2>2 DEF TapeLastByte, Held
  <2>4. open' = {tape'.port} /\ tape'.thread = "ending" /\ ~tape'.stop
    BY <1>29, <2>3 DEF TapeLastByte, TapeType
  <2> QED BY <2>1, <2>2, <2>4 DEF Held
<1>30. CASE TapeCloses
  <2>1. Down /\ sio' = sio /\ todo' = todo
    BY <1>0, <1>30 DEF TapeCloses, Stage, Coming, Started, Failed, Serving, Hearing
  <2>2. sio.thread = "idle" BY <2>1 DEF Down, AllOff
  <2>3. open = {tape.port} /\ ~tape.stop BY <1>0, <1>30, <2>2 DEF TapeCloses, Held
  <2>4. open' = {} /\ tape'.thread = "idle" /\ ~tape'.stop
    BY <1>30, <2>3 DEF TapeCloses, Close, TapeType
  <2> QED BY <2>1, <2>2, <2>4 DEF Held
<1>31. CASE UNCHANGED vars BY <1>0, <1>31, SameHeld DEF Joining
<1> QED
  BY <1>1, <1>2, <1>3, <1>4, <1>5, <1>6, <1>7, <1>8, <1>9, <1>10, <1>11, <1>12, <1>13, <1>14, <1>15,
     <1>16, <1>17, <1>18, <1>19, <1>20, <1>21, <1>22, <1>23, <1>24, <1>25, <1>26, <1>27, <1>28,
        <1>29, <1>30,
     <1>31
  DEF Next, User, EngineCall, Threads

-----------------------------------------------------------------------------
(* The inductive invariant.                                                *)
Inv ==
    /\ SioType /\ TapeType /\ LineType /\ FlagType /\ CallType
    /\ Places /\ Heard /\ Told
    /\ Situation /\ Off /\ Held

(* It holds when the program starts ...                                    *)
LEMMA InvInit == Init => Inv
<1> SUFFICES ASSUME Init PROVE Inv OBVIOUS
<1> USE DEF Init
<1>1. SioType /\ TapeType /\ LineType BY DEF SioType, TapeType, LineType
<1>2. FlagType BY DEF FlagType
<1>3. CallType BY DEF CallType
<1>4. Places BY DEF Places
<1>5. Heard BY NoneStopped DEF Heard, Last, Has, Up
<1>6. Told BY DEF Told
<1>7. Situation
  <2>1. AllOff BY DEF AllOff
  <2>2. Errand BY DEF Errand
  <2>3. Loaded BY DEF Loaded
  <2> QED BY <2>1, <2>2, <2>3 DEF Situation, Stage, Down
<1>8. Off BY DEF Off
<1>9. Held BY DEF Held
<1> QED BY <1>1, <1>2, <1>3, <1>4, <1>5, <1>6, <1>7, <1>8, <1>9 DEF Inv

(* ... and every step keeps it.                                            *)
LEMMA InvNext == Inv /\ [Next]_vars => Inv'
BY SioTypeNext, TapeTypeNext, LineTypeNext, FlagTypeNext, CallTypeNext, PlacesNext, HeardNext,
   ToldNext,
   SituationNext, OffNext, HeldNext
DEF Inv

(* The invariant of run control, for every number of port objects and of   *)
(* queued signals.                                                         *)
THEOREM RunInvariant == Spec => []Inv
<1>1. Init => Inv BY InvInit
<1>2. Inv /\ [Next]_vars => Inv' BY InvNext
<1> QED BY <1>1, <1>2, PTL DEF Spec

(* The variables stay in their types, and a thread that runs has its port: *)
(* SioWorker::wait and CassetteWorker::wait delete it when the thread has  *)
(* ended.                                                                  *)
THEOREM TypeCorrect == Spec => []TypeOK
<1>1. Inv => TypeOK
  <2> SUFFICES ASSUME Inv PROVE TypeOK OBVIOUS
  <2>1. /\ sio \in [thread : {"idle", "starting", "opening", "polling", "reading"},
                    stop : BOOLEAN, port : Ports \cup {NoPort}, reading : Ports \cup {NoPort}]
        /\ sio.thread # "idle" => sio.port # NoPort
    BY DEF Inv, SioType
  <2>2. /\ tape \in [loaded : BOOLEAN, thread : {"idle", "opening", "playing", "ending"},
                     stop : BOOLEAN, port : Ports \cup {NoPort}]
        /\ tape.thread # "idle" => tape.port # NoPort
    BY DEF Inv, TapeType
  <2>3. open \subseteq Ports /\ cancelled \subseteq Ports BY DEF Inv, LineType
  <2>4. emulating \in BOOLEAN /\ restart \in BOOLEAN /\ resume \in BOOLEAN /\ asked \in BOOLEAN
    BY DEF Inv, FlagType
  <2>5. intent \in {"pressed", "on", "off", "tape", "any"} /\ upset \subseteq Disturbances
    BY DEF Inv, FlagType
  <2>6. events \in Seq({"started", "finished", "casFinished"}) BY DEF Inv, CallType, Signals
  <2>7. todo \in Seq({"toggle", "start", "sioWait", "sioJoined", "stopped", "pump", "tapeWait",
                     "tapeJoined", "play", "eject", "resume", "load"})
    BY DEF Inv, CallType, Calls
  <2> QED BY <2>1, <2>2, <2>3, <2>4, <2>5, <2>6, <2>7, Zenon DEF TypeOK
<1> QED BY <1>1, RunInvariant, PTL

(* What the UI shows is what runs: with the engine at rest and its signals *)
(* delivered, m_emulationRunning is true exactly when the SIO thread runs, *)
(* whatever was pressed in the meantime (toggleSio picks start or stop     *)
(* from it).                                                               *)
THEOREM UiIsTrue == Spec => []UiTruth
<1>1. Inv => UiTruth
  <2> SUFFICES ASSUME Inv, AtRest, sio.thread \in {"idle", "polling", "reading"}
               PROVE  emulating <=> sio.thread # "idle"
    BY DEF UiTruth
  <2>1. todo = <<>> /\ events = <<>> BY DEF AtRest
  <2>2. ~Has(events, "started") /\ ~Has(events, "finished") BY <2>1 DEF Has
  <2>3. ~Has(todo, "stopped") BY <2>1, NoneStopped
  <2>4. emulating <=> Up BY <2>2, <2>3 DEF Inv, Heard
  <2> QED BY <2>4 DEF Up
<1> QED BY <1>1, RunInvariant, PTL

(* A playing tape finds CassetteWorker's mutex unlocked only when somebody *)
(* stopped this playback, or when an earlier stop came too late to be      *)
(* seen.                                                                   *)
THEOREM TapeStopsWhenAsked == Spec => []TapePlaysOn
<1>1. Inv => TapePlaysOn BY DEF Inv, Told, TapePlaysOn, Calm
<1> QED BY <1>1, RunInvariant, PTL

(* Once the user has switched everything off, neither the end of the tape  *)
(* (loaderCasFinished) nor a restart after new settings (sioFinished)      *)
(* brings emulation back.                                                  *)
THEOREM OffStaysOff == Spec => []StaysDown
<1>1. Inv => StaysDown BY DEF Inv, Off, Quiet, StaysDown
<1> QED BY <1>1, RunInvariant, PTL

(* One owner of the serial line: through every pause, resume and restart   *)
(* no two port objects hold it open.                                       *)
THEOREM OneOwner == Spec => []OnePort
<1>1. Inv => OnePort
  <2> SUFFICES ASSUME Inv, Calm(Disturbances) PROVE Cardinality(open) <= 1 BY DEF OnePort
  <2>1. upset = {} BY DEF Inv, FlagType, Calm
  <2>2. open \in {{}, {sio.port}, {tape.port}} BY <2>1 DEF Inv, Held, SioType, TapeType
  <2>3. Cardinality({}) = 0 /\ Cardinality({sio.port}) = 1 /\ Cardinality({tape.port}) = 1
    BY FS_EmptySet, FS_Singleton
  <2> QED BY <2>2, <2>3
<1> QED BY <1>1, RunInvariant, PTL

(* With both threads ended and nothing pending the line is closed: run()   *)
(* and the two wait() functions close every port they opened.              *)
THEOREM LineIsClosed == Spec => []NoPortLeft
<1>1. Inv => NoPortLeft
  <2> SUFFICES ASSUME Inv, AtRest, sio.thread = "idle", tape.thread = "idle", Calm(Disturbances)
               PROVE  open = {}
    BY DEF NoPortLeft
  <2>1. upset = {} BY DEF Inv, FlagType, Calm
  <2>2. ~Joining BY NotJoining DEF AtRest
  <2> QED BY <2>1, <2>2 DEF Inv, Held
<1> QED BY <1>1, RunInvariant, PTL
=============================================================================
