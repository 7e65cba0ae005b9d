-------------------------- MODULE ModemLine_proofs --------------------------
(* Proofs about the R: device's data path, for every number of pieces of   *)
(* text and of bytes: what the SIO thread and the GUI thread know of each  *)
(* other between their sections under m_bufferMutex, that no step of either*)
(* loses, repeats or reorders data, and that a telnet call is the pipe of  *)
(* ModemPipe.                                                              *)
EXTENDS ModemLine, SequenceTheorems, WellFoundedInduction, TLAPS

(* Sequences of text: what is in them, and what of it is in there once.    *)
LEMMA NoText == ToSet(<<>>) = {} /\ IsInjective(<<>>) /\ <<>> \in Seq(Text)
BY DEF ToSet, IsInjective

(* Only text is in a sequence of text.                                     *)
LEMMA ToSetOf ==
    ASSUME NEW a \in Seq(Text)
    PROVE  ToSet(a) \subseteq Text
BY DEF ToSet

(* Joining two buffers puts together what is in them.                      *)
LEMMA ToSetConcat ==
    ASSUME NEW a \in Seq(Text), NEW b \in Seq(Text)
    PROVE  a \o b \in Seq(Text) /\ ToSet(a \o b) = ToSet(a) \cup ToSet(b)
<1>1. a \o b \in Seq(Text) OBVIOUS
<1>2. ASSUME NEW x \in ToSet(a \o b) PROVE x \in ToSet(a) \cup ToSet(b)
  <2>1. PICK i \in 1 .. Len(a) + Len(b) : x = (a \o b)[i] BY <1>2 DEF ToSet
  <2>2. CASE i <= Len(a) BY <2>1, <2>2 DEF ToSet
  <2>3. CASE i > Len(a)
    <3>1. x = b[i - Len(a)] /\ i - Len(a) \in DOMAIN b BY <2>1, <2>3
    <3> QED BY <3>1 DEF ToSet
  <2> QED BY <1>1, <1>2, <2>1, <2>2, <2>3
<1>3. ASSUME NEW x \in ToSet(a) PROVE x \in ToSet(a \o b)
  <2>1. PICK i \in 1 .. Len(a) : x = a[i] BY <1>3 DEF ToSet
  <2>2. x = (a \o b)[i] /\ i \in DOMAIN (a \o b) BY <2>1
  <2> QED BY <2>2 DEF ToSet
<1>4. ASSUME NEW x \in ToSet(b) PROVE x \in ToSet(a \o b)
  <2>1. PICK i \in 1 .. Len(b) : x = b[i] BY <1>4 DEF ToSet
  <2>2. x = (a \o b)[Len(a) + i] /\ Len(a) + i \in DOMAIN (a \o b) BY <2>1
  <2> QED BY <2>2 DEF ToSet
<1> QED BY <1>1, <1>2, <1>3, <1>4

(* A piece put at the end of a buffer is in it, with what was there.       *)
LEMMA ToSetAppend ==
    ASSUME NEW a \in Seq(Text), NEW t \in Text
    PROVE  /\ Append(a, t) \in Seq(Text)
           /\ ToSet(Append(a, t)) = ToSet(a) \cup {t}
<1>1. Append(a, t) = a \o <<t>> BY AppendIsConcat
<1>2. ToSet(<<t>>) = {t} BY DEF ToSet
<1>3. ToSet(a \o <<t>>) = ToSet(a) \cup ToSet(<<t>>)
  <2>1. <<t>> \in Seq(Text) OBVIOUS
  <2> QED BY <2>1, ToSetConcat
<1> QED BY <1>1, <1>2, <1>3

(* A buffer is what a READ takes of it, followed by what it leaves.        *)
LEMMA Split ==
    ASSUME NEW s \in Seq(Text), NEW k \in 0 .. Len(s)
    PROVE  /\ SubSeq(s, 1, k) \in Seq(Text) /\ SubSeq(s, k + 1, Len(s)) \in Seq(Text)
           /\ s = SubSeq(s, 1, k) \o SubSeq(s, k + 1, Len(s))
<1> DEFINE a == SubSeq(s, 1, k)
           b == SubSeq(s, k + 1, Len(s))
<1>1. a \in Seq(Text) /\ Len(a) = k /\ \A i \in 1 .. k : a[i] = s[i]
  OBVIOUS
<1>2. b \in Seq(Text) /\ Len(b) = Len(s) - k /\ \A i \in 1 .. Len(s) - k : b[i] = s[k + i]
  OBVIOUS
<1> HIDE DEF a, b
<1>3. a \o b \in Seq(Text) /\ Len(a \o b) = Len(s)
  <2>1. a \in Seq(Text) /\ b \in Seq(Text) BY <1>1, <1>2
  <2>2. a \o b \in Seq(Text) /\ Len(a \o b) = Len(a) + Len(b) BY <2>1
  <2>3. Len(s) \in Nat /\ k \in Nat OBVIOUS
  <2> QED BY <1>1, <1>2, <2>2, <2>3
<1>4. \A i \in 1 .. Len(s) : (a \o b)[i] = s[i]
  <2>1. \A i \in 1 .. k : (a \o b)[i] = s[i] BY <1>1, <1>2
  <2>2. \A i \in k + 1 .. Len(s) : (a \o b)[i] = b[i - k] /\ b[i - k] = s[i]
    BY <1>1, <1>2
  <2>3. Len(s) \in Nat /\ k \in Nat OBVIOUS
  <2> QED BY <1>1, <1>2, <2>1, <2>2, <2>3
<1>5. a \o b = s
  BY <1>3, <1>4, SeqEqual
<1> QED BY <1>1, <1>2, <1>5 DEF a, b

(* Two joined buffers hold nothing twice when neither does and they have no*)
(* piece in common, and only then.                                         *)
LEMMA InjectiveConcat ==
    ASSUME NEW a \in Seq(Text), NEW b \in Seq(Text)
    PROVE  IsInjective(a \o b) <=>
             IsInjective(a) /\ IsInjective(b) /\ ToSet(a) \cap ToSet(b) = {}
<1>1. ASSUME IsInjective(a \o b)
      PROVE  IsInjective(a) /\ IsInjective(b) /\ ToSet(a) \cap ToSet(b) = {}
  <2>1. ASSUME NEW i \in DOMAIN a, NEW j \in DOMAIN a, a[i] = a[j] PROVE i = j
    <3>1. (a \o b)[i] = a[i] /\ (a \o b)[j] = a[j] /\ {i, j} \subseteq DOMAIN (a \o b) OBVIOUS
    <3> QED BY <1>1, <2>1, <3>1 DEF IsInjective
  <2>2. ASSUME NEW i \in DOMAIN b, NEW j \in DOMAIN b, b[i] = b[j] PROVE i = j
    <3>1. /\ (a \o b)[Len(a) + i] = b[i] /\ (a \o b)[Len(a) + j] = b[j]
          /\ {Len(a) + i, Len(a) + j} \subseteq DOMAIN (a \o b) OBVIOUS
    <3>2. Len(a) + i = Len(a) + j BY <1>1, <2>2, <3>1 DEF IsInjective
    <3> QED BY <3>2
  <2>3. ASSUME NEW i \in DOMAIN a, NEW j \in DOMAIN b, a[i] = b[j] PROVE FALSE
    <3>1. /\ (a \o b)[i] = a[i] /\ (a \o b)[Len(a) + j] = b[j]
          /\ {i, Len(a) + j} \subseteq DOMAIN (a \o b) /\ i # Len(a) + j OBVIOUS
    <3> QED BY <1>1, <2>3, <3>1 DEF IsInjective
  <2> QED BY <2>1, <2>2, <2>3 DEF IsInjective, ToSet
<1>2. ASSUME IsInjective(a), IsInjective(b), ToSet(a) \cap ToSet(b) = {}
      PROVE  IsInjective(a \o b)
  <2> SUFFICES ASSUME NEW i \in 1 .. Len(a) + Len(b), NEW j \in 1 .. Len(a) + Len(b),
                      (a \o b)[i] = (a \o b)[j]
               PROVE  i = j
    BY DEF IsInjective
  <2>1. CASE i <= Len(a) /\ j <= Len(a) BY <1>2, <2>1 DEF IsInjective
  <2>2. CASE i > Len(a) /\ j > Len(a)
    <3>1. i - Len(a) \in DOMAIN b /\ j - Len(a) \in DOMAIN b /\ b[i - Len(a)] = b[j - Len(a)] BY <2>2
    <3>2. i - Len(a) = j - Len(a) BY <1>2, <3>1 DEF IsInjective
    <3> QED BY <3>2
  <2>3. CASE i <= Len(a) /\ j > Len(a)
    <3>1. a[i] = b[j - Len(a)] /\ i \in DOMAIN a /\ j - Len(a) \in DOMAIN b BY <2>3
    <3> QED BY <1>2, <3>1 DEF ToSet
  <2>4. CASE i > Len(a) /\ j <= Len(a)
    <3>1. a[j] = b[i - Len(a)] /\ j \in DOMAIN a /\ i - Len(a) \in DOMAIN b BY <2>4
    <3> QED BY <1>2, <3>1 DEF ToSet
  <2> QED BY <2>1, <2>2, <2>3, <2>4
<1> QED BY <1>1, <1>2

(* Where the threads and the modem are: the types of the control variables.*)
Flat ==
    /\ pc \in PCs /\ gui \in {"free", "ok"}
    /\ state \in {"command", "stream"} /\ call \in {"tcp", "ssh"}
    /\ streaming \in BOOLEAN /\ held \in BOOLEAN /\ enabled \in BOOLEAN /\ command \in BOOLEAN
    /\ issued \in 0 .. MaxText
    /\ upset \subseteq Races

(* The bytes the Atari sent in stream mode; none is counted twice.         *)
Bytes ==
    /\ wire \in 0 .. 1 /\ sent \in 0 .. MaxBytes
    /\ typed \in Nat /\ lost \in Nat /\ wire + typed + lost <= sent

(* The buffers hold text.                                                  *)
Buffered == tx \in Seq(Text) /\ net \in Seq(Text) /\ got \in Seq(Text) /\ dropped \subseteq Text

(* What the position of the SIO thread says of the two modes. The worker   *)
(* enters the stream last and leaves it last (onChangeBaudRate), and state *)
(* is set before and after it; only setEnabled changes it at any other     *)
(* moment.                                                                 *)
Modes ==
    /\ pc \in {"merge", "flip", "speed"} => ~streaming
    /\ pc \in {"raw", "guard", "keep", "back"} => streaming
    /\ pc = "top" /\ ~streaming => state = "command"
    /\ pc \in {"merge", "flip", "keep", "back"} => state = "command"
    /\ pc \in {"top", "raw", "guard", "speed"} /\ (streaming \/ pc = "speed") =>
          state = "stream" \/ "disabled" \in upset

(* No text waits for a READ while the modem streams, nor when handleStream *)
(* has emptied m_txBuffer and not yet changed the mode.                    *)
Carried ==
    /\ state = "stream" /\ "window" \notin upset => tx = <<>>
    /\ pc = "flip" /\ "window" \notin upset => tx = <<>>

(* The line is empty while commands are read, and the COMMAND line that    *)
(* ended a stream is still asserted until the worker has left it; the      *)
(* exception is a byte that came between the two looks of runStreamMode.   *)
Quiet ==
    /\ pc \in {"merge", "flip", "speed"} /\ "closing" \notin upset => wire = 0
    /\ pc = "top" /\ ~streaming /\ "closing" \notin upset => wire = 0
    /\ pc \in {"keep", "back"} => command /\ ("closing" \notin upset => wire = 0)

(* The part of the invariant that is not about the text itself.            *)
Control == Flat /\ Bytes /\ Modes /\ Carried /\ Quiet

(* The SIO thread reads, or is about to read, command frames.              *)
Frames == pc \in {"merge", "back"} \/ (pc = "top" /\ ~streaming)

(* Nothing of a call is among the texts.                                   *)
Own(texts) == \A t \in texts : t[1] = "own"

(* Then the stream's buffer holds no call's data, only the modem's own     *)
(* echoes: READ takes from m_txBuffer past it, and no data is overtaken.   *)
Plain == Frames => Own(ToSet(net))

(* No piece is in two places, nor twice in one.                            *)
Apart ==
    /\ IsInjective(got) /\ IsInjective(net) /\ IsInjective(tx)
    /\ ToSet(got) \cap ToSet(net) = {} /\ ToSet(got) \cap ToSet(tx) = {} /\ ToSet(net) \cap ToSet(tx) = {}

(* Every piece issued is in one place: this is Conserved, taken apart by   *)
(* buffer.                                                                 *)
Whole ==
    /\ Apart
    /\ (ToSet(got) \cup ToSet(net) \cup ToSet(tx)) \cap dropped = {}
    /\ {t[2] : t \in ToSet(got) \cup ToSet(net) \cup ToSet(tx) \cup dropped} = 1 .. issued

(* The SSH data in a is older than the SSH data in b.                      *)
Before(a, b) == \A s \in a, t \in b : s[1] = "ssh" /\ t[1] = "ssh" => s[2] < t[2]

(* The SSH data in s is in the order it came.                              *)
Ascending(s) == \A i, j \in DOMAIN s : i < j /\ s[i][1] = "ssh" /\ s[j][1] = "ssh" => s[i][2] < s[j][2]

(* SSH data is in order from the Atari to the end of the line, unless a    *)
(* piece came in the window of handleStream.                               *)
Ordered == "window" \notin upset =>
    /\ Ascending(got) /\ Ascending(net) /\ Ascending(tx)
    /\ Before(ToSet(got), ToSet(net)) /\ Before(ToSet(got), ToSet(tx)) /\ Before(ToSet(net), ToSet(tx))

-----------------------------------------------------------------------------
(* Eight ways in which a step treats the text: every proof about text is   *)
(* about these, and EveryMove is what ties them to the code's steps. A     *)
(* piece arrives: it goes to the stream's buffer behind what waits for     *)
(* READ, or past it, or to the end of m_txBuffer.                          *)
Arrives == \E t \in Text :
    /\ t[2] = issued + 1 /\ issued' = issued + 1 /\ got' = got /\ dropped' = dropped
    /\ \/ net' = net \o Append(tx, t) /\ tx' = <<>> /\ t[1] = "tcp"
       \/ net' = Append(net, t) /\ tx' = tx /\ t[1] # "tcp" /\ (t[1] = "ssh" => state = "stream")
       \/ net' = net /\ tx' = Append(tx, t)

(* A hang-up, a reset or a new start throws everything away; switching the *)
(* modem off throws away what waits for READ.                              *)
Thrown == /\ tx' = <<>> /\ dropped' = dropped \cup ToSet(tx \o net) /\ net' = <<>>
          /\ UNCHANGED <<got, issued>>

ThrownTx == /\ tx' = <<>> /\ dropped' = dropped \cup ToSet(tx)
            /\ UNCHANGED <<got, net, issued>>

(* READ is answered with the beginning of m_txBuffer, a frame being read.  *)
Answers == /\ \E k \in 0 .. Len(tx) : got' = got \o SubSeq(tx, 1, k) /\ tx' = SubSeq(tx, k + 1, Len(tx))
           /\ Frames
           /\ UNCHANGED <<net, dropped, issued>>

(* handleStream joins the buffers, dequeueNetworkData sends the stream's,  *)
(* forceCommandMode puts what is left of it back in front.                 *)
Joins == net' = tx \o net /\ tx' = <<>> /\ Frames /\ UNCHANGED <<got, dropped, issued>>
Sends == got' = got \o net /\ net' = <<>> /\ UNCHANGED <<tx, dropped, issued>>
PutsBack == tx' = net \o tx /\ net' = <<>> /\ UNCHANGED <<got, dropped, issued>>
Stays == UNCHANGED <<tx, net, got, dropped, issued>>

Moves == /\ "window" \in upset => "window" \in upset'
         /\ Arrives \/ Thrown \/ ThrownTx \/ Answers \/ Joins \/ Sends \/ PutsBack \/ Stays

(* Every step keeps the control part.                                      *)
LEMMA ControlNext == Control /\ [Next]_vars => Control'
<1> SUFFICES ASSUME Control, [Next]_vars PROVE Control' OBVIOUS
<1> USE LineAssumption DEF Control, Flat, Bytes, Modes, Carried, Quiet, PCs, Races,
            buffers, atari, modem, vars
<1>1. CASE SocketReadyRead BY <1>1 DEF SocketReadyRead, Issue
<1>2. CASE SshDataReceived BY <1>2 DEF SshDataReceived, Issue, PutByMode
<1>3. CASE SendResult BY <1>3 DEF SendResult, Issue, PutByMode
<1>4. CASE Dispatch
  <2>1. CASE UNCHANGED <<net, issued, upset>> BY <1>4, <2>1 DEF Dispatch
  <2>2. CASE \E t \in Text : Issue("own", t) BY <1>4, <2>2 DEF Dispatch, Issue
  <2> QED BY <1>4, <2>1, <2>2 DEF Dispatch
<1>5. CASE HangUp BY <1>5 DEF HangUp, Clear
<1>6. CASE Disable BY <1>6 DEF Disable
<1>7. CASE Enable BY <1>7 DEF Enable
<1>8. CASE StartEmulation
  <2> USE DEF StartEmulation, Start, Clear
  <2>1. Flat' /\ Modes' /\ Carried' BY <1>8
  <2>2. Bytes' BY <1>8
  <2>3. Quiet' BY <1>8
  <2> QED BY <2>1, <2>2, <2>3
<1>9. CASE Serve
  <2> USE DEF Serve, ServeRead, ServeOther, ServeStream, Frame
  <2>1. Flat' BY <1>9
  <2>2. Bytes' BY <1>9
  <2>3. Modes' BY <1>9
  <2>4. Carried' BY <1>9
  <2>5. Quiet' BY <1>9
  <2> QED BY <2>1, <2>2, <2>3, <2>4, <2>5
<1>10. CASE Merge BY <1>10 DEF Merge
<1>11. CASE Flip BY <1>11 DEF Flip
<1>12. CASE Speed BY <1>12 DEF Speed, ReadWire
<1>13. CASE Dequeue BY <1>13 DEF Dequeue
<1>14. CASE Raw BY <1>14 DEF Raw, ReadWire
<1>15. CASE Guard BY <1>15 DEF Guard, Leaving
<1>16. CASE Keep BY <1>16 DEF Keep
<1>17. CASE Back BY <1>17 DEF Back
<1>18. CASE StopEmulation
  <2> USE DEF StopEmulation
  <2>1. Flat' /\ Bytes' BY <1>18
  <2>2. Modes' /\ Carried' BY <1>18
  <2>3. Quiet' BY <1>18
  <2> QED BY <2>1, <2>2, <2>3
<1>19. CASE HoldEnds
  <2> USE DEF HoldEnds
  <2>1. Flat' /\ Bytes' BY <1>19
  <2>2. Modes' /\ Carried' BY <1>19
  <2>3. Quiet' BY <1>19
  <2> QED BY <2>1, <2>2, <2>3
<1>20. CASE Asserts
  <2> USE DEF Asserts
  <2>1. Flat' /\ Bytes' BY <1>20
  <2>2. Modes' /\ Carried' BY <1>20
  <2>3. Quiet' BY <1>20
  <2> QED BY <2>1, <2>2, <2>3
<1>21. CASE Types BY <1>21 DEF Types
<1>22. CASE UNCHANGED vars BY <1>22
<1> QED
  BY <1>1, <1>2, <1>3, <1>4, <1>5, <1>6, <1>7, <1>8, <1>9, <1>10, <1>11, <1>12, <1>13, <1>14,
     <1>15, <1>16, <1>17, <1>18, <1>19, <1>20, <1>21, <1>22 DEF Next, Gui, Worker

(* Every step of the GUI thread, of the SIO thread and of the Atari treats *)
(* the text in one of the eight ways.                                      *)
LEMMA EveryMove == Flat /\ Modes /\ [Next]_vars => Moves
<1> SUFFICES ASSUME Flat /\ Modes, [Next]_vars PROVE Moves OBVIOUS
<1> USE DEF Moves, Arrives, Thrown, ThrownTx, Answers, Joins, Sends, PutsBack, Stays, Frames,
            Flat, Modes, buffers, atari, modem, vars
<1>1. CASE SocketReadyRead
  <2>1. PICK t \in Text :
          /\ Issue("tcp", t)
          /\ IF state = "stream" THEN net' = net \o Append(tx, t) /\ tx' = <<>>
                                 ELSE tx' = Append(tx, t) /\ UNCHANGED net
    BY <1>1 DEF SocketReadyRead
  <2>2. t[1] = "tcp" /\ t[2] = issued + 1 /\ issued' = issued + 1 BY <2>1 DEF Issue
  <2>3. got' = got /\ dropped' = dropped BY <1>1 DEF SocketReadyRead
  <2>4. Arrives BY <2>1, <2>2, <2>3 DEF Arrives
  <2>5. "window" \in upset => "window" \in upset' BY <2>1 DEF Issue
  <2> QED BY <2>4, <2>5 DEF Moves
<1>2. CASE SshDataReceived BY <1>2 DEF SshDataReceived, Issue, PutByMode
<1>3. CASE SendResult BY <1>3 DEF SendResult, Issue, PutByMode
<1>4. CASE Dispatch BY <1>4 DEF Dispatch, Issue
<1>5. CASE HangUp BY <1>5 DEF HangUp, Clear
<1>6. CASE Disable BY <1>6 DEF Disable
<1>7. CASE Enable BY <1>7 DEF Enable
<1>8. CASE StartEmulation BY <1>8 DEF StartEmulation, Start, Clear
<1>9. CASE ServeRead BY <1>9 DEF ServeRead, Frame
<1>10. CASE ServeOther BY <1>10 DEF ServeOther, Frame
<1>11. CASE ServeStream BY <1>11 DEF ServeStream, Frame
<1>12. CASE Merge BY <1>12 DEF Merge
<1>13. CASE Flip BY <1>13 DEF Flip
<1>14. CASE Speed BY <1>14 DEF Speed, ReadWire
<1>15. CASE Dequeue BY <1>15 DEF Dequeue
<1>16. CASE Raw BY <1>16 DEF Raw, ReadWire
<1>17. CASE Guard BY <1>17 DEF Guard, Leaving
<1>18. CASE Keep BY <1>18 DEF Keep
<1>19. CASE Back BY <1>19 DEF Back
<1>20. CASE StopEmulation BY <1>20 DEF StopEmulation
<1>21. CASE HoldEnds BY <1>21 DEF HoldEnds
<1>22. CASE Asserts BY <1>22 DEF Asserts
<1>23. CASE Types BY <1>23 DEF Types
<1>24. CASE UNCHANGED vars BY <1>24
<1> QED
  BY <1>1, <1>2, <1>3, <1>4, <1>5, <1>6, <1>7, <1>8, <1>9, <1>10, <1>11, <1>12, <1>13, <1>14, <1>15, <1>16,
     <1>17, <1>18, <1>19, <1>20, <1>21, <1>22, <1>23, <1>24 DEF Next, Gui, Worker, Serve

(* No call's data is in the stream's buffer when a frame is read: a mode of*)
(* command comes with an emptied buffer (handleStream has joined it,       *)
(* forceCommandMode has put it back), and in that mode only an echo is     *)
(* added.                                                                  *)
LEMMA PlainNext == Flat /\ Modes /\ Buffered /\ Plain /\ [Next]_vars => Plain'
<1> SUFFICES ASSUME Flat /\ Modes /\ Buffered /\ Plain, [Next]_vars PROVE Plain' OBVIOUS
<1> USE DEF Flat, Modes, Plain, Frames, Own, buffers, atari, modem, vars
<1>1. CASE SocketReadyRead BY <1>1 DEF SocketReadyRead, Issue
<1>2. CASE SshDataReceived BY <1>2 DEF SshDataReceived, Issue, PutByMode
<1>3. CASE SendResult BY <1>3 DEF SendResult, Issue, PutByMode
<1>4. CASE Dispatch
  <2>1. CASE UNCHANGED net BY <1>4, <2>1 DEF Dispatch
  <2>2. CASE \E t \in Text : Issue("own", t) /\ net' = Append(net, t)
    <3>1. PICK t \in Text : t[1] = "own" /\ net' = Append(net, t) BY <2>2 DEF Issue
    <3>2. ToSet(net') = ToSet(net) \cup {t} BY <3>1, ToSetAppend DEF Buffered
    <3> QED BY <1>4, <3>1, <3>2 DEF Dispatch
  <2> QED BY <1>4, <2>1, <2>2 DEF Dispatch
<1>5. CASE HangUp BY <1>5, NoText DEF HangUp, Clear
<1>6. CASE Disable BY <1>6 DEF Disable
<1>7. CASE Enable BY <1>7 DEF Enable
<1>8. CASE StartEmulation BY <1>8, NoText DEF StartEmulation, Start, Clear
<1>9. CASE ServeRead BY <1>9 DEF ServeRead, Frame
<1>10. CASE ServeOther BY <1>10 DEF ServeOther, Frame
<1>11. CASE ServeStream BY <1>11 DEF ServeStream, Frame
<1>12. CASE Merge BY <1>12 DEF Merge
<1>13. CASE Flip BY <1>13 DEF Flip
<1>14. CASE Speed BY <1>14 DEF Speed, ReadWire
<1>15. CASE Dequeue BY <1>15 DEF Dequeue
<1>16. CASE Raw BY <1>16 DEF Raw, ReadWire
<1>17. CASE Guard BY <1>17 DEF Guard, Leaving
<1>18. CASE Keep BY <1>18, NoText DEF Keep
<1>19. CASE Back BY <1>19 DEF Back
<1>20. CASE StopEmulation BY <1>20 DEF StopEmulation
<1>21. CASE HoldEnds BY <1>21 DEF HoldEnds
<1>22. CASE Asserts BY <1>22 DEF Asserts
<1>23. CASE Types BY <1>23 DEF Types
<1>24. CASE UNCHANGED vars BY <1>24
<1> QED
  BY <1>1, <1>2, <1>3, <1>4, <1>5, <1>6, <1>7, <1>8, <1>9, <1>10, <1>11, <1>12, <1>13, <1>14, <1>15, <1>16,
     <1>17, <1>18, <1>19, <1>20, <1>21, <1>22, <1>23, <1>24 DEF Next, Gui, Worker, Serve

(* Buffers stay buffers of text.                                           *)
LEMMA BufferedMoves == Buffered /\ Moves => Buffered'
<1> SUFFICES ASSUME Buffered, Moves PROVE Buffered' OBVIOUS
<1> USE DEF Buffered
<1>0. <<>> \in Seq(Text) BY NoText
<1>1. CASE Arrives
  <2>1. PICK t \in Text :
          /\ got' = got /\ dropped' = dropped
          /\ \/ net' = net \o Append(tx, t) /\ tx' = <<>>
             \/ net' = Append(net, t) /\ tx' = tx
             \/ net' = net /\ tx' = Append(tx, t)
    BY <1>1 DEF Arrives
  <2>2. Append(tx, t) \in Seq(Text) /\ Append(net, t) \in Seq(Text) BY ToSetAppend
  <2>3. net \o Append(tx, t) \in Seq(Text) BY <2>2, ToSetConcat
  <2> QED BY <1>0, <2>1, <2>2, <2>3
<1>2. CASE Thrown
  <2>1. ToSet(tx \o net) \subseteq Text BY ToSetConcat, ToSetOf
  <2> QED BY <1>0, <1>2, <2>1 DEF Thrown
<1>3. CASE ThrownTx BY <1>0, <1>3, ToSetOf DEF ThrownTx
<1>4. CASE Answers
  <2>1. PICK k \in 0 .. Len(tx) : got' = got \o SubSeq(tx, 1, k) /\ tx' = SubSeq(tx, k + 1, Len(tx))
    BY <1>4 DEF Answers
  <2>2. SubSeq(tx, 1, k) \in Seq(Text) /\ SubSeq(tx, k + 1, Len(tx)) \in Seq(Text) BY Split
  <2>3. got \o SubSeq(tx, 1, k) \in Seq(Text) BY <2>2, ToSetConcat
  <2>4. net' = net /\ dropped' = dropped BY <1>4 DEF Answers
  <2> QED BY <2>1, <2>2, <2>3, <2>4
<1>5. CASE Joins
  <2>1. tx \o net \in Seq(Text) BY ToSetConcat
  <2> QED BY <1>0, <1>5, <2>1 DEF Joins
<1>6. CASE Sends
  <2>1. got \o net \in Seq(Text) BY ToSetConcat
  <2> QED BY <1>0, <1>6, <2>1 DEF Sends
<1>7. CASE PutsBack
  <2>1. net \o tx \in Seq(Text) BY ToSetConcat
  <2> QED BY <1>0, <1>7, <2>1 DEF PutsBack
<1>8. CASE Stays BY <1>8 DEF Stays
<1> QED BY <1>1, <1>2, <1>3, <1>4, <1>5, <1>6, <1>7, <1>8 DEF Moves

(* One piece is there once.                                                *)
LEMMA InjectiveOne ==
    ASSUME NEW t
    PROVE  IsInjective(<<t>>)
BY DEF IsInjective

(* A piece that was not in a buffer is there once after it is put there.   *)
LEMMA InjectiveAppend ==
    ASSUME NEW s \in Seq(Text), NEW t \in Text
    PROVE  IsInjective(Append(s, t)) <=> IsInjective(s) /\ t \notin ToSet(s)
<1>1. <<t>> \in Seq(Text) OBVIOUS
<1>2. IsInjective(s \o <<t>>) <=> IsInjective(s) /\ IsInjective(<<t>>) /\ ToSet(s) \cap ToSet(<<t>>) = {}
  BY <1>1, InjectiveConcat
<1>3. ToSet(<<t>>) = {t} BY DEF ToSet
<1>4. Append(s, t) = s \o <<t>> BY AppendIsConcat
<1> QED BY <1>2, <1>3, <1>4, InjectiveOne

(* No way of treating the text loses a piece or shows it twice.            *)
LEMMA WholeMoves == Buffered /\ issued \in Nat /\ Whole /\ Moves => Whole'
<1> SUFFICES ASSUME Buffered, issued \in Nat, Whole, Moves PROVE Whole' OBVIOUS
<1>0. /\ ToSet(<<>>) = {} /\ IsInjective(<<>>) /\ <<>> \in Seq(Text)
      /\ tx \in Seq(Text) /\ net \in Seq(Text) /\ got \in Seq(Text)
  BY NoText DEF Buffered
<1>1. CASE Arrives
  <2>1. PICK t \in Text :
          /\ t[2] = issued + 1 /\ issued' = issued + 1 /\ got' = got /\ dropped' = dropped
          /\ \/ net' = net \o Append(tx, t) /\ tx' = <<>>
             \/ net' = Append(net, t) /\ tx' = tx
             \/ net' = net /\ tx' = Append(tx, t)
    BY <1>1 DEF Arrives
  <2> DEFINE all == ToSet(got) \cup ToSet(net) \cup ToSet(tx) \cup dropped
  <2>2. t \notin all
    <3>1. issued + 1 \notin 1 .. issued BY <1>0
    <3>2. t \in all => t[2] \in {x[2] : x \in all} OBVIOUS
    <3> QED BY <2>1, <3>1, <3>2 DEF Whole
  <2>3. /\ IsInjective(got') /\ IsInjective(net') /\ IsInjective(tx')
        /\ ToSet(got)' = ToSet(got)
        /\ \/ ToSet(net)' = ToSet(net) \cup ToSet(tx) \cup {t} /\ ToSet(tx)' = {}
           \/ ToSet(net)' = ToSet(net) \cup {t} /\ ToSet(tx)' = ToSet(tx)
           \/ ToSet(net)' = ToSet(net) /\ ToSet(tx)' = ToSet(tx) \cup {t}
    <3>1. /\ Append(tx, t) \in Seq(Text) /\ ToSet(Append(tx, t)) = ToSet(tx) \cup {t}
          /\ Append(net, t) \in Seq(Text) /\ ToSet(Append(net, t)) = ToSet(net) \cup {t}
      BY <1>0, ToSetAppend
    <3>2. ToSet(net \o Append(tx, t)) = ToSet(net) \cup ToSet(Append(tx, t))
      BY <1>0, <3>1, ToSetConcat, Zenon
    <3>3. IsInjective(Append(tx, t)) /\ IsInjective(Append(net, t))
      BY <1>0, <2>2, InjectiveAppend DEF Whole, Apart
    <3>4. IsInjective(net \o Append(tx, t))
      <4>1. IsInjective(net) /\ ToSet(net) \cap ToSet(Append(tx, t)) = {}
        BY <2>2, <3>1 DEF Whole, Apart
      <4> QED BY <1>0, <3>1, <3>3, <4>1, InjectiveConcat, Zenon
    <3>5. CASE net' = net \o Append(tx, t) /\ tx' = <<>>
      BY <1>0, <2>1, <3>1, <3>2, <3>4, <3>5 DEF Whole, Apart
    <3>6. CASE net' = Append(net, t) /\ tx' = tx
      BY <2>1, <3>1, <3>3, <3>6 DEF Whole, Apart
    <3>7. CASE net' = net /\ tx' = Append(tx, t)
      BY <2>1, <3>1, <3>3, <3>7 DEF Whole, Apart
    <3> QED BY <2>1, <3>5, <3>6, <3>7
  <2>4. Apart' /\ ((ToSet(got) \cup ToSet(net) \cup ToSet(tx)) \cap dropped = {})'
    BY <2>1, <2>2, <2>3 DEF Whole, Apart
  <2>5. all' = all \cup {t} BY <2>1, <2>3
  <2>6. {x[2] : x \in all \cup {t}} = {x[2] : x \in all} \cup {issued + 1} BY <2>1
  <2>7. 1 .. issued + 1 = (1 .. issued) \cup {issued + 1} OBVIOUS
  <2> QED BY <2>1, <2>4, <2>5, <2>6, <2>7 DEF Whole
<1>2. CASE Thrown
  <2>1. ToSet(tx \o net) = ToSet(tx) \cup ToSet(net) BY <1>0, ToSetConcat
  <2>2. /\ ToSet(got)' = ToSet(got) /\ ToSet(net)' = {} /\ ToSet(tx)' = {} /\ issued' = issued
        /\ dropped' = dropped \cup ToSet(tx) \cup ToSet(net)
    BY <1>0, <1>2, <2>1 DEF Thrown
  <2>3. IsInjective(got') /\ IsInjective(net') /\ IsInjective(tx')
    BY <1>0, <1>2 DEF Thrown, Whole, Apart
  <2>4. ToSet(got)' \cup ToSet(net)' \cup ToSet(tx)' \cup dropped' =
        ToSet(got) \cup ToSet(net) \cup ToSet(tx) \cup dropped
    BY <2>2
  <2>5. Apart' /\ ((ToSet(got) \cup ToSet(net) \cup ToSet(tx)) \cap dropped = {})'
    BY <2>2, <2>3 DEF Whole, Apart
  <2> QED BY <2>2, <2>4, <2>5 DEF Whole
<1>3. CASE ThrownTx
  <2>1. /\ ToSet(got)' = ToSet(got) /\ ToSet(net)' = ToSet(net) /\ ToSet(tx)' = {} /\ issued' = issued
        /\ dropped' = dropped \cup ToSet(tx)
    BY <1>0, <1>3 DEF ThrownTx
  <2>2. IsInjective(got') /\ IsInjective(net') /\ IsInjective(tx')
    BY <1>0, <1>3 DEF ThrownTx, Whole, Apart
  <2>3. ToSet(got)' \cup ToSet(net)' \cup ToSet(tx)' \cup dropped' =
        ToSet(got) \cup ToSet(net) \cup ToSet(tx) \cup dropped
    BY <2>1
  <2>4. Apart' /\ ((ToSet(got) \cup ToSet(net) \cup ToSet(tx)) \cap dropped = {})'
    BY <2>1, <2>2 DEF Whole, Apart
  <2> QED BY <2>1, <2>3, <2>4 DEF Whole
<1>4. CASE Answers
  <2>1. PICK k \in 0 .. Len(tx) : got' = got \o SubSeq(tx, 1, k) /\ tx' = SubSeq(tx, k + 1, Len(tx))
    BY <1>4 DEF Answers
  <2> DEFINE head == SubSeq(tx, 1, k)
             rest == SubSeq(tx, k + 1, Len(tx))
  <2>2. head \in Seq(Text) /\ rest \in Seq(Text) /\ tx = head \o rest BY <1>0, Split
  <2> HIDE DEF head, rest
  <2>3. /\ IsInjective(head) /\ IsInjective(rest) /\ ToSet(head) \cap ToSet(rest) = {}
        /\ ToSet(tx) = ToSet(head) \cup ToSet(rest)
    <3>1. IsInjective(head \o rest) BY <2>2 DEF Whole, Apart
    <3> QED BY <2>2, <3>1, InjectiveConcat, ToSetConcat
  <2>4. ToSet(got)' = ToSet(got) \cup ToSet(head) /\ IsInjective(got')
    <3>1. got' = got \o head BY <2>1 DEF head
    <3>2. ToSet(got \o head) = ToSet(got) \cup ToSet(head) BY <1>0, <2>2, ToSetConcat
    <3>3. ToSet(got) \cap ToSet(head) = {} BY <2>3 DEF Whole, Apart
    <3>4. IsInjective(got \o head) BY <1>0, <2>2, <2>3, <3>3, InjectiveConcat DEF Whole, Apart
    <3> QED BY <3>1, <3>2, <3>4
  <2>5. tx' = rest BY <2>1 DEF rest
  <2>6. net' = net /\ dropped' = dropped /\ issued' = issued BY <1>4 DEF Answers
  <2>7. ToSet(got)' \cup ToSet(net)' \cup ToSet(tx)' = ToSet(got) \cup ToSet(net) \cup ToSet(tx)
    BY <2>3, <2>4, <2>5, <2>6
  <2>8. Apart' BY <2>3, <2>4, <2>5, <2>6 DEF Whole, Apart
  <2> QED BY <2>6, <2>7, <2>8 DEF Whole
<1>5. CASE Joins
  <2>1. ToSet(tx \o net) = ToSet(tx) \cup ToSet(net) /\ IsInjective(tx \o net)
    BY <1>0, ToSetConcat, InjectiveConcat DEF Whole, Apart
  <2>2. /\ ToSet(got)' = ToSet(got) /\ ToSet(net)' = ToSet(tx) \cup ToSet(net) /\ ToSet(tx)' = {}
        /\ dropped' = dropped /\ issued' = issued
        /\ IsInjective(got') /\ IsInjective(net') /\ IsInjective(tx')
    BY <1>0, <1>5, <2>1 DEF Joins, Whole, Apart
  <2>3. ToSet(got)' \cup ToSet(net)' \cup ToSet(tx)' = ToSet(got) \cup ToSet(net) \cup ToSet(tx) BY <2>2
  <2>4. Apart' BY <2>2 DEF Whole, Apart
  <2> QED BY <2>2, <2>3, <2>4 DEF Whole
<1>6. CASE Sends
  <2>1. ToSet(got \o net) = ToSet(got) \cup ToSet(net) /\ IsInjective(got \o net)
    BY <1>0, ToSetConcat, InjectiveConcat DEF Whole, Apart
  <2>2. /\ ToSet(got)' = ToSet(got) \cup ToSet(net) /\ ToSet(net)' = {} /\ ToSet(tx)' = ToSet(tx)
        /\ dropped' = dropped /\ issued' = issued
        /\ IsInjective(got') /\ IsInjective(net') /\ IsInjective(tx')
    BY <1>0, <1>6, <2>1 DEF Sends, Whole, Apart
  <2>3. ToSet(got)' \cup ToSet(net)' \cup ToSet(tx)' = ToSet(got) \cup ToSet(net) \cup ToSet(tx) BY <2>2
  <2>4. Apart' BY <2>2 DEF Whole, Apart
  <2> QED BY <2>2, <2>3, <2>4 DEF Whole
<1>7. CASE PutsBack
  <2>1. ToSet(net \o tx) = ToSet(tx) \cup ToSet(net) /\ IsInjective(net \o tx)
    BY <1>0, ToSetConcat, InjectiveConcat DEF Whole, Apart
  <2>2. /\ ToSet(got)' = ToSet(got) /\ ToSet(tx)' = ToSet(tx) \cup ToSet(net) /\ ToSet(net)' = {}
        /\ dropped' = dropped /\ issued' = issued
        /\ IsInjective(got') /\ IsInjective(net') /\ IsInjective(tx')
    BY <1>0, <1>7, <2>1 DEF PutsBack, Whole, Apart
  <2>3. ToSet(got)' \cup ToSet(net)' \cup ToSet(tx)' = ToSet(got) \cup ToSet(net) \cup ToSet(tx) BY <2>2
  <2>4. Apart' BY <2>2 DEF Whole, Apart
  <2> QED BY <2>2, <2>3, <2>4 DEF Whole
<1>8. CASE Stays BY <1>8 DEF Stays, Whole, Apart
<1> QED BY <1>1, <1>2, <1>3, <1>4, <1>5, <1>6, <1>7, <1>8 DEF Moves

(* Two joined buffers are in order when both are and the first is older.   *)
LEMMA AscendingConcat ==
    ASSUME NEW a \in Seq(Text), NEW b \in Seq(Text)
    PROVE  Ascending(a \o b) <=> Ascending(a) /\ Ascending(b) /\ Before(ToSet(a), ToSet(b))
<1>1. ASSUME Ascending(a \o b)
      PROVE  Ascending(a) /\ Ascending(b) /\ Before(ToSet(a), ToSet(b))
  <2>1. ASSUME NEW i \in DOMAIN a, NEW j \in DOMAIN a, i < j, a[i][1] = "ssh", a[j][1] = "ssh"
        PROVE  a[i][2] < a[j][2]
    <3>1. (a \o b)[i] = a[i] /\ (a \o b)[j] = a[j] /\ {i, j} \subseteq DOMAIN (a \o b) OBVIOUS
    <3> QED BY <1>1, <2>1, <3>1 DEF Ascending
  <2>2. ASSUME NEW i \in DOMAIN b, NEW j \in DOMAIN b, i < j, b[i][1] = "ssh", b[j][1] = "ssh"
        PROVE  b[i][2] < b[j][2]
    <3>1. /\ (a \o b)[Len(a) + i] = b[i] /\ (a \o b)[Len(a) + j] = b[j]
          /\ {Len(a) + i, Len(a) + j} \subseteq DOMAIN (a \o b) /\ Len(a) + i < Len(a) + j
      BY <2>2
    <3> QED BY <1>1, <2>2, <3>1 DEF Ascending
  <2>3. ASSUME NEW i \in DOMAIN a, NEW j \in DOMAIN b, a[i][1] = "ssh", b[j][1] = "ssh"
        PROVE  a[i][2] < b[j][2]
    <3>1. /\ (a \o b)[i] = a[i] /\ (a \o b)[Len(a) + j] = b[j]
          /\ {i, Len(a) + j} \subseteq DOMAIN (a \o b) /\ i < Len(a) + j OBVIOUS
    <3> QED BY <1>1, <2>3, <3>1 DEF Ascending
  <2> QED BY <2>1, <2>2, <2>3 DEF Ascending, Before, ToSet
<1>2. ASSUME Ascending(a), Ascending(b), Before(ToSet(a), ToSet(b))
      PROVE  Ascending(a \o b)
  <2> SUFFICES ASSUME NEW i \in 1 .. Len(a) + Len(b), NEW j \in 1 .. Len(a) + Len(b), i < j,
                      (a \o b)[i][1] = "ssh", (a \o b)[j][1] = "ssh"
               PROVE  (a \o b)[i][2] < (a \o b)[j][2]
    BY DEF Ascending
  <2>1. CASE j <= Len(a)
    <3>1. (a \o b)[i] = a[i] /\ (a \o b)[j] = a[j] /\ i \in DOMAIN a /\ j \in DOMAIN a BY <2>1
    <3> QED BY <1>2, <3>1 DEF Ascending
  <2>2. CASE i > Len(a)
    <3>1. /\ i - Len(a) \in DOMAIN b /\ j - Len(a) \in DOMAIN b /\ i - Len(a) < j - Len(a)
          /\ (a \o b)[i] = b[i - Len(a)] /\ (a \o b)[j] = b[j - Len(a)]
      BY <2>2
    <3> QED BY <1>2, <3>1 DEF Ascending
  <2>3. CASE i <= Len(a) /\ j > Len(a)
    <3>1. /\ (a \o b)[i] = a[i] /\ (a \o b)[j] = b[j - Len(a)]
          /\ i \in DOMAIN a /\ j - Len(a) \in DOMAIN b
      BY <2>3
    <3>2. a[i] \in ToSet(a) /\ b[j - Len(a)] \in ToSet(b) BY <3>1 DEF ToSet
    <3> QED BY <1>2, <3>1, <3>2 DEF Before
  <2> QED BY <2>1, <2>2, <2>3
<1> QED BY <1>1, <1>2

(* No way of treating the text breaks the order of SSH data; a new piece is*)
(* younger than all that came.                                             *)
LEMMA OrderedMoves ==
    Buffered /\ issued \in Nat /\ Whole /\ Carried /\ Plain /\ Ordered /\ Moves => Ordered'
<1> SUFFICES ASSUME Buffered, issued \in Nat, Whole, Carried, Plain, Ordered, Moves, "window" \notin upset'
             PROVE  /\ Ascending(got') /\ Ascending(net') /\ Ascending(tx')
                    /\ Before(ToSet(got'), ToSet(net')) /\ Before(ToSet(got'), ToSet(tx'))
                    /\ Before(ToSet(net'), ToSet(tx'))
  BY DEF Ordered
<1>0. /\ tx \in Seq(Text) /\ net \in Seq(Text) /\ got \in Seq(Text) /\ <<>> \in Seq(Text)
      /\ Ascending(<<>>) /\ ToSet(<<>>) = {}
  BY NoText DEF Buffered, Ascending
<1>w. "window" \notin upset BY DEF Moves
<1>a. /\ Ascending(got) /\ Ascending(net) /\ Ascending(tx)
      /\ Before(ToSet(got), ToSet(net)) /\ Before(ToSet(got), ToSet(tx)) /\ Before(ToSet(net), ToSet(tx))
  BY <1>w DEF Ordered
<1>1. CASE Arrives
  <2>1. PICK t \in Text :
          /\ t[2] = issued + 1 /\ got' = got
          /\ \/ net' = net \o Append(tx, t) /\ tx' = <<>>
             \/ net' = Append(net, t) /\ tx' = tx /\ (t[1] = "ssh" => state = "stream")
             \/ net' = net /\ tx' = Append(tx, t)
    BY <1>1 DEF Arrives
  <2>2. /\ Before(ToSet(got), {t}) /\ Before(ToSet(net), {t}) /\ Before(ToSet(tx), {t})
    <3>1. \A x \in ToSet(got) \cup ToSet(net) \cup ToSet(tx) : x[2] \in 1 .. issued BY DEF Whole
    <3>2. \A n \in 1 .. issued : n < issued + 1 OBVIOUS
    <3> QED BY <2>1, <3>1, <3>2 DEF Before
  <2>3. ASSUME NEW s \in Seq(Text), Ascending(s), Before(ToSet(s), {t})
        PROVE  /\ Append(s, t) \in Seq(Text) /\ Ascending(Append(s, t))
               /\ ToSet(Append(s, t)) = ToSet(s) \cup {t}
    <3>1. <<t>> \in Seq(Text) /\ Ascending(<<t>>) /\ ToSet(<<t>>) = {t} BY DEF Ascending, ToSet
    <3>2. Ascending(s \o <<t>>) BY <2>3, <3>1, AscendingConcat
    <3>3. Append(s, t) = s \o <<t>> BY AppendIsConcat
    <3> QED BY <3>2, <3>3, ToSetAppend
  <2>4. CASE net' = net \o Append(tx, t) /\ tx' = <<>>
    <3>1. Append(tx, t) \in Seq(Text) /\ Ascending(Append(tx, t)) /\ ToSet(Append(tx, t)) = ToSet(tx) \cup {t}
      BY <1>0, <1>a, <2>2, <2>3
    <3>2. Before(ToSet(net), ToSet(Append(tx, t))) BY <1>a, <2>2, <3>1 DEF Before
    <3>3. /\ Ascending(net \o Append(tx, t))
          /\ ToSet(net \o Append(tx, t)) = ToSet(net) \cup ToSet(Append(tx, t))
      BY <1>0, <1>a, <3>1, <3>2, AscendingConcat, ToSetConcat, Zenon
    <3>4. ToSet(net') = ToSet(net) \cup ToSet(tx) \cup {t} /\ ToSet(tx') = {} BY <1>0, <2>4, <3>1, <3>3
    <3>5. Ascending(net') /\ Ascending(tx') /\ Ascending(got') /\ ToSet(got') = ToSet(got)
      BY <1>0, <1>a, <2>1, <2>4, <3>3
    <3>6. Before(ToSet(got'), ToSet(net')) BY <1>a, <2>2, <3>4, <3>5 DEF Before
    <3> QED BY <3>4, <3>5, <3>6 DEF Before
  <2>5. CASE net' = Append(net, t) /\ tx' = tx /\ (t[1] = "ssh" => state = "stream")
    <3>1. Ascending(net') /\ ToSet(net') = ToSet(net) \cup {t} BY <1>0, <1>a, <2>2, <2>3, <2>5
    <3>2. t[1] = "ssh" => ToSet(tx) = {} BY <1>0, <1>w, <2>5 DEF Carried
    <3>3. Before({t}, ToSet(tx)) BY <3>2 DEF Before
    <3> QED BY <1>a, <2>1, <2>2, <2>5, <3>1, <3>3 DEF Before
  <2>6. CASE net' = net /\ tx' = Append(tx, t)
    <3>1. Ascending(tx') /\ ToSet(tx') = ToSet(tx) \cup {t} BY <1>0, <1>a, <2>2, <2>3, <2>6
    <3> QED BY <1>a, <2>1, <2>2, <2>6, <3>1 DEF Before
  <2> QED BY <2>1, <2>4, <2>5, <2>6
<1>2. CASE Thrown BY <1>0, <1>2, <1>a DEF Thrown, Before
<1>3. CASE ThrownTx BY <1>0, <1>3, <1>a DEF ThrownTx, Before
<1>4. CASE Answers
  <2>1. PICK k \in 0 .. Len(tx) : got' = got \o SubSeq(tx, 1, k) /\ tx' = SubSeq(tx, k + 1, Len(tx))
    BY <1>4 DEF Answers
  <2> DEFINE head == SubSeq(tx, 1, k)
             rest == SubSeq(tx, k + 1, Len(tx))
  <2>2. head \in Seq(Text) /\ rest \in Seq(Text) /\ tx = head \o rest BY <1>0, Split
  <2>3. got' = got \o head /\ tx' = rest BY <2>1
  <2> HIDE DEF head, rest
  <2>4. Ascending(head) /\ Ascending(rest) /\ Before(ToSet(head), ToSet(rest))
    BY <1>a, <2>2, AscendingConcat
  <2>5. ToSet(tx) = ToSet(head) \cup ToSet(rest) /\ ToSet(got \o head) = ToSet(got) \cup ToSet(head)
    BY <1>0, <2>2, ToSetConcat
  <2>6. Before(ToSet(got), ToSet(head)) BY <1>a, <2>5 DEF Before
  <2>7. Ascending(got \o head) BY <1>0, <1>a, <2>2, <2>4, <2>6, AscendingConcat
  <2>8. net' = net /\ Own(ToSet(net)) BY <1>4 DEF Answers, Plain
  <2>9. ToSet(got') = ToSet(got) \cup ToSet(head) /\ ToSet(tx') = ToSet(rest) /\ ToSet(net') = ToSet(net)
    BY <2>3, <2>5, <2>8
  <2>10. Before(ToSet(got'), ToSet(net')) /\ Before(ToSet(net'), ToSet(tx'))
    BY <2>8, <2>9 DEF Before, Own
  <2>11. Before(ToSet(got'), ToSet(tx')) BY <1>a, <2>4, <2>5, <2>9 DEF Before
  <2> QED BY <1>a, <2>3, <2>4, <2>7, <2>8, <2>10, <2>11
<1>5. CASE Joins
  <2>1. Own(ToSet(net)) /\ net' = tx \o net /\ tx' = <<>> /\ got' = got BY <1>5 DEF Joins, Plain
  <2>2. Before(ToSet(tx), ToSet(net)) BY <2>1 DEF Before, Own
  <2>3. Ascending(tx \o net) /\ ToSet(tx \o net) = ToSet(tx) \cup ToSet(net)
    BY <1>0, <1>a, <2>2, AscendingConcat, ToSetConcat
  <2> QED BY <1>0, <1>a, <2>1, <2>3 DEF Before
<1>6. CASE Sends
  <2>1. Ascending(got \o net) /\ ToSet(got \o net) = ToSet(got) \cup ToSet(net)
    BY <1>0, <1>a, AscendingConcat, ToSetConcat
  <2> QED BY <1>0, <1>6, <1>a, <2>1 DEF Sends, Before
<1>7. CASE PutsBack
  <2>1. Ascending(net \o tx) /\ ToSet(net \o tx) = ToSet(net) \cup ToSet(tx)
    BY <1>0, <1>a, AscendingConcat, ToSetConcat
  <2> QED BY <1>0, <1>7, <1>a, <2>1 DEF PutsBack, Before
<1>8. CASE Stays BY <1>8, <1>a DEF Stays
<1> QED BY <1>1, <1>2, <1>3, <1>4, <1>5, <1>6, <1>7, <1>8 DEF Moves

-----------------------------------------------------------------------------
(* The least number that has not a property: induction, set by set. *)
-----------------------------------------------------------------------------
(* Facts about Of, which takes the pieces of one kind out of a buffer, by  *)
(* the smallest length at which they could fail: a non-empty set of natural*)
(* numbers has a least element.                                            *)
LEMMA Least ==
    ASSUME NEW bad, bad \subseteq Nat, bad # {}
    PROVE  \E n \in bad : \A m \in bad : n <= m
<1>1. PICK n \in bad : \A y \in bad : ~ (<<y, n>> \in OpToRel(<, Nat))
  BY NatLessThanWellFounded, WFMin
<1>2. ASSUME NEW m \in bad, m < n PROVE FALSE
  <2>1. <<m, n>> \in OpToRel(<, Nat) BY <1>2 DEF OpToRel
  <2> QED BY <1>1, <2>1
<1>3. \A m \in bad : m \in Nat /\ n \in Nat OBVIOUS
<1> QED BY <1>2, <1>3

(* What Of computes at place n from its value at n - 1, and the function   *)
(* that does so at every place up to m.                                    *)
Step(k, s, f, n) ==
    IF n = 0 THEN <<>> ELSE IF s[n][1] = k THEN Append(f[n - 1], s[n]) ELSE f[n - 1]

Sieve(k, s, m, f) == f \in [0 .. m -> Seq(Text)] /\ \A n \in 0 .. m : f[n] = Step(k, s, f, n)

(* There is such a function for every buffer.                              *)
LEMMA SieveExists ==
    ASSUME NEW k, NEW s \in Seq(Text), NEW m \in 0 .. Len(s)
    PROVE  \E f : Sieve(k, s, m, f)
<1> DEFINE bad == {n \in Nat : n <= Len(s) /\ ~ \E f : Sieve(k, s, n, f)}
<1> SUFFICES ASSUME bad # {} PROVE FALSE OBVIOUS
<1>1. PICK n \in bad : \A i \in bad : n <= i BY Least
<1>2. n # 0
  <2>1. Sieve(k, s, 0, [i \in 0 .. 0 |-> <<>>]) BY DEF Sieve, Step
  <2> QED BY <2>1
<1>3. PICK f : Sieve(k, s, n - 1, f)
  <2>1. n - 1 \in Nat /\ n - 1 < n /\ n - 1 <= Len(s) BY <1>2
  <2> QED BY <1>1, <2>1
<1> DEFINE g == [i \in 0 .. n |-> IF i < n THEN f[i] ELSE Step(k, s, f, n)]
<1>4. n \in 1 .. Len(s) /\ s[n] \in Text BY <1>2
<1>5. Step(k, s, f, n) \in Seq(Text)
  <2>1. f[n - 1] \in Seq(Text) BY <1>3, <1>4 DEF Sieve
  <2>2. Append(f[n - 1], s[n]) \in Seq(Text) BY <1>4, <2>1
  <2> QED BY <1>4, <2>1, <2>2 DEF Step
<1>6. g \in [0 .. n -> Seq(Text)]
  <2>1. \A i \in 0 .. n - 1 : f[i] \in Seq(Text) BY <1>3 DEF Sieve
  <2> QED BY <1>4, <1>5, <2>1
<1>7. ASSUME NEW i \in 0 .. n PROVE g[i] = Step(k, s, g, i)
  <2>1. CASE i < n
    <3>1. g[i] = Step(k, s, f, i) BY <1>3, <1>4, <2>1 DEF Sieve
    <3>2. i # 0 => g[i - 1] = f[i - 1] BY <1>4, <2>1
    <3> QED BY <3>1, <3>2 DEF Step
  <2>2. CASE i = n
    <3>1. g[n - 1] = f[n - 1] /\ g[n] = Step(k, s, f, n) BY <1>4
    <3> QED BY <2>2, <3>1 DEF Step
  <2> QED BY <1>4, <2>1, <2>2
<1>8. Sieve(k, s, n, g) BY <1>6, <1>7 DEF Sieve
<1> QED BY <1>8

(* So Of is the last value of one.                                         *)
LEMMA OfIsSieve ==
    ASSUME NEW k, NEW s \in Seq(Text)
    PROVE  \E f : Sieve(k, s, Len(s), f) /\ Of(k, s) = f[Len(s)]
<1> DEFINE Is(f) == f = [n \in 0 .. Len(s) |->
              IF n = 0 THEN <<>> ELSE IF s[n][1] = k THEN Append(f[n - 1], s[n]) ELSE f[n - 1]]
<1>1. PICK h : Sieve(k, s, Len(s), h)
  <2>1. Len(s) \in 0 .. Len(s) OBVIOUS
  <2> QED BY <2>1, SieveExists
<1>2. Is(h)
  BY <1>1 DEF Sieve, Step
<1> DEFINE u == CHOOSE f : Is(f)
<1>3. Is(u) BY <1>2
<1>4. Of(k, s) = u[Len(s)] BY DEF Of
<1> HIDE DEF u
<1>5. Sieve(k, s, Len(s), u)
  <2>1. \A n \in 0 .. Len(s) : u[n] = Step(k, s, u, n) BY <1>3 DEF Step
  <2> DEFINE bad == {n \in 0 .. Len(s) : u[n] \notin Seq(Text)}
  <2>2. ASSUME bad # {} PROVE FALSE
    <3>0. bad \subseteq Nat OBVIOUS
    <3> HIDE DEF bad
    <3>1. PICK n \in bad : \A i \in bad : n <= i BY <2>2, <3>0, Least
    <3> USE DEF bad
    <3>2. CASE n = 0
      <4>1. u[n] = Step(k, s, u, n) /\ u[n] \notin Seq(Text) BY <2>1, <3>1
      <4> QED BY <3>2, <4>1 DEF Step
    <3>3. CASE n # 0
      <4>1. n \in 1 .. Len(s) /\ n - 1 \in 0 .. Len(s) /\ n - 1 \notin bad BY <3>1, <3>3
      <4>2. u[n - 1] \in Seq(Text) /\ s[n] \in Text BY <4>1
      <4>3. Append(u[n - 1], s[n]) \in Seq(Text) BY <4>2
      <4>4. u[n] = Step(k, s, u, n) BY <2>1, <4>1
      <4> QED BY <3>1, <3>3, <4>2, <4>3, <4>4 DEF Step
    <3> QED BY <3>2, <3>3
  <2>3. u = [n \in 0 .. Len(s) |-> u[n]] BY <1>3
  <2> QED BY <2>1, <2>2, <2>3 DEF Sieve
<1> QED BY <1>4, <1>5

(* The pieces of one kind are a sequence of text;                          *)
LEMMA OfType == ASSUME NEW k, NEW s \in Seq(Text) PROVE Of(k, s) \in Seq(Text)
<1>1. PICK f : Sieve(k, s, Len(s), f) /\ Of(k, s) = f[Len(s)] BY OfIsSieve
<1> QED BY <1>1 DEF Sieve

(* one more piece is one more of its own kind;                             *)
LEMMA OfAppend ==
    ASSUME NEW k, NEW s \in Seq(Text), NEW t \in Text
    PROVE  Of(k, Append(s, t)) = IF t[1] = k THEN Append(Of(k, s), t) ELSE Of(k, s)
<1> DEFINE r == Append(s, t)
<1>0. r \in Seq(Text) /\ Len(r) = Len(s) + 1 /\ r[Len(s) + 1] = t /\ \A n \in 1 .. Len(s) : r[n] = s[n]
  OBVIOUS
<1>1. PICK f : Sieve(k, s, Len(s), f) /\ Of(k, s) = f[Len(s)] BY OfIsSieve
<1> HIDE DEF r
<1>2. PICK g : Sieve(k, r, Len(s) + 1, g) /\ Of(k, r) = g[Len(s) + 1] BY <1>0, OfIsSieve
<1>n. Len(s) \in Nat OBVIOUS
<1>3. \A n \in 0 .. Len(s) : g[n] = f[n]
  <2> DEFINE bad == {n \in 0 .. Len(s) : g[n] # f[n]}
  <2> SUFFICES ASSUME bad # {} PROVE FALSE OBVIOUS
  <2>0. bad \subseteq Nat BY <1>n
  <2> HIDE DEF bad
  <2>1. PICK n \in bad : \A i \in bad : n <= i BY <2>0, Least
  <2> USE DEF bad
  <2>2. f[n] = Step(k, s, f, n) /\ g[n] = Step(k, r, g, n) BY <1>1, <1>2, <1>n, <2>1 DEF Sieve
  <2>3. n # 0 BY <2>1, <2>2 DEF Step
  <2>4. n \in 1 .. Len(s) /\ n - 1 \in 0 .. Len(s) /\ n - 1 \notin bad BY <1>n, <2>1, <2>3
  <2>5. g[n - 1] = f[n - 1] /\ r[n] = s[n] BY <1>0, <2>4
  <2> QED BY <2>1, <2>2, <2>5 DEF Step
<1>4. f[Len(s)] \in Seq(Text) BY <1>1, <1>n DEF Sieve
<1>5. g[Len(s) + 1] = Step(k, r, g, Len(s) + 1) BY <1>2, <1>n DEF Sieve
<1>6. g[(Len(s) + 1) - 1] = f[Len(s)] BY <1>3, <1>n
<1>7. Len(s) + 1 # 0 BY <1>n
<1>8. g[Len(s) + 1] = IF t[1] = k THEN Append(f[Len(s)], t) ELSE f[Len(s)]
  BY <1>0, <1>5, <1>6, <1>7 DEF Step
<1> QED BY <1>1, <1>2, <1>4, <1>8 DEF r

(* there are none in an empty buffer;                                      *)
LEMMA OfNothing == ASSUME NEW k PROVE Of(k, <<>>) = <<>>
<1>1. <<>> \in Seq(Text) /\ Len(<<>>) = 0 OBVIOUS
<1>2. PICK f : Sieve(k, <<>>, 0, f) /\ Of(k, <<>>) = f[0] BY <1>1, OfIsSieve
<1> QED BY <1>2 DEF Sieve, Step

(* those of two joined buffers are those of the first, then those of the   *)
(* second;                                                                 *)
LEMMA OfConcat ==
    ASSUME NEW k, NEW a \in Seq(Text), NEW b \in Seq(Text)
    PROVE  /\ Of(k, a) \in Seq(Text) /\ Of(k, b) \in Seq(Text)
           /\ Of(k, a \o b) = Of(k, a) \o Of(k, b)
<1> DEFINE Wrong(n) == \E s \in Seq(Text) : Len(s) = n /\
                (Of(k, s) \notin Seq(Text) \/ Of(k, a \o s) # Of(k, a) \o Of(k, s))
           bad == {n \in Nat : Wrong(n)}
<1>0. Of(k, a) \in Seq(Text) BY OfType
<1>1. ASSUME bad # {} PROVE FALSE
  <2>1. PICK n \in bad : \A i \in bad : n <= i BY <1>1, Least
  <2>2. PICK s \in Seq(Text) :
          /\ Len(s) = n
          /\ Of(k, s) \notin Seq(Text) \/ Of(k, a \o s) # Of(k, a) \o Of(k, s)
    BY <2>1
  <2>3. CASE n = 0
    <3>1. s = <<>> BY <2>2, <2>3
    <3>2. a \o <<>> = a /\ Of(k, a) \o <<>> = Of(k, a) BY <1>0
    <3> QED BY <2>2, <3>1, <3>2, OfNothing
  <2>4. CASE n # 0
    <3> DEFINE front == SubSeq(s, 1, n - 1)
               last  == s[n]
    <3>1. front \in Seq(Text) /\ last \in Text /\ Len(front) = n - 1 /\ s = Append(front, last)
      BY <2>1, <2>2, <2>4
    <3> HIDE DEF front, last
    <3>2. n - 1 \in Nat /\ n - 1 < n BY <2>1, <2>4
    <3>3. n - 1 \notin bad BY <2>1, <3>2
    <3>4. Of(k, front) \in Seq(Text) /\ Of(k, a \o front) = Of(k, a) \o Of(k, front)
      BY <3>1, <3>2, <3>3
    <3> DEFINE whole == a \o front
    <3>5. whole \in Seq(Text) /\ a \o s = Append(whole, last) BY <3>1, SMTT(20)
    <3> HIDE DEF whole
    <3>6. Of(k, s) = IF last[1] = k THEN Append(Of(k, front), last) ELSE Of(k, front)
      BY <3>1, OfAppend
    <3>7. Of(k, a \o s) = IF last[1] = k THEN Append(Of(k, whole), last) ELSE Of(k, whole)
      BY <3>1, <3>5, OfAppend
    <3>8. Of(k, a) \o Append(Of(k, front), last) = Append(Of(k, a) \o Of(k, front), last)
      <4> DEFINE x == Of(k, a)
                 y == Of(k, front)
      <4>1. x \in Seq(Text) /\ y \in Seq(Text) BY <1>0, <3>4
      <4> HIDE DEF x, y
      <4>2. x \o Append(y, last) = Append(x \o y, last) BY <3>1, <4>1, SMTT(20)
      <4> QED BY <4>2 DEF x, y
    <3>9. Of(k, s) \in Seq(Text) BY <3>1, <3>4, <3>6
    <3> QED BY <2>2, <3>4, <3>6, <3>7, <3>8, <3>9 DEF whole
  <2> QED BY <2>3, <2>4
<1>2. Len(b) \in Nat OBVIOUS
<1> QED BY <1>0, <1>1, <1>2
(* there are none where every piece is of another kind.                    *)
LEMMA OfNone ==
    ASSUME NEW k, NEW s \in Seq(Text), \A t \in ToSet(s) : t[1] # k
    PROVE  Of(k, s) = <<>>
<1>1. PICK f : Sieve(k, s, Len(s), f) /\ Of(k, s) = f[Len(s)] BY OfIsSieve
<1> DEFINE bad == {n \in 0 .. Len(s) : f[n] # <<>>}
<1>2. ASSUME bad # {} PROVE FALSE
  <2>0. bad \subseteq Nat OBVIOUS
  <2> HIDE DEF bad
  <2>1. PICK n \in bad : \A i \in bad : n <= i BY <1>2, <2>0, Least
  <2> USE DEF bad
  <2>2. f[n] = Step(k, s, f, n) BY <1>1, <2>1 DEF Sieve
  <2>3. n # 0 BY <2>1, <2>2 DEF Step
  <2>4. n \in 1 .. Len(s) /\ n - 1 \in 0 .. Len(s) /\ n - 1 \notin bad BY <2>1, <2>3
  <2>5. s[n] \in ToSet(s) BY <2>4 DEF ToSet
  <2> QED BY <2>1, <2>2, <2>4, <2>5 DEF Step
<1> QED BY <1>1, <1>2

(* Joined sequences are cut apart again where they were joined.            *)
LEMMA CutConcat ==
    ASSUME NEW x \in Seq(Text), NEW y \in Seq(Text)
    PROVE  /\ Len(x \o y) = Len(x) + Len(y) /\ Len(x) \in Nat /\ Len(y) \in Nat
           /\ SubSeq(x \o y, 1, Len(x)) = x
           /\ SubSeq(x \o y, Len(x) + 1, Len(x \o y)) = y
           /\ y = <<>> => x \o y = x
           /\ x = <<>> => x \o y = y
           /\ Len(x) = 0 => x = <<>>
           /\ Len(y) = 0 => y = <<>>
OBVIOUS

(* What goes from the front of the line to the Atari is a Take of the pipe,*)
(* or nothing.                                                             *)
LEMMA PipeTakes ==
    ASSUME NEW x \in Seq(Text), NEW y \in Seq(Text),
           Of("tcp", net \o tx) = x \o y, Of("tcp", net' \o tx') = y,
           Of("tcp", got) \in Seq(Text), Of("tcp", got') = Of("tcp", got) \o x
    PROVE  [Pipe!Next]_<<Of("tcp", net \o tx), Of("tcp", got)>>
<1>1. CASE x = <<>>
  <2>1. Of("tcp", net' \o tx') = Of("tcp", net \o tx) /\ Of("tcp", got') = Of("tcp", got)
    BY <1>1, CutConcat
  <2> QED BY <2>1
<1>2. CASE x # <<>>
  <2>1. Len(x) \in 1 .. Len(x \o y) BY <1>2, CutConcat
  <2>2. /\ SubSeq(Of("tcp", net \o tx), 1, Len(x)) = x
        /\ SubSeq(Of("tcp", net \o tx), Len(x) + 1, Len(Of("tcp", net \o tx))) = y
    BY CutConcat
  <2>3. Pipe!Take(Len(x)) BY <2>2 DEF Pipe!Take
  <2> QED BY <2>1, <2>3 DEF Pipe!Next
<1> QED BY <1>1, <1>2

(* What is thrown away at the end of the line is a Lose of the pipe, or    *)
(* nothing.                                                                *)
LEMMA PipeLoses ==
    ASSUME NEW x \in Seq(Text), NEW y \in Seq(Text),
           Of("tcp", net \o tx) = x \o y, Of("tcp", net' \o tx') = x, got' = got
    PROVE  [Pipe!Next]_<<Of("tcp", net \o tx), Of("tcp", got)>>
<1>1. CASE y = <<>>
  <2>1. Of("tcp", net' \o tx') = Of("tcp", net \o tx) BY <1>1, CutConcat
  <2> QED BY <2>1
<1>2. CASE y # <<>>
  <2>1. Len(x) \in 0 .. Len(x \o y) - 1 BY <1>2, CutConcat
  <2>2. Pipe!Lose(Len(x)) BY CutConcat DEF Pipe!Lose
  <2> QED BY <2>1, <2>2 DEF Pipe!Next
<1> QED BY <1>1, <1>2

(* Each way of treating the text is a step of the pipe, or none.           *)
LEMMA PipeMoves == Buffered /\ Plain /\ Moves => [Pipe!Next]_<<Of("tcp", net \o tx), Of("tcp", got)>>
<1> SUFFICES ASSUME Buffered, Plain, Moves
             PROVE  [Pipe!Next]_<<Of("tcp", net \o tx), Of("tcp", got)>>
  OBVIOUS
<1>0. /\ tx \in Seq(Text) /\ net \in Seq(Text) /\ got \in Seq(Text) /\ <<>> \in Seq(Text)
      /\ Of("tcp", <<>>) = <<>>
  BY NoText, OfNothing DEF Buffered
<1>a. /\ Of("tcp", tx) \in Seq(Text) /\ Of("tcp", net) \in Seq(Text) /\ Of("tcp", got) \in Seq(Text)
      /\ Of("tcp", net \o tx) = Of("tcp", net) \o Of("tcp", tx)
  BY <1>0, OfConcat
<1>b. \A s \in Seq(Text) : s \o <<>> = s /\ <<>> \o s = s OBVIOUS
<1>1. CASE Arrives
  <2>1. PICK t \in Text :
          /\ got' = got
          /\ \/ net' = net \o Append(tx, t) /\ tx' = <<>>
             \/ net' = Append(net, t) /\ tx' = tx /\ t[1] # "tcp"
             \/ net' = net /\ tx' = Append(tx, t)
    BY <1>1 DEF Arrives
  <2>2. CASE net' \o tx' = Append(net \o tx, t)
    <3> DEFINE line == net \o tx
    <3>1. line \in Seq(Text) BY <1>0
    <3> HIDE DEF line
    <3>2. Of("tcp", Append(line, t)) = IF t[1] = "tcp" THEN Append(Of("tcp", line), t) ELSE Of("tcp", line)
      BY <3>1, OfAppend
    <3>3. CASE t[1] = "tcp"
      <4>1. Pipe!Put(t) BY <2>1, <2>2, <3>2, <3>3 DEF Pipe!Put, line
      <4> QED BY <4>1 DEF Pipe!Next
    <3>4. CASE t[1] # "tcp" BY <2>1, <2>2, <3>2, <3>4 DEF line
    <3> QED BY <3>3, <3>4
  <2>3. CASE net' = Append(net, t) /\ tx' = tx /\ t[1] # "tcp"
    <3>1. Append(net, t) \in Seq(Text) /\ Of("tcp", Append(net, t)) = Of("tcp", net) BY <1>0, <2>3, OfAppend
    <3> DEFINE more == Append(net, t)
    <3> HIDE DEF more
    <3>2. Of("tcp", more \o tx) = Of("tcp", more) \o Of("tcp", tx) BY <1>0, <3>1, OfConcat DEF more
    <3> QED BY <1>a, <2>1, <2>3, <3>1, <3>2 DEF more
  <2>4. net \o Append(tx, t) = Append(net \o tx, t) BY <1>0
  <2>5. (net \o Append(tx, t)) \o <<>> = net \o Append(tx, t) BY <1>0
  <2> QED BY <2>1, <2>2, <2>3, <2>4, <2>5
<1>2. CASE Thrown
  <2>1. net' \o tx' = <<>> /\ got' = got BY <1>2 DEF Thrown
  <2>2. net \o tx \in Seq(Text) BY <1>0
  <2> DEFINE all == Of("tcp", net \o tx)
  <2>3. all \in Seq(Text) BY <2>2, OfType
  <2> HIDE DEF all
  <2>4. all = <<>> \o all BY <1>b, <2>3
  <2> USE DEF all
  <2> QED BY <1>0, <2>1, <2>3, <2>4, PipeLoses
<1>3. CASE ThrownTx
  <2>1. tx' = <<>> /\ net' = net /\ got' = got BY <1>3 DEF ThrownTx
  <2>2. Of("tcp", net' \o tx') = Of("tcp", net) BY <1>0, <1>b, <2>1
  <2> QED BY <1>a, <2>1, <2>2, PipeLoses
<1>4. CASE Answers
  <2>1. PICK k \in 0 .. Len(tx) : got' = got \o SubSeq(tx, 1, k) /\ tx' = SubSeq(tx, k + 1, Len(tx))
    BY <1>4 DEF Answers
  <2> DEFINE head == SubSeq(tx, 1, k)
             rest == SubSeq(tx, k + 1, Len(tx))
  <2>2. head \in Seq(Text) /\ rest \in Seq(Text) /\ tx = head \o rest BY <1>0, Split
  <2>3. got' = got \o head /\ tx' = rest BY <2>1
  <2> HIDE DEF head, rest
  <2>4. Of("tcp", net) = <<>> /\ net' = net BY <1>0, <1>4, OfNone DEF Answers, Plain, Own
  <2>5. /\ Of("tcp", head) \in Seq(Text) /\ Of("tcp", rest) \in Seq(Text)
        /\ Of("tcp", tx) = Of("tcp", head) \o Of("tcp", rest)
        /\ Of("tcp", got') = Of("tcp", got) \o Of("tcp", head)
    <3>1. Of("tcp", head) \in Seq(Text) /\ Of("tcp", rest) \in Seq(Text) BY <2>2, OfConcat
    <3>2. Of("tcp", tx) = Of("tcp", head) \o Of("tcp", rest) BY <2>2, OfConcat
    <3>3. Of("tcp", got') = Of("tcp", got) \o Of("tcp", head) BY <1>0, <2>2, <2>3, OfConcat
    <3> QED BY <3>1, <3>2, <3>3
  <2>6. Of("tcp", net' \o tx') = Of("tcp", rest)
    <3>1. Of("tcp", net \o rest) = Of("tcp", net) \o Of("tcp", rest) BY <1>0, <2>2, OfConcat
    <3> QED BY <1>b, <2>3, <2>4, <2>5, <3>1
  <2>7. Of("tcp", net \o tx) = Of("tcp", head) \o Of("tcp", rest) BY <1>a, <1>b, <2>4, <2>5
  <2> QED BY <1>a, <2>5, <2>6, <2>7, PipeTakes
<1>5. CASE Joins
  <2>1. Of("tcp", net) = <<>> /\ net' = tx \o net /\ tx' = <<>> /\ got' = got
    BY <1>0, <1>5, OfNone DEF Joins, Plain, Own
  <2>2. Of("tcp", tx \o net) = Of("tcp", tx) \o Of("tcp", net) /\ tx \o net \in Seq(Text) BY <1>0, OfConcat
  <2>3. Of("tcp", net' \o tx') = Of("tcp", net \o tx) BY <1>a, <1>b, <2>1, <2>2
  <2> QED BY <2>1, <2>3
<1>6. CASE Sends
  <2>1. got' = got \o net /\ net' = <<>> /\ tx' = tx BY <1>6 DEF Sends
  <2>2. Of("tcp", got') = Of("tcp", got) \o Of("tcp", net) BY <1>0, <2>1, OfConcat
  <2>3. Of("tcp", net' \o tx') = Of("tcp", tx) BY <1>0, <1>b, <2>1
  <2> QED BY <1>a, <2>2, <2>3, PipeTakes
<1>7. CASE PutsBack
  <2>1. tx' = net \o tx /\ net' = <<>> /\ got' = got BY <1>7 DEF PutsBack
  <2>2. net \o tx \in Seq(Text) BY <1>0
  <2>3. net' \o tx' = net \o tx BY <1>b, <2>1, <2>2
  <2> QED BY <2>1, <2>3
<1>8. CASE Stays BY <1>8 DEF Stays
<1> QED BY <1>1, <1>2, <1>3, <1>4, <1>5, <1>6, <1>7, <1>8 DEF Moves

-----------------------------------------------------------------------------
-----------------------------------------------------------------------------
(* The inductive invariant.                                                *)
Inv == Control /\ Buffered /\ Plain /\ Whole /\ Ordered

(* It holds when emulation has not started.                                *)
LEMMA InitInv == Init => Inv
<1> SUFFICES ASSUME Init PROVE Inv OBVIOUS
<1>1. Control
  <2>1. Flat
    <3>1. issued \in 0 .. MaxText BY LineAssumption DEF Init
    <3>2. pc \in PCs /\ upset \subseteq Races BY DEF Init, PCs
    <3> QED BY <3>1, <3>2 DEF Init, Flat
  <2>2. Bytes BY LineAssumption DEF Init, Bytes
  <2>3. Modes /\ Carried /\ Quiet BY DEF Init, Modes, Carried, Quiet
  <2> QED BY <2>1, <2>2, <2>3 DEF Control
<1>2. Buffered BY NoText DEF Init, Buffered
<1>3. Plain BY NoText DEF Init, Plain, Own
<1>4. Whole
  <2>1. {t[2] : t \in {}} = 1 .. 0 OBVIOUS
  <2> QED BY <2>1, NoText DEF Init, Whole, Apart
<1>5. Ordered BY NoText DEF Init, Ordered, Ascending, Before
<1> QED BY <1>1, <1>2, <1>3, <1>4, <1>5 DEF Inv

(* Every step keeps it.                                                    *)
LEMMA NextInv == Inv /\ [Next]_vars => Inv'
<1> SUFFICES ASSUME Inv, [Next]_vars PROVE Inv' OBVIOUS
<1>1. Flat /\ Bytes /\ Modes /\ Carried /\ Quiet /\ Buffered /\ Plain /\ Whole /\ Ordered
  BY DEF Inv, Control
<1>2. Control' BY ControlNext DEF Inv
<1>3. Moves BY <1>1, EveryMove
<1>4. issued \in Nat BY <1>1 DEF Flat
<1>5. Buffered' BY <1>1, <1>3, BufferedMoves
<1>6. Whole' BY <1>1, <1>3, <1>4, WholeMoves
<1>7. Ordered' BY <1>1, <1>3, <1>4, OrderedMoves
<1>8. Plain' BY <1>1, PlainNext
<1> QED BY <1>2, <1>5, <1>6, <1>7, <1>8 DEF Inv

(* The invariant holds in every state.                                     *)
THEOREM LineInvariant == Spec => []Inv
BY InitInv, NextInv, PTL DEF Spec

(* The variables keep their types, and no byte from the Atari is delivered *)
(* twice (readRawFrame, dispatchToNetwork).                                *)
THEOREM TypeCorrect == Spec => []TypeOK
<1>1. Inv => TypeOK
  BY DEF Inv, Control, Flat, Bytes, Buffered, TypeOK
<1> QED BY <1>1, LineInvariant, PTL

(* Between two passes RDevice::state and SioWorker::m_isStreaming agree,   *)
(* although handleStream and forceCommandMode change them in two steps,    *)
(* unless setEnabled changed the one alone.                                *)
THEOREM SidesAlwaysAgree == Spec => []SidesAgree
<1>1. Inv => SidesAgree BY DEF Inv, Control, Flat, Modes, SidesAgree
<1> QED BY <1>1, LineInvariant, PTL

(* In stream mode no text waits in m_txBuffer, which only READ empties:    *)
(* handleStream moved it, and only a piece that came in its window is left *)
(* there.                                                                  *)
THEOREM NothingLeftBehind == Spec => []CarriedOver
<1>1. Inv => CarriedOver BY DEF Inv, Control, Carried, CarriedOver
<1> QED BY <1>1, LineInvariant, PTL

(* Every piece that came is with the Atari, in one of the two buffers, or  *)
(* was thrown away on purpose; none is in two places (handleRead,          *)
(* handleStream, dequeueNetworkData, forceCommandMode, onSocketReadyRead,  *)
(* onSshDataReceived).                                                     *)
THEOREM NothingLost == Spec => []Conserved
<1>1. Inv => Conserved
  <2> SUFFICES ASSUME Inv PROVE Conserved OBVIOUS
  <2>1. tx \in Seq(Text) /\ net \in Seq(Text) /\ got \in Seq(Text) /\ Whole BY DEF Inv, Buffered
  <2>2. /\ got \o net \in Seq(Text) /\ ToSet(got \o net) = ToSet(got) \cup ToSet(net)
        /\ IsInjective(got \o net)
    BY <2>1, ToSetConcat, InjectiveConcat DEF Whole, Apart
  <2>3. (ToSet(got) \cup ToSet(net)) \cap ToSet(tx) = {} BY <2>1 DEF Whole, Apart
  <2>4. ToSet((got \o net) \o tx) = ToSet(got \o net) \cup ToSet(tx) BY <2>1, <2>2, ToSetConcat, Zenon
  <2>5. ToSet(got \o net) \cap ToSet(tx) = {} /\ IsInjective(tx) BY <2>1, <2>2, <2>3 DEF Whole, Apart
  <2>6. IsInjective((got \o net) \o tx) BY <2>1, <2>2, <2>5, InjectiveConcat, Zenon
  <2> QED BY <2>1, <2>2, <2>4, <2>6 DEF Conserved, Whole
<1> QED BY <1>1, LineInvariant, PTL

(* An SSH call's data reaches the Atari in order, over any number of       *)
(* changes of modes, unless a piece came in handleStream's window.         *)
THEOREM SshStaysInOrder == Spec => []SshInOrder
<1>1. Inv => SshInOrder
  <2> SUFFICES ASSUME Inv, "window" \notin upset PROVE Ascending((got \o net) \o tx)
    BY DEF SshInOrder, Ascending
  <2>1. /\ tx \in Seq(Text) /\ net \in Seq(Text) /\ got \in Seq(Text)
        /\ Ascending(got) /\ Ascending(net) /\ Ascending(tx)
        /\ Before(ToSet(got), ToSet(net)) /\ Before(ToSet(got), ToSet(tx)) /\ Before(ToSet(net), ToSet(tx))
    BY DEF Inv, Buffered, Ordered
  <2>2. got \o net \in Seq(Text) /\ ToSet(got \o net) = ToSet(got) \cup ToSet(net) /\ Ascending(got \o net)
    BY <2>1, ToSetConcat, AscendingConcat
  <2>3. Before(ToSet(got \o net), ToSet(tx)) BY <2>1, <2>2 DEF Before
  <2> QED BY <2>1, <2>2, <2>3, AscendingConcat, Zenon
<1> QED BY <1>1, LineInvariant, PTL

(* A byte the Atari sent in stream mode is never thrown away by the SIO    *)
(* thread, unless it came between runStreamMode's two looks at the line or *)
(* the modem was switched off.                                             *)
THEOREM BytesAreKept == Spec => ByteKept
<1>1. Inv /\ [Next]_vars => [upset \cap {"closing", "disabled"} = {} => lost' = lost]_vars
  <2> SUFFICES ASSUME Inv, [Next]_vars, upset \cap {"closing", "disabled"} = {} PROVE lost' = lost
    OBVIOUS
  <2>1. "closing" \notin upset /\ "disabled" \notin upset OBVIOUS
  <2> USE <2>1 DEF Inv, Control, Flat, Modes, Quiet, Bytes, atari, vars
  <2>2. CASE Gui
    BY <2>2 DEF Gui, SocketReadyRead, SshDataReceived, SendResult, Dispatch, HangUp, Disable, Enable,
                StartEmulation, Start
  <2>3. CASE ServeRead \/ ServeOther \/ ServeStream
    <3>1. Frame BY <2>3 DEF ServeRead, ServeOther, ServeStream
    <3>2. wire = 0 /\ lost \in Nat /\ lost' = lost + wire BY <3>1 DEF Frame
    <3> QED BY <3>2
  <2>4. CASE Merge \/ Flip \/ Dequeue \/ Guard \/ Keep \/ Back
    BY <2>4 DEF Merge, Flip, Dequeue, Guard, Keep, Back
  <2>5. CASE Speed BY <2>5 DEF Speed, ReadWire
  <2>6. CASE Raw BY <2>6 DEF Raw, ReadWire
  <2>7. CASE StopEmulation \/ HoldEnds \/ Asserts \/ Types BY <2>7 DEF StopEmulation, HoldEnds, Asserts, Types
  <2>8. CASE UNCHANGED vars BY <2>8
  <2> QED BY <2>2, <2>3, <2>4, <2>5, <2>6, <2>7, <2>8 DEF Next, Worker, Serve
<1> QED BY <1>1, LineInvariant, PTL DEF Spec, ByteKept

(* A telnet call implements the pipe of ModemPipe: nothing is sent twice,  *)
(* left out or sent out of order, whatever the Atari and the GUI thread do *)
(* in between.                                                             *)
THEOREM PipeImplemented == Spec => PipeInOrder
<1>1. Init => Pipe!Init
  <2> SUFFICES ASSUME Init PROVE Of("tcp", net \o tx) = <<>> /\ Of("tcp", got) = <<>>
    BY DEF Pipe!Init
  <2>1. net \o tx = <<>> /\ got = <<>> BY DEF Init
  <2> QED BY <2>1, OfNothing
<1>2. Inv /\ [Next]_vars => [Pipe!Next]_<<Of("tcp", net \o tx), Of("tcp", got)>>
  BY EveryMove, PipeMoves DEF Inv, Control
<1> QED BY <1>1, <1>2, LineInvariant, PTL DEF Spec, PipeInOrder, Pipe!Spec
=============================================================================
