----------------------------- MODULE DiskImage ------------------------------
(***************************************************************************)
(* One disk image (SimpleDiskImage, diskimage.cpp): its sectors are kept   *)
(* in a temporary file, and saved to the file it was opened from. Two      *)
(* threads use it: the SIO thread, one command at a time under the image's *)
(* lock; and the GUI thread, which saves it, with that lock when the user  *)
(* asks and without it when a change is committed by itself                *)
(* (Engine::deviceStatusChanged), shows it in the explorer, or is killed.  *)
(* Both move the one position of the temporary file.                       *)
(*                                                                         *)
(* A file is a sequence of units of 128 bytes; a unit's contents is the    *)
(* number of the write it came from, 0 if formatted.                       *)
(***************************************************************************)
EXTENDS DiskGeometry, Sequences, SequencesExt

CONSTANTS Geometries,    \* what the Atari formats a disk to
          Sectors,       \* the sectors the Atari asks for
          MaxCommands,   \* bound: what the Atari and the user ask for
          MaxFaults      \* bound: files that cannot be written, deaths

ASSUME DiskAssumption == /\ Geometries \subseteq Geometry /\ Sectors \subseteq Nat
                         /\ MaxCommands \in Nat /\ MaxFaults \in Nat

VARIABLES
    image,     \* the SimpleDiskImage, see Image
    host,      \* the file the image is saved to, m_originalFileName
    output,    \* the file a save writes: that one, or the one "save as" names
    lock,      \* mLock: who holds it
    sio,       \* the SIO thread's command
    save,      \* the GUI thread's save
    events,    \* statusChanged, queued for deviceStatusChanged
    auto,      \* m_autoCommit
    commands, faults,   \* counted against the bounds
    put, kept,          \* what each sector should hold: now, and when last saved
    upset               \* see Upsets

files == <<host, output>>
gui   == <<save, events, auto>>
ghost == <<put, kept>>
vars  == <<image, files, lock, sio, gui, commands, faults, ghost, upset>>

Types == {"atr", "xfd", "dcm"}

(* content  the temporary file, and pos the position in it                 *)
(* geo      m_geometry                                                     *)
(* type     m_originalImageType: how it will be saved                      *)
(* named    not m_isUnnamed                                                *)
(* open     FALSE when the image is no more: it could not be opened again  *)
Image == [content : Seq(Nat), pos : Nat, geo : Geometry, modified : BOOLEAN,
          type : Types, named : BOOLEAN, open : BOOLEAN]

(* name: the type its name tells; format: what was written in it, with the *)
(* size that an ATR header tells. A file without a header is an XFD file.  *)
Host == [name : {"atr", "xfd"}, format : {"atr", "xfd"}, bps : SectorSizes, size : Nat,
         data : Seq(Nat)]

(* "overlap"   the SIO thread used the image while a change was committed  *)
(* "failed"    a save failed: the image stays as modified as it was        *)
(* "torn"      it failed when it had emptied the image's own file, which   *)
(*             holds less until the image is saved again; and              *)
(* "emptied"   that of an image without changes                            *)
(* "unflushed" closing the saved file failed, and nobody looked            *)
(* "short"     a format could not resize the temporary file                *)
(* "retyped"   an XFD file was saved under an ATR file's name, in the type *)
(*             that a "save as" which failed had left behind               *)
(* "xfd"       saved as an XFD file whose size tells another geometry      *)
(* "explored"  auto-commit was toggled while the explorer held the lock    *)
(* "killed"    the program died while it wrote the image's own file, or    *)
(*             while that was torn                                         *)
Upsets == {"overlap", "failed", "torn", "emptied", "unflushed", "short", "retyped", "xfd",
           "explored", "killed"}

Idle == [at |-> "idle", sector |-> 0, value |-> 0]
NoSave == [at |-> "idle", by |-> "none", size |-> 0]

-----------------------------------------------------------------------------
(* Files.                                                                  *)
Units(bytes) == bytes \div 128

Blank(g) == [i \in 1 .. Units(TotalSize(g)) |-> 0]

Zeros(g) == [s \in 1 .. g.count |-> 0]

UnitsOf(s) == Units(BytesPerSector(image.geo, s))

(* QFile::write at a position: what lies before it is zero.                *)
WriteAt(content, pos, value, n) ==
    [i \in 1 .. Max({Len(content), pos + n}) |->
        CASE i \in pos + 1 .. pos + n -> value
          [] i \in 1 .. pos /\ i > Len(content) -> 0
          [] OTHER -> content[i]]

Seek(s) == [image EXCEPT !.pos = Units(SectorPos(image.geo, s))]

(* What open() makes of a file; it is not an image of any known type when  *)
(* neither its first bytes nor its name say so.                            *)
Opens(h) == \/ h.format = "atr" /\ SizeValid(128 * Len(h.data), h.bps)
            \/ h.format = "xfd" /\ h.name = "xfd"

Opened(h) ==
    LET size == 128 * Len(h.data)
        geo  == IF h.format = "atr" THEN AtrGeometry(size, h.bps) ELSE XfdGeometry(size)
    IN  [content |-> h.data, pos |-> Len(h.data), geo |-> geo,
         modified |-> h.format = "atr" /\ size # h.size,   \* the header is repaired
         type |-> h.format, named |-> TRUE, open |-> TRUE]

Fresh(g) == [name |-> "atr", format |-> "atr", bps |-> g.bps, size |-> TotalSize(g),
             data |-> Blank(g)]

(* A disk mounted from its file, or a new one: create() gives it no sector *)
(* until it is formatted.                                                  *)
Init ==
    /\ \/ \E g \in Geometries : host = Fresh(g) /\ image = Opened(host) /\ put = Zeros(g)
       \/ /\ host = Fresh([count |-> 0, bps |-> 128])
          /\ image = [Opened(host) EXCEPT !.named = FALSE] /\ put = <<>>
    /\ output = host /\ kept = put /\ lock = "none" /\ sio = Idle /\ save = NoSave
    /\ events = 0 /\ auto = FALSE /\ commands = 0 /\ faults = 0 /\ upset = {}

-----------------------------------------------------------------------------
(* What goes wrong.                                                        *)
If(condition, name) == IF condition THEN {name} ELSE {}

Note(names) == upset' = upset \cup names

Asked == commands < MaxCommands /\ commands' = commands + 1

Fault == faults < MaxFaults /\ faults' = faults + 1

Overlapping == If(save.by = "event", "overlap")

-----------------------------------------------------------------------------
(* The SIO thread: handleCommand. A command is ignored while somebody else *)
(* has the lock, and refused for a sector the image does not have.         *)
Atari == UNCHANGED <<files, save, auto>>

Command(s) ==
    /\ image.open /\ sio = Idle /\ lock = "none" /\ s \in 1 .. image.geo.count /\ Asked
    /\ lock' = "sio"

MarkedNot(i) == i                   \* mutant: m_isModified is not set

Marked(i) == [i EXCEPT !.modified = TRUE]

Holding(s, value) == [t \in DOMAIN put \cup {s} |-> IF t = s THEN value ELSE put[t]]

WriteStart == \E s \in Sectors :   \* writeSector: seek
    /\ Command(s)
    /\ sio' = [at |-> "mark", sector |-> s, value |-> commands']
    /\ image' = Seek(s) /\ Note(Overlapping)
    /\ UNCHANGED <<events, faults, ghost>> /\ Atari

WriteMarkSilent ==   \* mutant: the engine is not told
    /\ sio.at = "mark" /\ sio' = [sio EXCEPT !.at = "write"] /\ image' = Marked(image)
    /\ UNCHANGED <<lock, events, commands, faults, ghost, upset>> /\ Atari

WriteMark ==   \* m_isModified, and statusChanged
    /\ sio.at = "mark" /\ sio' = [sio EXCEPT !.at = "write"]
    /\ image' = Marked(image)
    /\ events' = IF image.modified THEN events ELSE events + 1
    /\ UNCHANGED <<lock, commands, faults, ghost, upset>> /\ Atari

WriteData ==
    /\ sio.at = "write" /\ sio' = Idle /\ lock' = "none"
    /\ \/ LET n == UnitsOf(sio.sector)
          IN  /\ image' = [image EXCEPT !.content = WriteAt(@, image.pos, sio.value, n),
                                        !.pos = @ + n]
              /\ put' = Holding(sio.sector, sio.value)
              /\ UNCHANGED faults
       \/ Fault /\ UNCHANGED <<image, put>>
    /\ Note(Overlapping)
    /\ UNCHANGED <<events, commands, kept>> /\ Atari

ReadStart == \E s \in Sectors :    \* readSector: seek
    /\ Command(s)
    /\ sio' = [at |-> "read", sector |-> s, value |-> 0]
    /\ image' = Seek(s) /\ Note(Overlapping)
    /\ UNCHANGED <<events, faults, ghost>> /\ Atari

Found(i, n) == IF i.pos < Len(i.content)
               THEN SubSeq(i.content, i.pos + 1, Min({i.pos + n, Len(i.content)})) ELSE <<>>

ReadDataKeepsLock ==   \* mutant: a read that finds too little returns early
    /\ sio.at = "read" /\ sio' = Idle
    /\ lock' = IF Len(Found(image, UnitsOf(sio.sector))) = UnitsOf(sio.sector) THEN "none" ELSE lock
    /\ UNCHANGED <<image, events, commands, faults, ghost, upset>> /\ Atari

ReadData ==
    /\ sio.at = "read" /\ sio' = Idle /\ lock' = "none"
    /\ image' = [image EXCEPT !.pos = @ + Len(Found(image, UnitsOf(sio.sector)))]
    /\ UNCHANGED <<events, commands, faults, ghost, upset>> /\ Atari

(* format(): both resizes may fail, which is written to the log; the new   *)
(* geometry is set all the same.                                           *)
Format == \E g \in Geometries :
    /\ image.open /\ sio = Idle /\ lock = "none" /\ Asked
    /\ \E content \in {Blank(g), <<>>, image.content} :
          /\ image' = Marked([image EXCEPT !.content = content, !.geo = g,
                                           !.pos = IF @ > Len(content) THEN Len(content) ELSE @])
          /\ IF content = Blank(g) THEN UNCHANGED faults /\ Note(Overlapping)
                                   ELSE Fault /\ Note(Overlapping \cup {"short"})
    /\ put' = Zeros(g) /\ events' = events + 1
    /\ UNCHANGED <<lock, sio, kept>> /\ Atari

-----------------------------------------------------------------------------
(* The GUI thread. getDevice() waits for the SIO thread's command to end.  *)
Free == image.open /\ save.at = "idle" /\ sio = Idle

Save(by) == save' = [at |-> "open", by |-> by, size |-> 0]

StatusChanged ==   \* deviceStatusChanged
    /\ Free /\ events > 0 /\ events' = events - 1
    /\ IF image.modified /\ auto THEN Save("event") ELSE UNCHANGED save
    /\ UNCHANGED <<image, files, lock, sio, auto, commands, faults, ghost, upset>>

SaveDisk ==   \* the user's Save
    /\ Free /\ lock = "none" /\ image.named /\ Asked
    /\ lock' = "save" /\ Save("user")
    /\ UNCHANGED <<image, files, sio, events, auto, faults, ghost, upset>>

(* saveAsPath: the type is set before anything is saved. A file that is    *)
(* there already, the image's own too, may be named.                       *)
SaveAs == \E type \in Types, own \in BOOLEAN :
    /\ Free /\ lock = "none" /\ lock' = "save" /\ Asked
    /\ own => image.named /\ type = host.name
    /\ image' = [image EXCEPT !.type = type] /\ Save(IF own THEN "user" ELSE "as")
    /\ UNCHANGED <<files, sio, events, auto, faults, ghost, upset>>

(* toggleAutoCommitDisk, for the user or for the Atari (AspeCl). The       *)
(* explorer's lock is this thread's own: it waits for itself.              *)
Toggle ==
    /\ Free /\ Asked /\ auto' = ~auto
    /\ IF ~image.named THEN UNCHANGED <<lock, save, upset>>
       ELSE IF lock = "explorer"
            THEN save' = [NoSave EXCEPT !.at = "stuck"] /\ Note({"explored"}) /\ UNCHANGED lock
            ELSE lock' = "save" /\ Save("user") /\ UNCHANGED upset
    /\ UNCHANGED <<image, files, sio, events, faults, ghost>>

Explore == /\ Free /\ lock = "none" /\ lock' = "explorer"
           /\ UNCHANGED <<image, files, sio, gui, commands, faults, ghost, upset>>

Close   == /\ Free /\ lock = "explorer" /\ lock' = "none"
           /\ UNCHANGED <<image, files, sio, gui, commands, faults, ghost, upset>>

ExplorerWrites == \E s \in Sectors \cap 1 .. image.geo.count :
    /\ Free /\ lock = "explorer" /\ Asked
    /\ LET pos == Seek(s).pos
       IN  image' = Marked([image EXCEPT !.content = WriteAt(@, pos, commands', UnitsOf(s)),
                                         !.pos = pos + UnitsOf(s)])
    /\ put' = Holding(s, commands')
    /\ events' = IF image.modified THEN events ELSE events + 1
    /\ UNCHANGED <<files, lock, sio, save, auto, faults, kept, upset>>

-----------------------------------------------------------------------------
(* The GUI thread: a save's steps. The file is emptied first; the          *)
(* temporary file is then copied, as long as bytesAvailable() says so. A   *)
(* "save as" writes another file, which becomes the image's at its end.    *)
Saving(at) == save.at = at

Saver == UNCHANGED <<sio, auto, commands, put>>

EndSave == save' = NoSave /\ lock' = (IF lock = "save" THEN "none" ELSE lock)

Fails(names) ==
    /\ EndSave /\ output' = host' /\ Note({"failed"} \cup names)
    /\ UNCHANGED <<image, events, kept>>

Overwrites == save.by # "as"

Writes(file) == output' = file /\ host' = IF Overwrites THEN file ELSE host

Torn == If(Overwrites, IF image.modified THEN "torn" ELSE "emptied")

Refused ==   \* no such format, or XFD cannot handle the geometry
    \/ image.type = "dcm"
    \/ image.type = "xfd" /\ XfdGeometry(TotalSize(image.geo)).bps # image.geo.bps

Target == IF Overwrites THEN host.name ELSE image.type

Emptied == [name |-> Target, format |-> image.type, bps |-> image.geo.bps,
            size |-> TotalSize(image.geo), data |-> <<>>]

(* What is left of a file that could not be written to its end: its        *)
(* beginning, or nothing, not even a header.                               *)
Truncated(file) ==
    {[file EXCEPT !.data = SubSeq(@, 1, n)] : n \in 0 .. Len(file.data)}
        \cup {[file EXCEPT !.format = "xfd", !.data = <<>>]}

Breaks(file) ==   \* the save gives up while it writes the file
    /\ host' \in (IF Overwrites THEN Truncated(file) ELSE {host})
    /\ Fails(Torn)

SaveOpens ==
    /\ Saving("open")
    /\ \/ Refused /\ UNCHANGED <<host, faults>> /\ Fails({})
       \/ ~Refused /\ Fault /\ UNCHANGED host /\ Fails({})
       \/ ~Refused /\ Fault /\ Breaks(Emptied)
       \/ /\ ~Refused /\ Writes(Emptied)
          /\ save' = [save EXCEPT !.at = "copy"] /\ image' = [image EXCEPT !.pos = 0]
          /\ Note(If(image.type = "xfd" /\ Target # "xfd", "retyped"))
          /\ UNCHANGED <<lock, events, faults, kept>>
    /\ Saver

SaveReads ==   \* bytesAvailable()
    /\ Saving("copy") /\ image.pos < Len(image.content)
    /\ save' = [save EXCEPT !.at = "read", !.size = Len(image.content) - image.pos]
    /\ UNCHANGED <<image, files, lock, events, faults, kept, upset>> /\ Saver

Grown(buffer) == [output EXCEPT !.data = @ \o buffer]

SaveCopies ==
    /\ Saving("read")
    /\ LET buffer == Found(image, save.size)
       IN  \/ Len(buffer) # save.size /\ UNCHANGED <<host, faults>> /\ Fails(Torn)
           \/ Fault /\ Breaks(Grown(buffer))
           \/ /\ Len(buffer) = save.size
              /\ Writes(Grown(buffer))
              /\ image' = [image EXCEPT !.pos = @ + Len(buffer)]
              /\ save' = [save EXCEPT !.at = "copy"]
              /\ UNCHANGED <<lock, events, faults, kept, upset>>
    /\ Saver

SaveDone ==   \* the file is closed last, when all has been reported
    /\ Saving("copy") /\ image.pos >= Len(image.content)
    /\ image' = [image EXCEPT !.modified = FALSE, !.named = TRUE]
    /\ events' = events + 1 /\ kept' = put
    /\ EndSave
    /\ LET repaired == upset \ {"torn"}
           names    == If(image.type = "xfd" /\ XfdGeometry(TotalSize(image.geo)) # image.geo, "xfd")
       IN  \/ host' = output /\ upset' = repaired \cup names /\ UNCHANGED faults
           \/ /\ Fault /\ host' \in Truncated(output)
              /\ upset' = repaired \cup names \cup {"unflushed"}
    /\ output' = host' /\ Saver

SaveSteps == SaveOpens \/ SaveReads \/ SaveCopies \/ SaveDone

-----------------------------------------------------------------------------
(* The program dies, and the session is restored: the temporary file is    *)
(* gone, the image is opened from its file again.                          *)
Killed ==
    /\ image.open /\ Fault
    /\ image' = IF image.named /\ Opens(host) THEN Opened(host)
                                              ELSE [image EXCEPT !.open = FALSE]
    /\ put' = kept /\ lock' = "none" /\ sio' = Idle /\ save' = NoSave
    /\ events' = 0 /\ auto' = FALSE
    /\ Note(If((save.at \in {"copy", "read"} /\ Overwrites) \/ "torn" \in upset, "killed"))
    /\ output' = host /\ UNCHANGED <<host, commands, kept>>

-----------------------------------------------------------------------------
Next == \/ WriteStart \/ WriteMark \/ WriteData \/ ReadStart \/ ReadData \/ Format
        \/ StatusChanged \/ SaveDisk \/ SaveAs \/ Toggle
        \/ Explore \/ ExplorerWrites \/ Close
        \/ SaveOpens \/ SaveReads \/ SaveCopies \/ SaveDone
        \/ Killed

Spec == Init /\ [][Next]_vars
             /\ WF_vars(WriteMark \/ WriteData \/ ReadData)
             /\ WF_vars(StatusChanged) /\ WF_vars(SaveSteps)

-----------------------------------------------------------------------------
TypeOK ==
    /\ image \in Image /\ {host, output} \subseteq Host
    /\ lock \in {"none", "sio", "save", "explorer"}
    /\ (sio # Idle) <=> lock = "sio"
    /\ {commands, faults, events} \subseteq Nat /\ auto \in BOOLEAN /\ upset \subseteq Upsets

(* What the two properties below hold through: a save that failed.         *)
Intact == upset \subseteq {"failed", "torn"}

(* m_isModified: an image that says it is not modified is in its file:     *)
(* opened again, it would have the same sectors and the same geometry. A   *)
(* disk that says so is ejected without asking. It holds through saves     *)
(* that fail, also under another name; what breaks it is named in Upsets.  *)
Committed ==
    image.open /\ image.named /\ ~image.modified /\ save = NoSave /\ sio = Idle /\ Intact =>
    Opens(host) /\ Opened(host).content = image.content /\ Opened(host).geo = image.geo

(* readSector: the Atari reads from a sector what was last written there,  *)
(* whoever wrote it and whatever was formatted, saved and opened again in  *)
(* between; after a death, what the last save kept.                        *)
ReadsBack ==
    [][ReadData /\ Intact =>
          Found(image, UnitsOf(sio.sector)) = [i \in 1 .. UnitsOf(sio.sector) |-> put[sio.sector]]]_vars

(* deviceStatusChanged: a change of an image that is committed by itself   *)
(* reaches its file, unless a save fails (it is not tried again) or the    *)
(* engine waits for the lock of its own explorer.                          *)
AutoCommits ==
    (image.modified /\ auto /\ image.named) ~>
        (\/ ~image.modified \/ ~auto \/ ~image.open \/ upset \cap {"failed", "explored"} # {})

(* Auto-commit "write[s] the image out as soon as it is modified": what    *)
(* says it is not modified is in the file also when the Atari used the     *)
(* disk while a change was committed. It is not: the copy is made without  *)
(* the lock, and ends with m_isModified cleared.                           *)
AutoCommitted ==
    auto /\ image.named /\ ~image.modified /\ save = NoSave /\ sio = Idle /\ upset \subseteq {"overlap"} =>
    host.data = image.content
=============================================================================
