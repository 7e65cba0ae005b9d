----------------------------- MODULE NetBrowser -----------------------------
(***************************************************************************)
(* The network browser: NetworkBrowser in the GUI thread, which shows a    *)
(* directory of a server and asks for another one or for a file, and       *)
(* NetworkWorker in a thread of its own, which carries requests out with   *)
(* TnfsClient, one datagram and its answer at a time, and tells what came  *)
(* of them (networkbrowser.cpp, tnfsclient.cpp). Requests and results are  *)
(* queued: what is shown is what was last heard, not what the worker does. *)
(*                                                                         *)
(* sendCommand sends a command up to four times under one sequence number. *)
(* The server, which is not in the repository, is taken to answer a number *)
(* it has just seen with the same answer. The client has a new socket for  *)
(* every connection, and no two commands of a model's run the same 8-bit   *)
(* number: a command is answered, or given up.                             *)
(***************************************************************************)
EXTENDS Integers, Sequences, SequencesExt

CONSTANTS Hosts, None,
          MaxRequests,   \* bound: what the user asks for
          MaxFaults      \* bound: commands given up, sessions lost, local writes failed

ASSUME NetAssumption == None \notin Hosts /\ MaxRequests \in Nat /\ MaxFaults \in Nat

VARIABLES
    shown,      \* what NetworkBrowser holds, see Shown
    requests,   \* reqOpen, reqList, ..., queued for the worker
    worker,     \* what NetworkWorker does, see Worker
    results,    \* opened, listed, ..., queued for the GUI thread
    asked, faults,   \* counted against the bounds
    upset       \* see Upsets

vars == <<shown, requests, worker, results, asked, faults, upset>>

-----------------------------------------------------------------------------
(* The servers. All have the same directories: a file of one name can be   *)
(* found in each of them, and is another file.                             *)
Directory == [root |-> <<"sub", "disk">>, sub |-> <<"disk", "extra">>]

Paths == DOMAIN Directory

Place == [host : Hosts \cup {None}, path : Paths]

File(place, name) == [host |-> place.host, path |-> place.path, name |-> name]

Files == [host : Hosts \cup {None}, path : Paths, name : {"disk", "extra"}]

Chunk == 512

Size(file) ==   \* a whole number of chunks, or not
    IF file.name = "extra" THEN 0 ELSE IF file.path = "root" THEN 2 * Chunk ELSE Chunk + 100

Part(n) == {0, n \div 2}   \* what a full disk keeps of n bytes: nothing, or not all

-----------------------------------------------------------------------------
(* connected, busy, host, path   m_connected, m_busy, m_host, m_path       *)
(* listing, of                   m_entries, and whose they are             *)
(* tried                         m_reconnectTried                          *)
(* last                          m_lastUrl                                 *)
Shown == [connected : BOOLEAN, busy : BOOLEAN, host : Hosts \cup {None}, path : Paths,
          listing : Seq({"sub", "disk", "extra"}), of : Place, tried : BOOLEAN, last : Place]

Nowhere == [host |-> None, path |-> "root"]

Request == [do : {"open", "close", "list", "reconnect", "download"},
            to : Place,        \* the server, and where to start
            path : Paths,      \* what is listed, or where the file is
            want : Files]      \* the file that was clicked

NoFile == File(Nowhere, "disk")

Ask(do, to, path, want) == [do |-> do, to |-> to, path |-> path, want |-> want]

(* host     whom m_client is connected to; None without a client           *)
(* session  the server still knows it                                      *)
(* got      the entries listed                                             *)
(* size     off, the bytes read; saved: those that are in the local file   *)
Worker == [at : {"idle", "mount", "opendir", "readdir", "closedir", "open", "read", "close"},
           job : Request, host : Hosts \cup {None}, session : BOOLEAN,
           got : Seq({"sub", "disk", "extra"}), size : Nat, saved : Nat]

Result == [kind : {"opened", "listed", "failed", "listFailed", "downloaded"},
           place : Place, got : Seq({"sub", "disk", "extra"}), file : Files, want : Files, size : Nat]

Told(kind, place) == [kind |-> kind, place |-> place, got |-> <<>>,
                      file |-> NoFile, want |-> NoFile, size |-> 0]

(* "late"    asked for something while an earlier request was under way    *)
(* "cut"     a command of a listing or of a download was given up, and     *)
(*           taken for the end                                             *)
(* "refused" another server was asked for and did not answer: the worker   *)
(*           has lost the one it had                                       *)
(* "full"    a write to the local file failed, which nobody looked at      *)
Upsets == {"late", "cut", "refused", "full"}

Rest == requests = <<>> /\ results = <<>> /\ worker.at = "idle"

Here == [host |-> shown.host, path |-> shown.path]

Init ==
    /\ shown = [connected |-> FALSE, busy |-> FALSE, host |-> None, path |-> "root",
                listing |-> <<>>, of |-> Nowhere, tried |-> FALSE, last |-> Nowhere]
    /\ worker = [at |-> "idle", job |-> Ask("close", Nowhere, "root", NoFile), host |-> None,
                 session |-> FALSE, got |-> <<>>, size |-> 0, saved |-> 0]
    /\ requests = <<>> /\ results = <<>> /\ asked = 0 /\ faults = 0 /\ upset = {}

-----------------------------------------------------------------------------
(* The user. While the browser is busy a directory's rows are disabled;    *)
(* the address, the way up and the way home are not.                       *)
User(request) ==
    /\ asked < MaxRequests /\ asked' = asked + 1
    /\ requests' = Append(requests, request)
    /\ upset' = IF Rest THEN upset ELSE upset \cup {"late"}
    /\ UNCHANGED <<worker, results, faults>>

Open == \E h \in Hosts :
    /\ User(Ask("open", [host |-> h, path |-> "root"], "root", NoFile))
    /\ shown' = [shown EXCEPT !.listing = <<>>, !.of = Nowhere, !.busy = TRUE]

Close ==
    /\ shown.connected
    /\ User(Ask("close", Nowhere, "root", NoFile))
    /\ shown' = [shown EXCEPT !.listing = <<>>, !.of = Nowhere, !.connected = FALSE,
                              !.host = None, !.path = "root", !.busy = FALSE]

Up ==
    /\ shown.connected /\ shown.path # "root"
    /\ User(Ask("list", Nowhere, "root", NoFile))
    /\ shown' = [shown EXCEPT !.busy = TRUE]

Rows(name) == shown.connected /\ ~shown.busy /\ Contains(shown.listing, name)

Enter ==   \* the name is added to m_path: there is no directory further down
    /\ Rows("sub") /\ shown.path = "root"
    /\ User(Ask("list", Nowhere, "sub", NoFile))
    /\ shown' = [shown EXCEPT !.busy = TRUE]

Download == \E name \in {"disk", "extra"} :   \* mount and save
    /\ Rows(name)
    /\ User(Ask("download", Nowhere, shown.path, File(shown.of, name)))
    /\ shown' = [shown EXCEPT !.busy = TRUE]

-----------------------------------------------------------------------------
(* The worker.                                                             *)
Fault == faults < MaxFaults /\ faults' = faults + 1

Answered == worker.session /\ UNCHANGED faults

Unanswered ==   \* four times nothing; or an error, for a session that is lost
    IF worker.session THEN Fault ELSE UNCHANGED faults

WorkerOnly == UNCHANGED <<shown, requests, asked>>

Goes(at) == worker' = [worker EXCEPT !.at = at] /\ UNCHANGED results

Ends(w, told) == worker' = [w EXCEPT !.at = "idle"] /\ results' = results \o told

Listed == [host |-> worker.host, path |-> worker.job.path]

NoClientNever(w) == FALSE   \* mutant: nobody looks

NoClient(w) == w.host = None

TakeRequest ==
    /\ worker.at = "idle" /\ requests # <<>> /\ requests' = Tail(requests)
    /\ LET job  == Head(requests)
           w    == [worker EXCEPT !.job = job, !.got = <<>>, !.size = 0, !.saved = 0]
           gone == [w EXCEPT !.host = None, !.session = FALSE]   \* teardown
       IN  CASE job.do = "close" -> Ends(gone, <<>>)
             [] job.do \in {"open", "reconnect"} ->
                   worker' = [gone EXCEPT !.at = "mount"] /\ UNCHANGED results
             [] job.do = "list" /\ NoClient(w) ->
                   Ends(w, <<Told("listFailed", [Nowhere EXCEPT !.path = job.path])>>)
             [] job.do = "download" /\ NoClient(w) -> Ends(w, <<Told("failed", Nowhere)>>)
             [] job.do = "list" /\ ~NoClient(w) ->
                   worker' = [w EXCEPT !.at = "opendir"] /\ UNCHANGED results
             [] OTHER -> worker' = [w EXCEPT !.at = "open"] /\ UNCHANGED results
    /\ UNCHANGED <<shown, asked, faults, upset>>

Going == [host |-> worker.job.to.host, path |-> worker.job.path]

Mount ==   \* connectTo: the host's name, then the session; told with what is listed next
    /\ worker.at = "mount"
    /\ \/ /\ worker' = [worker EXCEPT !.at = "opendir", !.host = worker.job.to.host, !.session = TRUE]
          /\ results' = Append(results, Told("opened", Going))
          /\ UNCHANGED <<faults, upset>>
       \/ /\ Fault
          /\ Ends(worker, <<Told("failed", Nowhere)>> \o
                          IF worker.job.do = "reconnect"
                          THEN <<Told("listFailed", [Nowhere EXCEPT !.path = worker.job.path])>>
                          ELSE <<>>)
          /\ upset' = IF worker.job.do = "open" THEN upset \cup {"refused"} ELSE upset
    /\ WorkerOnly

OpenDir ==   \* beginListing
    /\ worker.at = "opendir"
    /\ \/ Answered /\ Goes("readdir")
       \/ Unanswered /\ Ends(worker, <<Told("listFailed", Listed)>>)
    /\ UNCHANGED upset /\ WorkerOnly

ReadDir ==   \* fetchNextBatch
    LET all == Directory[worker.job.path]
        n   == Len(worker.got)
    IN  /\ worker.at = "readdir"
        /\ \/ /\ Answered /\ n < Len(all)
              /\ worker' = [worker EXCEPT !.got = Append(@, all[n + 1])]
              /\ UNCHANGED <<results, upset>>
           \/ Answered /\ n = Len(all) /\ Goes("closedir") /\ UNCHANGED upset
           \/ Unanswered /\ Goes("closedir")
                /\ upset' = IF n < Len(all) THEN upset \cup {"cut"} ELSE upset
        /\ WorkerOnly

CloseDir ==   \* endListing; its answer is not looked at
    /\ worker.at = "closedir"
    /\ Ends(worker, <<[Told("listed", Listed) EXCEPT !.got = worker.got]>>)
    /\ UNCHANGED <<faults, upset>> /\ WorkerOnly

OpenFile ==   \* the local file, then openFile
    /\ worker.at = "open"
    /\ \/ Answered /\ Goes("read")
       \/ Fault /\ Ends(worker, <<Told("failed", Nowhere)>>)
       \/ ~worker.session /\ Ends(worker, <<Told("failed", Nowhere)>>) /\ UNCHANGED faults
    /\ UNCHANGED upset /\ WorkerOnly

Remote == File(Listed, worker.job.want.name)

ReadOffByOne ==   \* mutant: a whole chunk ends the file
    /\ worker.at = "read" /\ Answered
    /\ worker' = [worker EXCEPT !.size = @ + Chunk, !.saved = @ + Chunk, !.at = "close"]
    /\ UNCHANGED <<results, upset>> /\ WorkerOnly

Chunks(n, kept) ==   \* n bytes read, of which out.write keeps some: a short chunk is the last
    /\ worker' = [worker EXCEPT !.size = @ + n, !.saved = @ + kept,
                                !.at = IF n < Chunk THEN "close" ELSE @]
    /\ UNCHANGED results

Read ==
    LET left == Size(Remote) - worker.size
        n    == IF left < Chunk THEN left ELSE Chunk
    IN  /\ worker.at = "read"
        /\ \/ Answered /\ Chunks(n, n) /\ UNCHANGED upset
           \/ /\ worker.session /\ n > 0 /\ Fault
              /\ \E kept \in Part(n) : Chunks(n, kept)
              /\ upset' = upset \cup {"full"}
           \/ /\ Unanswered /\ Goes("close")   \* taken for the end
              /\ upset' = IF left > 0 THEN upset \cup {"cut"} ELSE upset
        /\ WorkerOnly

Fetched(bytes) == [Told("downloaded", Listed) EXCEPT
                      !.file = Remote, !.want = worker.job.want, !.size = bytes]

CloseFile ==   \* out.close() writes what Qt still holds back
    /\ worker.at = "close"
    /\ \/ /\ Ends(worker, IF worker.size = 0 THEN <<Told("failed", Nowhere)>>
                          ELSE <<Fetched(worker.saved)>>)
          /\ UNCHANGED <<faults, upset>>
       \/ /\ worker.saved > 0 /\ Fault
          /\ \E kept \in Part(worker.saved) : Ends(worker, <<Fetched(kept)>>)
          /\ upset' = upset \cup {"full"}
    /\ WorkerOnly

SessionLost ==   \* the server has forgotten us, as it does after hours
    /\ worker.session /\ Fault /\ worker' = [worker EXCEPT !.session = FALSE]
    /\ UNCHANGED <<shown, requests, results, asked, upset>>

-----------------------------------------------------------------------------
(* The GUI thread hears of a result.                                       *)
Remembered(s) == IF s.host = None THEN s ELSE [s EXCEPT !.last = [host |-> s.host, path |-> s.path]]

Hear(kind) ==
    /\ results # <<>> /\ Head(results).kind = kind /\ results' = Tail(results)
    /\ UNCHANGED <<worker, asked, faults, upset>>

OnOpened ==
    /\ Hear("opened") /\ UNCHANGED requests
    /\ LET place == Head(results).place
       IN  shown' = Remembered([shown EXCEPT !.connected = TRUE, !.host = place.host, !.path = place.path])

OnListed ==
    /\ Hear("listed") /\ UNCHANGED requests
    /\ LET r == Head(results)
       IN  shown' = Remembered([shown EXCEPT !.tried = FALSE, !.listing = r.got, !.of = r.place,
                                             !.path = r.place.path, !.busy = FALSE])

OnFailed ==
    /\ Hear("failed") /\ UNCHANGED requests
    /\ shown' = [shown EXCEPT !.busy = FALSE]

OnListFailedPretends ==   \* mutant: still connected, as the code once was
    /\ Hear("listFailed") /\ UNCHANGED requests
    /\ shown' = [shown EXCEPT !.listing = <<>>, !.of = Nowhere, !.busy = FALSE]

OnListFailedStaysBusy ==   \* mutant: the second time it only gives up
    /\ Hear("listFailed")
    /\ IF ~shown.tried /\ shown.last # Nowhere
       THEN /\ shown' = [shown EXCEPT !.tried = TRUE]
            /\ requests' = Append(requests, Ask("reconnect", shown.last, Head(results).place.path, NoFile))
       ELSE /\ shown' = [shown EXCEPT !.tried = FALSE, !.connected = FALSE]
            /\ UNCHANGED requests

OnListFailed ==
    /\ Hear("listFailed")
    /\ IF ~shown.tried /\ shown.last # Nowhere
       THEN /\ shown' = [shown EXCEPT !.tried = TRUE]
            /\ requests' = Append(requests, Ask("reconnect", shown.last, Head(results).place.path, NoFile))
       ELSE /\ shown' = [shown EXCEPT !.tried = FALSE, !.connected = FALSE,
                                      !.listing = <<>>, !.of = Nowhere, !.busy = FALSE]
            /\ UNCHANGED requests

OnDownloaded == Hear("downloaded") /\ UNCHANGED requests
                /\ shown' = [shown EXCEPT !.busy = FALSE]

-----------------------------------------------------------------------------
WorkerSteps == TakeRequest \/ Mount \/ OpenDir \/ ReadDir \/ CloseDir \/ OpenFile \/ Read \/ CloseFile

Hearing == OnOpened \/ OnListed \/ OnFailed \/ OnListFailed \/ OnDownloaded

Next == \/ Open \/ Close \/ Up \/ Enter \/ Download
        \/ TakeRequest \/ Mount \/ OpenDir \/ ReadDir \/ CloseDir
        \/ OpenFile \/ Read \/ CloseFile \/ SessionLost
        \/ OnOpened \/ OnListed \/ OnFailed \/ OnListFailed \/ OnDownloaded

Spec == Init /\ [][Next]_vars /\ WF_vars(WorkerSteps) /\ WF_vars(Hearing)

-----------------------------------------------------------------------------
(* Types; and NetworkWorker sends no command without a client.             *)
TypeOK ==
    /\ shown \in Shown /\ worker \in Worker
    /\ requests \in Seq(Request) /\ results \in Seq(Result)
    /\ {asked, faults} \subseteq Nat /\ upset \subseteq Upsets
    /\ worker.at \in {"idle", "mount"} \/ worker.host # None

(* onListed, onListFailed: when all is answered, a browser that says it is *)
(* connected is connected to the server it names, and shows the directory  *)
(* it names, whole. What breaks this is named in Upsets: what is asked     *)
(* while an answer is under way (after Home, a late answer connects the    *)
(* browser again, to nobody), a server that does not answer while another  *)
(* was connected, and a listing that timed out.                            *)
Settles ==
    Rest /\ shown.connected /\ upset \subseteq {"full"} =>
    /\ ~shown.busy /\ worker.host = shown.host /\ shown.of = Here
    /\ shown.listing = Directory[shown.path]

(* doDownload, onDownloaded: the file that is handed over, and mounted, is *)
(* the one the user clicked on, unless he clicked while an earlier answer  *)
(* was under way; and it is whole, unless a command timed out or a write   *)
(* to the local file failed.                                               *)
GetsWhatWasClicked ==
    \A i \in DOMAIN results : results[i].kind = "downloaded" =>
        /\ "late" \notin upset => results[i].file = results[i].want
        /\ upset \cap {"cut", "full"} = {} => results[i].size = Size(results[i].file)

(* setBusy: the browser does not stay busy, whatever fails: a request is   *)
(* answered, and a listing that failed is tried again only once.           *)
BusyEnds == shown.busy ~> ~shown.busy
=============================================================================
