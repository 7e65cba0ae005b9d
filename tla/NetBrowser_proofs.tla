------------------------- MODULE NetBrowser_proofs --------------------------
(* Proofs about the network browser, for any number of servers, requests   *)
(* and faults: the types, that what is shown is what the worker's server   *)
(* has once all is answered, and that the file handed over is the one that *)
(* was clicked. The invariant follows the one request under way from the   *)
(* browser's queue through the worker back to the browser; see OneAtATime. *)
EXTENDS NetBrowser, SequenceTheorems, TLAPS

(* The names in a directory.                                               *)
Names == {"sub", "disk", "extra"}

(* The two directories of the model's servers.                             *)
LEMMA Directories ==
    /\ Paths = {"root", "sub"}
    /\ \A p \in Paths : Directory[p] \in Seq(Names) /\ Len(Directory[p]) = 2
<1>1. Paths = {"root", "sub"} BY DEF Paths, Directory
<1>2. Directory["root"] = <<"sub", "disk">> /\ Directory["sub"] = <<"disk", "extra">>
  BY DEF Directory
<1>3. <<"sub", "disk">> \in Seq(Names) /\ <<"disk", "extra">> \in Seq(Names) BY DEF Names
<1>4. Len(<<"sub", "disk">>) = 2 /\ Len(<<"disk", "extra">>) = 2 OBVIOUS
<1> QED BY <1>1, <1>2, <1>3, <1>4

(* The fields of the browser, of the requests, of the worker and of the    *)
(* results.                                                                *)
LEMMA Records ==
    /\ \A s \in Shown : /\ s.connected \in BOOLEAN /\ s.busy \in BOOLEAN /\ s.host \in Hosts \cup {None}
                        /\ s.path \in Paths /\ s.listing \in Seq(Names) /\ s.of \in Place
                        /\ s.tried \in BOOLEAN /\ s.last \in Place
    /\ \A p \in Place : p.host \in Hosts \cup {None} /\ p.path \in Paths
    /\ \A r \in Request : /\ r.do \in {"open", "close", "list", "reconnect", "download"}
                          /\ r.to \in Place /\ r.path \in Paths /\ r.want \in Files
    /\ \A w \in Worker : /\ w.at \in {"idle", "mount", "opendir", "readdir", "closedir", "open", "read", "close"}
                         /\ w.job \in Request /\ w.host \in Hosts \cup {None} /\ w.session \in BOOLEAN
                         /\ w.got \in Seq(Names) /\ w.size \in Nat /\ w.saved \in Nat
    /\ \A r \in Result : /\ r.kind \in {"opened", "listed", "failed", "listFailed", "downloaded"}
                         /\ r.place \in Place /\ r.got \in Seq(Names) /\ r.file \in Files
                         /\ r.want \in Files /\ r.size \in Nat
    /\ \A f \in Files : f.host \in Hosts \cup {None} /\ f.path \in Paths /\ f.name \in {"disk", "extra"}
BY DEF Shown, Place, Request, Worker, Result, Files, Names

(* The places and files that the steps put together.                       *)
LEMMA Made ==
    /\ \A p \in Place, n \in {"disk", "extra"} : File(p, n) \in Files
    /\ Nowhere \in Place /\ NoFile \in Files
    /\ \A h \in Hosts \cup {None}, p \in Paths : [host |-> h, path |-> p] \in Place
    /\ \A p \in Paths : [Nowhere EXCEPT !.path = p] \in Place
<1>1. "root" \in Paths BY Directories
<1>2. \A h \in Hosts \cup {None}, p \in Paths : [host |-> h, path |-> p] \in Place BY DEF Place
<1>3. Nowhere \in Place BY <1>1, <1>2 DEF Nowhere
<1>4. \A p \in Place, n \in {"disk", "extra"} : File(p, n) \in Files BY DEF File, Place, Files
<1> QED BY <1>1, <1>2, <1>3, <1>4 DEF NoFile, Nowhere, Place

(* A request that is put together,                                         *)
LEMMA Asked ==
    ASSUME NEW do \in {"open", "close", "list", "reconnect", "download"}, NEW to \in Place,
           NEW path \in Paths, NEW want \in Files
    PROVE  Ask(do, to, path, want) \in Request
BY DEF Ask, Request

(* and a result.                                                           *)
LEMMA Tells ==
    ASSUME NEW kind \in {"opened", "listed", "failed", "listFailed", "downloaded"}, NEW place \in Place
    PROVE  /\ Told(kind, place) \in Result /\ Told(kind, place).kind = kind /\ Told(kind, place).place = place
           /\ \A got \in Seq(Names) : /\ [Told(kind, place) EXCEPT !.got = got] \in Result
                                      /\ [Told(kind, place) EXCEPT !.got = got].kind = kind
           /\ \A file, want \in Files, size \in Nat :
                 [Told(kind, place) EXCEPT !.file = file, !.want = want, !.size = size] \in Result
<1>1. <<>> \in Seq(Names) OBVIOUS
<1>2. NoFile \in Files BY Made
<1> QED BY <1>1, <1>2 DEF Told, Result, Names

(* A request for a server.                                                 *)
Opening(job) == job.do \in {"open", "reconnect"}

(* The types of the state, with the sequences' elements.                   *)
Types ==
    /\ shown \in Shown /\ worker \in Worker
    /\ requests \in Seq(Request) /\ results \in Seq(Result)
    /\ asked \in Nat /\ faults \in Nat /\ upset \subseteq Upsets

(* A request for a server names one; so does the place that a reconnection *)
(* goes back to.                                                           *)
Served ==
    /\ \A i \in DOMAIN requests : Opening(requests[i]) => requests[i].to.host # None
    /\ worker.at = "mount" => Opening(worker.job) /\ worker.job.to.host # None
    /\ shown.last = Nowhere \/ shown.last.host # None
    /\ worker.at \notin {"idle", "mount"} => worker.host # None

(* The types hold at first.                                                *)
LEMMA TypesInit == Init => Types /\ Served
<1> SUFFICES ASSUME Init PROVE Types /\ Served OBVIOUS
<1>1. "root" \in Paths /\ Nowhere \in Place /\ NoFile \in Files BY Directories, Made
<1>2. Ask("close", Nowhere, "root", NoFile) \in Request BY <1>1, Asked
<1>3. shown \in Shown BY <1>1 DEF Init, Shown
<1>4. worker \in Worker BY <1>2 DEF Init, Worker
<1>5. requests \in Seq(Request) /\ results \in Seq(Result) /\ asked \in Nat /\ faults \in Nat /\ upset \subseteq Upsets
  BY DEF Init
<1> QED BY <1>3, <1>4, <1>5 DEF Init, Types, Served

(* A request of the user keeps the types.                                  *)
LEMMA UserTypes ==
    ASSUME Types, Served, NEW r \in Request, Opening(r) => r.to.host # None, User(r),
           shown' \in Shown, shown'.last = shown.last
    PROVE  Types' /\ Served'
<1>1. requests' = Append(requests, r) /\ UNCHANGED <<worker, results, faults>> /\ asked' \in Nat
  BY DEF User, Types
<1>2. upset' \subseteq Upsets BY DEF User, Upsets, Types
<1>3. requests' \in Seq(Request) BY <1>1, AppendProperties DEF Types
<1>4. \A i \in DOMAIN requests' : Opening(requests'[i]) => requests'[i].to.host # None
  BY <1>1, AppendProperties DEF Served, Types
<1> QED BY <1>1, <1>2, <1>3, <1>4 DEF Types, Served

(* What the user does keeps the types.                                     *)
LEMMA AskingTypes ==
    ASSUME Types, Served, Open \/ Close \/ Up \/ Enter \/ Download
    PROVE  Types' /\ Served'
<1>1. "root" \in Paths /\ "sub" \in Paths /\ Nowhere \in Place /\ NoFile \in Files /\ <<>> \in Seq(Names)
  BY Directories, Made
<1>2. shown \in Shown /\ shown.path \in Paths /\ shown.of \in Place BY Records DEF Types
<1>3. ASSUME Open PROVE Types' /\ Served'
  <2>1. PICK h \in Hosts : /\ User(Ask("open", [host |-> h, path |-> "root"], "root", NoFile))
                           /\ shown' = [shown EXCEPT !.listing = <<>>, !.of = Nowhere, !.busy = TRUE]
    BY <1>3 DEF Open
  <2> DEFINE r == Ask("open", [host |-> h, path |-> "root"], "root", NoFile)
  <2>2. r \in Request BY <1>1, Made, Asked
  <2>3. r.to.host # None BY NetAssumption DEF Ask
  <2>4. shown' \in Shown /\ shown'.last = shown.last BY <1>1, <1>2, <2>1 DEF Shown, Names
  <2> HIDE DEF r
  <2>5. User(r) BY <2>1 DEF r
  <2> QED BY <2>2, <2>3, <2>4, <2>5, UserTypes
<1>4. ASSUME Close PROVE Types' /\ Served'
  <2> DEFINE r == Ask("close", Nowhere, "root", NoFile)
  <2>2. r \in Request BY <1>1, Asked
  <2>3. ~Opening(r) BY DEF Ask, Opening
  <2>4. shown' \in Shown /\ shown'.last = shown.last BY <1>1, <1>2, <1>4 DEF Close, Shown, Names
  <2>5. User(r) BY <1>4 DEF Close
  <2> HIDE DEF r
  <2> QED BY <2>2, <2>3, <2>4, <2>5, UserTypes
<1>5. ASSUME Up \/ Enter PROVE Types' /\ Served'
  <2>1. PICK p \in Paths : User(Ask("list", Nowhere, p, NoFile)) BY <1>1, <1>5 DEF Up, Enter
  <2> DEFINE r == Ask("list", Nowhere, p, NoFile)
  <2>2. r \in Request BY <1>1, Asked
  <2>3. ~Opening(r) BY DEF Ask, Opening
  <2>4. shown' \in Shown /\ shown'.last = shown.last BY <1>2, <1>5 DEF Up, Enter, Shown
  <2>5. User(r) BY <2>1
  <2> HIDE DEF r
  <2> QED BY <2>2, <2>3, <2>4, <2>5, UserTypes
<1>6. ASSUME Download PROVE Types' /\ Served'
  <2>1. PICK name \in {"disk", "extra"} :
            /\ User(Ask("download", Nowhere, shown.path, File(shown.of, name)))
            /\ shown' = [shown EXCEPT !.busy = TRUE]
    BY <1>6 DEF Download
  <2> DEFINE r == Ask("download", Nowhere, shown.path, File(shown.of, name))
  <2>2. r \in Request BY <1>1, <1>2, Asked, Made
  <2>3. ~Opening(r) BY DEF Ask, Opening
  <2>4. shown' \in Shown /\ shown'.last = shown.last BY <1>2, <2>1 DEF Shown
  <2>5. User(r) BY <2>1
  <2> HIDE DEF r
  <2> QED BY <2>2, <2>3, <2>4, <2>5, UserTypes
<1> QED BY <1>3, <1>4, <1>5, <1>6

(* What the worker becomes with the request it has taken.                  *)
Takes(job, w) ==
    /\ w \in Worker /\ w.job = job /\ w.got = <<>> /\ w.size = 0 /\ w.saved = 0
    /\ \/ /\ job.do = "close" /\ w.at = "idle" /\ w.host = None /\ results' = results
       \/ /\ Opening(job) /\ w.at = "mount" /\ w.host = None /\ results' = results
       \/ /\ job.do = "list" /\ w.at = "idle" /\ worker.host = None /\ w.host = None
          /\ results' = Append(results, Told("listFailed", [Nowhere EXCEPT !.path = job.path]))
       \/ /\ job.do = "download" /\ w.at = "idle" /\ worker.host = None /\ w.host = None
          /\ results' = Append(results, Told("failed", Nowhere))
       \/ /\ job.do = "list" /\ w.at = "opendir" /\ worker.host # None /\ w.host = worker.host
          /\ results' = results
       \/ /\ job.do = "download" /\ w.at = "open" /\ worker.host # None /\ w.host = worker.host
          /\ results' = results

(* What a taken request makes of the worker: teardown, a client that is    *)
(* missing, or a first command.                                            *)
LEMMA TakeDoes ==
    ASSUME Types, TakeRequest
    PROVE  /\ worker.at = "idle" /\ requests # <<>> /\ requests' = Tail(requests)
           /\ Head(requests) = requests[1] /\ requests[1] \in Request
           /\ Takes(requests[1], worker') /\ UNCHANGED <<shown, asked, faults, upset>>
<1> DEFINE job == Head(requests)
           w == [worker EXCEPT !.job = job, !.got = <<>>, !.size = 0, !.saved = 0]
           gone == [w EXCEPT !.host = None, !.session = FALSE]
<1>1. worker.at = "idle" /\ requests # <<>> /\ requests' = Tail(requests) /\ UNCHANGED <<shown, asked, faults, upset>>
  BY DEF TakeRequest
<1>2. job = requests[1] /\ job \in Request BY <1>1, HeadTailProperties DEF Types
<1>3. <<>> \in Seq(Names) OBVIOUS
<1>4. worker \in Worker BY DEF Types
<1> HIDE DEF job
<1>5. /\ w \in Worker /\ w.job = job /\ w.got = <<>> /\ w.size = 0 /\ w.saved = 0
      /\ w.at = "idle" /\ w.host = worker.host
      /\ gone \in Worker /\ gone.job = job /\ gone.got = <<>> /\ gone.size = 0 /\ gone.saved = 0
      /\ gone.at = "idle" /\ gone.host = None
  BY <1>1, <1>2, <1>3, <1>4 DEF Worker, Names
<1>6. job.do \in {"open", "close", "list", "reconnect", "download"} BY <1>2, Records
<1>7. (CASE job.do = "close" -> Ends(gone, <<>>)
             [] job.do \in {"open", "reconnect"} ->
                   worker' = [gone EXCEPT !.at = "mount"] /\ UNCHANGED results
             [] job.do = "list" /\ NoClient(w) ->
                   Ends(w, <<Told("listFailed", [Nowhere EXCEPT !.path = job.path])>>)
             [] job.do = "download" /\ NoClient(w) -> Ends(w, <<Told("failed", Nowhere)>>)
             [] job.do = "list" /\ ~NoClient(w) ->
                   worker' = [w EXCEPT !.at = "opendir"] /\ UNCHANGED results
             [] OTHER -> worker' = [w EXCEPT !.at = "open"] /\ UNCHANGED results)
  BY DEF TakeRequest, job
<1> HIDE DEF w, gone
<1>8. \/ job.do = "close" /\ Ends(gone, <<>>)
      \/ Opening(job) /\ worker' = [gone EXCEPT !.at = "mount"] /\ UNCHANGED results
      \/ job.do = "list" /\ NoClient(w) /\ Ends(w, <<Told("listFailed", [Nowhere EXCEPT !.path = job.path])>>)
      \/ job.do = "download" /\ NoClient(w) /\ Ends(w, <<Told("failed", Nowhere)>>)
      \/ job.do = "list" /\ ~NoClient(w) /\ worker' = [w EXCEPT !.at = "opendir"] /\ UNCHANGED results
      \/ job.do = "download" /\ ~NoClient(w) /\ worker' = [w EXCEPT !.at = "open"] /\ UNCHANGED results
  BY <1>6, <1>7 DEF Opening
<1>9. \A r \in Result : results \o <<r>> = Append(results, r)
  BY DEF Types
<1>10. results \o <<>> = results BY DEF Types
<1>11. /\ Told("failed", Nowhere) \in Result
       /\ Told("listFailed", [Nowhere EXCEPT !.path = job.path]) \in Result
  BY <1>2, Records, Made, Tells
<1>12. Takes(job, worker')
  <2>1. CASE job.do = "close" /\ Ends(gone, <<>>)
    BY <2>1, <1>5, <1>10 DEF Ends, Takes, Worker
  <2>2. CASE Opening(job) /\ worker' = [gone EXCEPT !.at = "mount"] /\ UNCHANGED results
    BY <2>2, <1>5 DEF Takes, Worker
  <2>3. CASE job.do = "list" /\ NoClient(w) /\ Ends(w, <<Told("listFailed", [Nowhere EXCEPT !.path = job.path])>>)
    <3>1. worker' = [w EXCEPT !.at = "idle"]
      BY <2>3 DEF Ends
    <3>2. results' = Append(results, Told("listFailed", [Nowhere EXCEPT !.path = job.path]))
      BY <2>3, <1>9, <1>11 DEF Ends
    <3>3. worker' \in Worker /\ worker'.at = "idle" /\ worker'.job = job /\ worker'.got = <<>> /\ worker'.size = 0
          /\ worker'.saved = 0 /\ worker'.host = w.host
      BY <3>1, <1>5 DEF Worker
    <3> QED BY <2>3, <3>2, <3>3, <1>5 DEF Takes, NoClient
  <2>4. CASE job.do = "download" /\ NoClient(w) /\ Ends(w, <<Told("failed", Nowhere)>>)
    <3>1. worker' = [w EXCEPT !.at = "idle"]
      BY <2>4 DEF Ends
    <3>2. results' = Append(results, Told("failed", Nowhere))
      BY <2>4, <1>9, <1>11 DEF Ends
    <3>3. worker' \in Worker /\ worker'.at = "idle" /\ worker'.job = job /\ worker'.got = <<>> /\ worker'.size = 0
          /\ worker'.saved = 0 /\ worker'.host = w.host
      BY <3>1, <1>5 DEF Worker
    <3> QED BY <2>4, <3>2, <3>3, <1>5 DEF Takes, NoClient
  <2>5. CASE job.do = "list" /\ ~NoClient(w) /\ worker' = [w EXCEPT !.at = "opendir"] /\ UNCHANGED results
    BY <2>5, <1>5 DEF Takes, Worker, NoClient
  <2>6. CASE job.do = "download" /\ ~NoClient(w) /\ worker' = [w EXCEPT !.at = "open"] /\ UNCHANGED results
    BY <2>6, <1>5 DEF Takes, Worker, NoClient
  <2> QED BY <1>8, <2>1, <2>2, <2>3, <2>4, <2>5, <2>6
<1> QED BY <1>1, <1>2, <1>12 DEF job

-----------------------------------------------------------------------------
(* What a step of the worker leaves alone.                                 *)
WorkerFrame ==
    /\ UNCHANGED <<shown, requests, asked>> /\ faults' \in Nat
    /\ worker' \in Worker /\ worker'.job = worker.job

(* A fault is counted.                                                     *)
LEMMA FaultsCounted == ASSUME Types PROVE (Fault \/ UNCHANGED faults) => faults' \in Nat
BY DEF Types, Fault

(* The worker goes to another stage.                                       *)
OnlyAt(v, w, at) ==
    /\ v \in Worker /\ v.at = at /\ v.job = w.job /\ v.host = w.host /\ v.got = w.got /\ v.size = w.size
    /\ v.saved = w.saved

(* A step of the worker.                                                   *)
LEMMA WorkerSet ==
    ASSUME NEW w \in Worker, NEW at \in {"idle", "mount", "opendir", "readdir", "closedir", "open", "read", "close"}
    PROVE  OnlyAt([w EXCEPT !.at = at], w, at)
BY DEF Worker, OnlyAt

(* Two results told together.                                              *)
LEMMA TwoMore ==
    ASSUME NEW S, NEW s \in Seq(S), NEW a \in S, NEW b \in S
    PROVE  s \o (<<a>> \o <<b>>) = Append(Append(s, a), b)
<1>1. <<a>> \in Seq(S) /\ <<b>> \in Seq(S) OBVIOUS
<1>2. s \o (<<a>> \o <<b>>) = (s \o <<a>>) \o <<b>> BY <1>1, ConcatAssociative
<1>3. s \o <<a>> = Append(s, a) /\ Append(s, a) \in Seq(S) BY <1>1
<1>4. Append(s, a) \o <<b>> = Append(Append(s, a), b) BY <1>3
<1> QED BY <1>2, <1>3, <1>4

(* connectTo: the session, or not.                                         *)
LEMMA MountDoes ==
    ASSUME Types, Served, Mount
    PROVE  /\ WorkerFrame /\ worker.at = "mount" /\ worker'.got = worker.got
           /\ \/ /\ worker'.at = "opendir" /\ worker'.host = worker.job.to.host /\ upset' = upset
                 /\ results' = Append(results, Told("opened", Going))
              \/ /\ worker'.at = "idle" /\ worker'.host = worker.host /\ worker.job.do # "reconnect"
                 /\ results' = Append(results, Told("failed", Nowhere)) /\ upset' = upset \cup {"refused"}
              \/ /\ worker'.at = "idle" /\ worker'.host = worker.host /\ upset' = upset
                 /\ results' = Append(Append(results, Told("failed", Nowhere)),
                                      Told("listFailed", [Nowhere EXCEPT !.path = worker.job.path]))
<1>1. worker \in Worker /\ worker.at = "mount" /\ UNCHANGED <<shown, requests, asked>>
  BY DEF Types, Mount, WorkerOnly
<1>2. worker.job \in Request /\ worker.job.to \in Place /\ worker.job.to.host \in Hosts \cup {None}
  /\ worker.job.path \in Paths /\ worker.job.do \in {"open", "reconnect"}
  BY <1>1, Records DEF Served, Opening
<1>3. CASE /\ worker' = [worker EXCEPT !.at = "opendir", !.host = worker.job.to.host, !.session = TRUE]
           /\ results' = Append(results, Told("opened", Going))
           /\ UNCHANGED <<faults, upset>>
  <2>1. /\ worker' \in Worker /\ worker'.at = "opendir" /\ worker'.job = worker.job /\ worker'.got = worker.got
        /\ worker'.host = worker.job.to.host
    BY <1>1, <1>2, <1>3 DEF Worker
  <2>2. faults' \in Nat BY <1>3 DEF Types
  <2> QED BY <1>1, <1>3, <2>1, <2>2 DEF WorkerFrame
<1>4. CASE /\ Fault
           /\ Ends(worker, <<Told("failed", Nowhere)>> \o
                          IF worker.job.do = "reconnect"
                          THEN <<Told("listFailed", [Nowhere EXCEPT !.path = worker.job.path])>>
                          ELSE <<>>)
           /\ upset' = IF worker.job.do = "open" THEN upset \cup {"refused"} ELSE upset
  <2>1. /\ worker' \in Worker /\ worker'.at = "idle" /\ worker'.job = worker.job /\ worker'.got = worker.got
        /\ worker'.host = worker.host
    <3>1. OnlyAt([worker EXCEPT !.at = "idle"], worker, "idle") BY <1>1, WorkerSet
    <3>2. worker' = [worker EXCEPT !.at = "idle"] BY <1>4 DEF Ends
    <3>3. OnlyAt(worker', worker, "idle") BY <3>1, <3>2
    <3> QED BY <3>3 DEF OnlyAt
  <2>2. faults' \in Nat BY <1>4, FaultsCounted
  <2> DEFINE f == Told("failed", Nowhere)
             l == Told("listFailed", [Nowhere EXCEPT !.path = worker.job.path])
  <2>3. f \in Result /\ l \in Result BY <1>2, Made, Tells
  <2>4. results' = results \o (<<f>> \o IF worker.job.do = "reconnect" THEN <<l>> ELSE <<>>)
    BY <1>4 DEF Ends
  <2>5. results \in Seq(Result) BY DEF Types
  <2> HIDE DEF f, l
  <2>6. results \o (<<f>> \o <<>>) = Append(results, f) BY <2>3, <2>5
  <2>7. results \o (<<f>> \o <<l>>) = Append(Append(results, f), l)
    BY <2>3, <2>5, TwoMore
  <2>8. CASE worker.job.do = "reconnect"
    BY <2>8, <2>1, <2>2, <2>4, <2>7, <1>1, <1>4 DEF WorkerFrame, f, l
  <2>9. CASE worker.job.do = "open"
    BY <2>9, <2>1, <2>2, <2>4, <2>6, <1>1, <1>4 DEF WorkerFrame, f
  <2> QED BY <1>2, <2>8, <2>9
<1> QED BY <1>3, <1>4 DEF Mount

(* A result is told.                                                       *)
LEMMA EndsDoes ==
    ASSUME Types, NEW r \in Result, Ends(worker, <<r>>)
    PROVE  /\ worker' \in Worker /\ worker'.at = "idle" /\ worker'.job = worker.job /\ worker'.host = worker.host
           /\ worker'.got = worker.got /\ worker'.size = worker.size /\ worker'.saved = worker.saved
           /\ results' = Append(results, r)
<1>1. results' = results \o <<r>> /\ results \in Seq(Result) BY DEF Ends, Types
<1>2. results' = Append(results, r) BY <1>1
<1>3. worker' = [worker EXCEPT !.at = "idle"] /\ worker \in Worker BY DEF Ends, Types
<1>4. OnlyAt(worker', worker, "idle")
  <2>1. OnlyAt([worker EXCEPT !.at = "idle"], worker, "idle") BY <1>3, WorkerSet
  <2> QED BY <1>3, <2>1
<1> QED BY <1>2, <1>4 DEF OnlyAt

(* The worker goes on.                                                     *)
LEMMA GoesDoes ==
    ASSUME Types, NEW at \in {"idle", "mount", "opendir", "readdir", "closedir", "open", "read", "close"}, Goes(at)
    PROVE  /\ worker' \in Worker /\ worker'.at = at /\ worker'.job = worker.job /\ worker'.host = worker.host
           /\ worker'.got = worker.got /\ worker'.size = worker.size /\ worker'.saved = worker.saved
           /\ results' = results
<1>1. worker' = [worker EXCEPT !.at = at] /\ worker \in Worker /\ results' = results
  BY DEF Goes, Types
<1>2. OnlyAt([worker EXCEPT !.at = at], worker, at) BY <1>1, WorkerSet
<1>3. OnlyAt(worker', worker, at) BY <1>1, <1>2
<1> QED BY <1>1, <1>3 DEF OnlyAt

(* beginListing,                                                           *)
LEMMA OpenDirDoes ==
    ASSUME Types, OpenDir
    PROVE  /\ WorkerFrame /\ worker.at = "opendir" /\ worker'.got = worker.got
           /\ worker'.host = worker.host /\ upset' = upset
           /\ \/ worker'.at = "readdir" /\ results' = results
              \/ worker'.at = "idle" /\ results' = Append(results, Told("listFailed", Listed))
<1>1. worker.at = "opendir" /\ UNCHANGED <<shown, requests, asked, upset>>
  BY DEF OpenDir, WorkerOnly
<1>2. faults' \in Nat BY FaultsCounted DEF OpenDir, Answered, Unanswered
<1>3. Told("listFailed", Listed) \in Result BY Records, Tells, Made DEF Types, Listed
<1>4. Goes("readdir") \/ Ends(worker, <<Told("listFailed", Listed)>>) BY DEF OpenDir
<1>5. CASE Goes("readdir") BY <1>1, <1>2, <1>5, GoesDoes DEF WorkerFrame
<1>6. CASE Ends(worker, <<Told("listFailed", Listed)>>)
  <2> DEFINE r == Told("listFailed", Listed)
  <2>1. r \in Result /\ Ends(worker, <<r>>) BY <1>3, <1>6
  <2> HIDE DEF r
  <2>2. /\ worker' \in Worker /\ worker'.at = "idle" /\ worker'.job = worker.job /\ worker'.host = worker.host
        /\ worker'.got = worker.got /\ results' = Append(results, r)
    BY <2>1, EndsDoes
  <2> QED BY <1>1, <1>2, <2>2 DEF WorkerFrame, r
<1> QED BY <1>4, <1>5, <1>6

(* fetchNextBatch,                                                         *)
LEMMA ReadDirDoes ==
    ASSUME Types, ReadDir
    PROVE  /\ WorkerFrame /\ worker.at = "readdir" /\ worker'.host = worker.host /\ results' = results
           /\ \/ /\ Len(worker.got) < Len(Directory[worker.job.path]) /\ worker'.at = "readdir"
                 /\ worker'.got = Append(worker.got, Directory[worker.job.path][Len(worker.got) + 1])
                 /\ upset' = upset
              \/ /\ Len(worker.got) >= Len(Directory[worker.job.path]) /\ worker'.at = "closedir"
                 /\ worker'.got = worker.got /\ upset' = upset
              \/ worker'.at = "closedir" /\ worker'.got = worker.got /\ upset' = upset \cup {"cut"}
<1> DEFINE all == Directory[worker.job.path]
           n == Len(worker.got)
<1>1. worker.at = "readdir" /\ UNCHANGED <<shown, requests, asked>> BY DEF ReadDir, WorkerOnly
<1>2. worker \in Worker /\ worker.got \in Seq(Names) /\ n \in Nat /\ worker.job.path \in Paths
  BY Records DEF Types
<1>3. all \in Seq(Names) /\ Len(all) = 2 BY <1>2, Directories
<1>4. \/ Answered /\ n < Len(all) /\ worker' = [worker EXCEPT !.got = Append(@, all[n + 1])]
           /\ UNCHANGED <<results, upset>>
      \/ Answered /\ n = Len(all) /\ Goes("closedir") /\ UNCHANGED upset
      \/ Unanswered /\ Goes("closedir") /\ upset' = IF n < Len(all) THEN upset \cup {"cut"} ELSE upset
  BY DEF ReadDir
<1>5. faults' \in Nat BY <1>4, FaultsCounted DEF Answered, Unanswered
<1> HIDE DEF all
<1>6. CASE n < Len(all) /\ worker' = [worker EXCEPT !.got = Append(@, all[n + 1])] /\ UNCHANGED <<results, upset>>
  <2>0. n + 1 \in 1 .. Len(all) BY <1>2, <1>3, <1>6
  <2>1. all[n + 1] \in Names BY <1>3, <2>0, ElementOfSeq
  <2>2. Append(worker.got, all[n + 1]) \in Seq(Names) BY <2>1, <1>2, AppendProperties
  <2>3. /\ worker' \in Worker /\ worker'.at = "readdir" /\ worker'.job = worker.job /\ worker'.host = worker.host
        /\ worker'.got = Append(worker.got, all[n + 1])
    BY <1>1, <1>2, <1>6, <2>2 DEF Worker, Names
  <2> QED BY <1>1, <1>5, <1>6, <2>3 DEF WorkerFrame, all
<1>7. CASE Goes("closedir") /\ ((n >= Len(all) /\ upset' = upset) \/ upset' = upset \cup {"cut"})
  <2>1. /\ worker' \in Worker /\ worker'.at = "closedir" /\ worker'.job = worker.job /\ worker'.host = worker.host
        /\ worker'.got = worker.got /\ results' = results
    BY <1>7, GoesDoes
  <2> QED BY <1>1, <1>5, <1>7, <2>1 DEF WorkerFrame, all
<1>8. CASE Answered /\ n < Len(all) /\ worker' = [worker EXCEPT !.got = Append(@, all[n + 1])]
           /\ UNCHANGED <<results, upset>>
  BY <1>6, <1>8
<1>9. CASE Answered /\ n = Len(all) /\ Goes("closedir") /\ UNCHANGED upset
  <2>1. n >= Len(all) /\ upset' = upset BY <1>9, <1>2
  <2> QED BY <2>1, <1>9, <1>7
<1>10. CASE Unanswered /\ Goes("closedir") /\ upset' = IF n < Len(all) THEN upset \cup {"cut"} ELSE upset
  <2>1. (n >= Len(all) /\ upset' = upset) \/ upset' = upset \cup {"cut"} BY <1>10, <1>2, <1>3
  <2> QED BY <2>1, <1>10, <1>7
<1> QED BY <1>4, <1>8, <1>9, <1>10 DEF all

(* endListing,                                                             *)
LEMMA CloseDirDoes ==
    ASSUME Types, CloseDir
    PROVE  /\ WorkerFrame /\ worker.at = "closedir" /\ worker'.at = "idle"
           /\ worker'.host = worker.host /\ upset' = upset
           /\ results' = Append(results, [Told("listed", Listed) EXCEPT !.got = worker.got])
           /\ [Told("listed", Listed) EXCEPT !.got = worker.got] \in Result
<1>1. worker.at = "closedir" /\ UNCHANGED <<shown, requests, asked, upset, faults>>
  BY DEF CloseDir, WorkerOnly
<1>2. worker.got \in Seq(Names) /\ Listed \in Place BY Records, Made DEF Types, Listed
<1> DEFINE r == [Told("listed", Listed) EXCEPT !.got = worker.got]
<1>3. r \in Result BY <1>2, Tells
<1>4. Ends(worker, <<r>>) BY DEF CloseDir
<1> HIDE DEF r
<1>5. /\ worker' \in Worker /\ worker'.at = "idle" /\ worker'.job = worker.job /\ worker'.host = worker.host
      /\ results' = Append(results, r)
  BY <1>3, <1>4, EndsDoes
<1> QED BY <1>1, <1>3, <1>5 DEF WorkerFrame, Types, r

(* openFile,                                                               *)
LEMMA OpenFileDoes ==
    ASSUME Types, OpenFile
    PROVE  /\ WorkerFrame /\ worker.at = "open" /\ worker'.size = worker.size
           /\ worker'.saved = worker.saved /\ worker'.host = worker.host /\ upset' = upset
           /\ \/ worker'.at = "read" /\ results' = results
              \/ worker'.at = "idle" /\ results' = Append(results, Told("failed", Nowhere))
<1>1. worker.at = "open" /\ UNCHANGED <<shown, requests, asked, upset>>
  BY DEF OpenFile, WorkerOnly
<1>2. faults' \in Nat BY FaultsCounted DEF OpenFile, Answered
<1>4. Goes("read") \/ Ends(worker, <<Told("failed", Nowhere)>>) BY DEF OpenFile
<1>5. CASE Goes("read") BY <1>1, <1>2, <1>5, GoesDoes DEF WorkerFrame
<1>6. CASE Ends(worker, <<Told("failed", Nowhere)>>)
  <2> DEFINE r == Told("failed", Nowhere)
  <2>1. r \in Result /\ Ends(worker, <<r>>) BY <1>6, Made, Tells
  <2> HIDE DEF r
  <2>2. /\ worker' \in Worker /\ worker'.at = "idle" /\ worker'.job = worker.job /\ worker'.host = worker.host
        /\ worker'.size = worker.size /\ worker'.saved = worker.saved /\ results' = Append(results, r)
    BY <2>1, EndsDoes
  <2> QED BY <1>1, <1>2, <2>2 DEF WorkerFrame, r
<1> QED BY <1>4, <1>5, <1>6

(* A file has a size.                                                      *)
LEMMA Sizes == \A f \in Files : Size(f) \in Nat
BY DEF Size, Chunk

(* The file that is fetched, and the place.                                *)
LEMMA RemoteIs ==
    ASSUME Types
    PROVE  Remote \in Files /\ Listed \in Place
<1>1. worker.job.want.name \in {"disk", "extra"} /\ Listed \in Place
  BY Records, Made DEF Types, Listed
<1> QED BY <1>1, Made DEF Remote

(* a chunk that is read, and of which the local file keeps some,           *)
LEMMA ChunkKept ==
    ASSUME Types, NEW n \in Nat, NEW kept \in Nat, worker.at = "read", Chunks(n, kept)
    PROVE  /\ worker' \in Worker /\ worker'.job = worker.job /\ worker'.host = worker.host
           /\ worker'.size = worker.size + n /\ worker'.saved = worker.saved + kept
           /\ worker'.at = (IF n < Chunk THEN "close" ELSE "read") /\ results' = results
<1>1. worker \in Worker /\ worker.size + n \in Nat /\ worker.saved + kept \in Nat
  BY Records DEF Types
<1> DEFINE at == IF n < Chunk THEN "close" ELSE "read"
           size == worker.size + n
           saved == worker.saved + kept
<1>2. worker' = [worker EXCEPT !.size = size, !.saved = saved, !.at = at]
  BY <1>1 DEF Chunks, Worker
<1>3. at \in {"close", "read"} /\ size \in Nat /\ saved \in Nat BY <1>1
<1> HIDE DEF at, size, saved
<1>4. /\ worker' \in Worker /\ worker'.job = worker.job /\ worker'.host = worker.host
      /\ worker'.size = size /\ worker'.saved = saved /\ worker'.at = at
  BY <1>1, <1>2, <1>3 DEF Worker
<1> QED BY <1>4 DEF at, size, saved, Chunks

(* What a full disk keeps of some bytes is some bytes.                     *)
LEMMA Parts == \A n \in Nat : Part(n) \subseteq Nat
BY DEF Part

(* the worker at its reads: no more than the server has, all of which is   *)
(* in the local file unless a write failed; and at the end of them,        *)
LEMMA ReadDoes ==
    ASSUME Types, Read, worker.size <= Size(Remote)
    PROVE  /\ WorkerFrame /\ worker.at = "read" /\ worker'.host = worker.host /\ results' = results
           /\ \/ /\ worker'.at = "read" /\ worker'.size <= Size(Remote)
                 /\ upset' = upset \/ upset' = upset \cup {"full"}
              \/ /\ worker'.at = "close" /\ worker'.size = Size(Remote)
                 /\ upset' = upset \/ upset' = upset \cup {"full"}
              \/ worker'.at = "close" /\ upset' = upset \cup {"cut"}
           /\ "full" \in upset' \/ (upset \subseteq upset'
                                     /\ (worker.saved = worker.size => worker'.saved = worker'.size))
<1> DEFINE left == Size(Remote) - worker.size
           n == IF left < Chunk THEN left ELSE Chunk
<1>1. worker.at = "read" /\ UNCHANGED <<shown, requests, asked>> BY DEF Read, WorkerOnly
<1>2. worker \in Worker /\ worker.size \in Nat /\ worker.saved \in Nat BY Records DEF Types
<1>3. Size(Remote) \in Nat BY RemoteIs, Sizes
<1>4. left \in Nat /\ n \in Nat /\ n <= left /\ (n < Chunk => n = left) BY <1>2, <1>3 DEF Chunk
<1>5. \/ Answered /\ Chunks(n, n) /\ UNCHANGED upset
      \/ Fault /\ (\E kept \in Part(n) : Chunks(n, kept)) /\ upset' = upset \cup {"full"}
      \/ Unanswered /\ Goes("close") /\ upset' = IF left > 0 THEN upset \cup {"cut"} ELSE upset
  BY DEF Read
<1>6. faults' \in Nat BY <1>5, FaultsCounted DEF Answered, Unanswered
<1>a. worker.size + n <= Size(Remote) /\ (n < Chunk => worker.size + n = Size(Remote))
  BY <1>2, <1>3, <1>4
<1> HIDE DEF n
<1>7. CASE Answered /\ Chunks(n, n) /\ UNCHANGED upset
  <2>1. /\ worker' \in Worker /\ worker'.job = worker.job /\ worker'.host = worker.host
        /\ worker'.size = worker.size + n /\ worker'.saved = worker.saved + n
        /\ worker'.at = (IF n < Chunk THEN "close" ELSE "read") /\ results' = results
    BY <1>1, <1>4, <1>7, ChunkKept
  <2> QED BY <1>1, <1>6, <1>7, <1>a, <2>1 DEF WorkerFrame
<1>8. CASE (\E kept \in Part(n) : Chunks(n, kept)) /\ upset' = upset \cup {"full"}
  <2>1. PICK kept \in Nat : Chunks(n, kept) BY <1>4, <1>8, Parts
  <2>2. /\ worker' \in Worker /\ worker'.job = worker.job /\ worker'.host = worker.host
        /\ worker'.size = worker.size + n
        /\ worker'.at = (IF n < Chunk THEN "close" ELSE "read") /\ results' = results
    BY <1>1, <1>4, <2>1, ChunkKept
  <2> QED BY <1>1, <1>6, <1>8, <1>a, <2>2 DEF WorkerFrame
<1>9. CASE Goes("close") /\ upset' = IF left > 0 THEN upset \cup {"cut"} ELSE upset
  <2>1. /\ worker' \in Worker /\ worker'.at = "close" /\ worker'.job = worker.job /\ worker'.host = worker.host
        /\ worker'.size = worker.size /\ worker'.saved = worker.saved /\ results' = results
    BY <1>9, GoesDoes
  <2>2. left > 0 \/ worker.size = Size(Remote) BY <1>2, <1>3, <1>4
  <2> QED BY <1>1, <1>6, <1>9, <2>1, <2>2 DEF WorkerFrame
<1> QED BY <1>5, <1>7, <1>8, <1>9

(* a file that is handed over,                                             *)
LEMMA Hands ==
    ASSUME Types, NEW n \in Nat
    PROVE  /\ Fetched(n) \in Result /\ Fetched(n).kind = "downloaded" /\ Fetched(n).file = Remote
           /\ Fetched(n).want = worker.job.want /\ Fetched(n).size = n
<1>1. worker.job.want \in Files /\ Listed \in Place /\ Remote \in Files
  BY Records, RemoteIs DEF Types
<1>2. Fetched(n) \in Result BY <1>1, Tells DEF Fetched
<1>3. /\ Fetched(n).kind = "downloaded" /\ Fetched(n).file = Remote
      /\ Fetched(n).want = worker.job.want /\ Fetched(n).size = n
  BY DEF Fetched, Told
<1> QED BY <1>2, <1>3

(* the end of a download: the file has the bytes that were saved, unless   *)
(* the last write failed,                                                  *)
LEMMA CloseFileDoes ==
    ASSUME Types, CloseFile
    PROVE  /\ WorkerFrame /\ worker.at = "close" /\ worker'.at = "idle"
           /\ worker'.host = worker.host /\ upset \subseteq upset' /\ upset' \subseteq upset \cup {"full"}
           /\ \/ results' = Append(results, Told("failed", Nowhere))
              \/ \E n \in Nat : /\ results' = Append(results, Fetched(n))
                                /\ n = worker.saved \/ "full" \in upset'
<1>1. worker.at = "close" /\ UNCHANGED <<shown, requests, asked>> BY DEF CloseFile, WorkerOnly
<1>2. worker.saved \in Nat BY Records DEF Types
<1>3. faults' \in Nat BY FaultsCounted DEF CloseFile
<1>4. upset \subseteq upset' /\ upset' \subseteq upset \cup {"full"} BY DEF CloseFile
<1>5. \/ Ends(worker, <<Told("failed", Nowhere)>>)
      \/ \E n \in Nat : Ends(worker, <<Fetched(n)>>) /\ (n = worker.saved \/ "full" \in upset')
  BY <1>2, Parts DEF CloseFile
<1>6. CASE Ends(worker, <<Told("failed", Nowhere)>>)
  <2> DEFINE r == Told("failed", Nowhere)
  <2>1. r \in Result /\ Ends(worker, <<r>>) BY <1>6, Made, Tells
  <2> HIDE DEF r
  <2>2. /\ worker' \in Worker /\ worker'.at = "idle" /\ worker'.job = worker.job /\ worker'.host = worker.host
        /\ results' = Append(results, r)
    BY <2>1, EndsDoes
  <2> QED BY <1>1, <1>3, <1>4, <2>2 DEF WorkerFrame, r
<1>7. CASE \E n \in Nat : Ends(worker, <<Fetched(n)>>) /\ (n = worker.saved \/ "full" \in upset')
  <2>1. PICK n \in Nat : Ends(worker, <<Fetched(n)>>) /\ (n = worker.saved \/ "full" \in upset')
    BY <1>7
  <2> DEFINE r == Fetched(n)
  <2>2. r \in Result /\ Ends(worker, <<r>>) BY <2>1, Hands
  <2> HIDE DEF r
  <2>3. /\ worker' \in Worker /\ worker'.at = "idle" /\ worker'.job = worker.job /\ worker'.host = worker.host
        /\ results' = Append(results, r)
    BY <2>2, EndsDoes
  <2> QED BY <1>1, <1>3, <1>4, <2>1, <2>3 DEF WorkerFrame, r
<1> QED BY <1>5, <1>6, <1>7

(* and a session that the server forgets.                                  *)
LEMMA LostDoes ==
    ASSUME Types, SessionLost
    PROVE  /\ WorkerFrame /\ worker'.at = worker.at /\ worker'.host = worker.host /\ worker'.got = worker.got
           /\ worker'.size = worker.size /\ worker'.saved = worker.saved /\ UNCHANGED <<results, upset>>
<1>1. /\ worker' = [worker EXCEPT !.session = FALSE] /\ worker \in Worker
      /\ UNCHANGED <<shown, requests, results, asked, upset>>
  BY DEF SessionLost, Types
<1>2. faults' \in Nat BY FaultsCounted DEF SessionLost
<1>3. /\ worker' \in Worker /\ worker'.at = worker.at /\ worker'.host = worker.host /\ worker'.got = worker.got
      /\ worker'.size = worker.size /\ worker'.saved = worker.saved /\ worker'.job = worker.job
  BY <1>1 DEF Worker
<1> QED BY <1>1, <1>2, <1>3 DEF WorkerFrame

(* What a download has so far.                                             *)
Sized0 == worker.at = "read" => worker.size <= Size(Remote)

-----------------------------------------------------------------------------
(* What hearing of a result does.                                          *)
HearFrame(kind) ==
    /\ results # <<>> /\ results' = Tail(results) /\ results[1] \in Result /\ results[1].kind = kind
    /\ UNCHANGED <<worker, asked, faults, upset>> /\ shown' \in Shown

(* A result that is heard leaves the queue.                                *)
LEMMA HearDoes ==
    ASSUME Types, NEW kind, Hear(kind)
    PROVE  /\ results # <<>> /\ results' = Tail(results) /\ results[1] \in Result /\ results[1].kind = kind
           /\ Head(results) = results[1] /\ UNCHANGED <<worker, asked, faults, upset>>
<1>1. results # <<>> /\ results \in Seq(Result) /\ results' = Tail(results) BY DEF Hear, Types
<1>2. Head(results) = results[1] /\ results[1] \in Result BY <1>1, HeadTailProperties
<1> QED BY <1>1, <1>2 DEF Hear

(* m_lastUrl is remembered for a server only.                              *)
LEMMA RememberedDoes ==
    ASSUME NEW s \in Shown, s.last = Nowhere \/ s.last.host # None
    PROVE  /\ Remembered(s) \in Shown /\ (Remembered(s).last = Nowhere \/ Remembered(s).last.host # None)
           /\ Remembered(s).connected = s.connected /\ Remembered(s).busy = s.busy
           /\ Remembered(s).host = s.host /\ Remembered(s).path = s.path
           /\ Remembered(s).listing = s.listing /\ Remembered(s).of = s.of
<1>1. CASE s.host = None BY <1>1 DEF Remembered
<1>2. CASE s.host # None
  <2> DEFINE p == [host |-> s.host, path |-> s.path]
  <2>1. p \in Place /\ p.host = s.host BY Records, Made
  <2>2. Remembered(s) = [s EXCEPT !.last = p] BY <1>2 DEF Remembered
  <2> HIDE DEF p
  <2> QED BY <1>2, <2>1, <2>2 DEF Shown
<1> QED BY <1>1, <1>2

(* onOpened,                                                               *)
LEMMA OpenedDoes ==
    ASSUME Types, Served, OnOpened
    PROVE  /\ HearFrame("opened") /\ UNCHANGED requests
           /\ shown'.last = Nowhere \/ shown'.last.host # None
           /\ shown'.host = results[1].place.host /\ shown'.path = results[1].place.path
           /\ shown'.listing = shown.listing
<1> DEFINE place == Head(results).place
           s == [shown EXCEPT !.connected = TRUE, !.host = place.host, !.path = place.path]
<1>1. Hear("opened") /\ UNCHANGED requests /\ shown' = Remembered(s) BY DEF OnOpened
<1>2. place = results[1].place /\ place \in Place BY <1>1, HearDoes, Records
<1>3. place.host \in Hosts \cup {None} /\ place.path \in Paths /\ shown \in Shown
  BY <1>2, Records DEF Types
<1> HIDE DEF place
<1>4. s \in Shown /\ s.last = shown.last /\ s.host = place.host /\ s.path = place.path /\ s.listing = shown.listing
  BY <1>3 DEF Shown
<1>5. s.last = Nowhere \/ s.last.host # None BY <1>4 DEF Served
<1> HIDE DEF s
<1>6. /\ Remembered(s) \in Shown /\ (Remembered(s).last = Nowhere \/ Remembered(s).last.host # None)
      /\ Remembered(s).host = s.host /\ Remembered(s).path = s.path /\ Remembered(s).listing = s.listing
  BY <1>4, <1>5, RememberedDoes
<1> QED BY <1>1, <1>2, <1>4, <1>6, HearDoes DEF HearFrame

(* onListed,                                                               *)
LEMMA ListedDoes ==
    ASSUME Types, Served, OnListed
    PROVE  /\ HearFrame("listed") /\ UNCHANGED requests
           /\ shown'.last = Nowhere \/ shown'.last.host # None
           /\ shown'.connected = shown.connected /\ shown'.busy = FALSE /\ shown'.host = shown.host
           /\ shown'.path = results[1].place.path /\ shown'.listing = results[1].got
           /\ shown'.of = results[1].place
<1> DEFINE r == Head(results)
           s == [shown EXCEPT !.tried = FALSE, !.listing = r.got, !.of = r.place,
                              !.path = r.place.path, !.busy = FALSE]
<1>1. Hear("listed") /\ UNCHANGED requests /\ shown' = Remembered(s) BY DEF OnListed
<1>2. r = results[1] /\ r \in Result BY <1>1, HearDoes
<1>3. r.place \in Place /\ r.place.path \in Paths /\ r.got \in Seq(Names) /\ shown \in Shown
  BY <1>2, Records DEF Types
<1> HIDE DEF r
<1>4. /\ s \in Shown /\ s.last = shown.last /\ s.host = shown.host /\ s.path = r.place.path /\ s.listing = r.got
      /\ s.of = r.place /\ s.busy = FALSE /\ s.connected = shown.connected
  BY <1>3 DEF Shown, Names
<1>5. s.last = Nowhere \/ s.last.host # None BY <1>4 DEF Served
<1> HIDE DEF s
<1>6. /\ Remembered(s) \in Shown /\ (Remembered(s).last = Nowhere \/ Remembered(s).last.host # None)
      /\ Remembered(s).connected = s.connected /\ Remembered(s).busy = s.busy
      /\ Remembered(s).host = s.host /\ Remembered(s).path = s.path /\ Remembered(s).listing = s.listing
      /\ Remembered(s).of = s.of
  BY <1>4, <1>5, RememberedDoes
<1> QED BY <1>1, <1>2, <1>4, <1>6, HearDoes DEF HearFrame

(* Hearing of a failure, or of a file: only the browser is not busy any    *)
(* more.                                                                   *)
Frees(kind) ==
    /\ HearFrame(kind) /\ UNCHANGED requests
    /\ shown'.last = shown.last /\ shown'.connected = shown.connected /\ shown'.busy = FALSE
    /\ shown'.host = shown.host /\ shown'.path = shown.path /\ shown'.listing = shown.listing
    /\ shown'.of = shown.of

(* onFailed and onDownloaded,                                              *)
LEMMA FreesDoes ==
    ASSUME Types, OnFailed \/ OnDownloaded
    PROVE  Frees("failed") \/ Frees("downloaded")
<1>1. PICK kind \in {"failed", "downloaded"} : Hear(kind) BY DEF OnFailed, OnDownloaded
<1>2. shown' = [shown EXCEPT !.busy = FALSE] /\ UNCHANGED requests /\ shown \in Shown
  BY DEF OnFailed, OnDownloaded, Types
<1>3. /\ shown' \in Shown /\ shown'.last = shown.last /\ shown'.connected = shown.connected /\ shown'.busy = FALSE
      /\ shown'.host = shown.host /\ shown'.path = shown.path /\ shown'.listing = shown.listing
      /\ shown'.of = shown.of
  BY <1>2 DEF Shown
<1>4. HearFrame(kind) BY <1>1, <1>3, HearDoes DEF HearFrame
<1>5. Frees(kind) BY <1>2, <1>3, <1>4 DEF Frees
<1> QED BY <1>1, <1>5

(* and onListFailed: once more, from the last place, or disconnected.      *)
LEMMA ListFailedDoes ==
    ASSUME Types, Served, OnListFailed
    PROVE  /\ HearFrame("listFailed") /\ shown'.last = shown.last
           /\ \/ \E r \in Request : /\ r.do = "reconnect" /\ r.to.host # None
                                    /\ requests' = Append(requests, r)
              \/ /\ UNCHANGED requests /\ shown'.listing = <<>> /\ shown'.connected = FALSE
                 /\ shown'.busy = FALSE
<1>1. Hear("listFailed") BY DEF OnListFailed
<1>2. results[1] \in Result /\ Head(results) = results[1] /\ results[1].place.path \in Paths
  BY <1>1, HearDoes, Records
<1>3. shown \in Shown /\ shown.last \in Place BY Records DEF Types
<1>4. CASE ~shown.tried /\ shown.last # Nowhere
  <2> DEFINE r == Ask("reconnect", shown.last, Head(results).place.path, NoFile)
  <2>1. r \in Request BY <1>2, <1>3, Asked, Made
  <2>2. r.do = "reconnect" /\ r.to = shown.last BY DEF Ask
  <2>3. shown.last.host # None BY <1>4 DEF Served
  <2>4. shown' = [shown EXCEPT !.tried = TRUE] /\ requests' = Append(requests, r)
    BY <1>4 DEF OnListFailed
  <2>5. shown' \in Shown /\ shown'.last = shown.last BY <1>3, <2>4 DEF Shown
  <2> HIDE DEF r
  <2> QED BY <1>1, <2>1, <2>2, <2>3, <2>4, <2>5, HearDoes DEF HearFrame
<1>5. CASE ~(~shown.tried /\ shown.last # Nowhere)
  <2>1. shown' = [shown EXCEPT !.tried = FALSE, !.connected = FALSE, !.listing = <<>>, !.of = Nowhere, !.busy = FALSE]
        /\ UNCHANGED requests
    BY <1>5 DEF OnListFailed
  <2>2. <<>> \in Seq(Names) /\ Nowhere \in Place BY Made
  <2>3. /\ shown' \in Shown /\ shown'.last = shown.last /\ shown'.listing = <<>> /\ shown'.connected = FALSE
        /\ shown'.busy = FALSE
    BY <2>1, <2>2, <1>3 DEF Shown, Names
  <2> QED BY <1>1, <2>1, <2>3, HearDoes DEF HearFrame
<1> QED BY <1>4, <1>5

-----------------------------------------------------------------------------
(* What is left of a queue,                                                *)
LEMMA Taken ==
    ASSUME NEW S, NEW q \in Seq(S), q # <<>>
    PROVE  /\ Tail(q) \in Seq(S) /\ Len(Tail(q)) = Len(q) - 1 /\ Len(q) \in Nat /\ Len(q) > 0
           /\ \A i \in DOMAIN Tail(q) : i + 1 \in DOMAIN q /\ Tail(q)[i] = q[i + 1]
BY HeadTailProperties, EmptySeq

(* and what one more makes of it.                                          *)
LEMMA Added ==
    ASSUME NEW S, NEW q \in Seq(S), NEW e \in S
    PROVE  /\ Append(q, e) \in Seq(S) /\ Len(Append(q, e)) = Len(q) + 1 /\ Len(q) \in Nat
           /\ Append(q, e)[Len(q) + 1] = e
           /\ \A i \in DOMAIN Append(q, e) : (i \in DOMAIN q /\ Append(q, e)[i] = q[i]) \/ Append(q, e)[i] = e
           /\ \A i \in DOMAIN q : i \in DOMAIN Append(q, e) /\ Append(q, e)[i] = q[i]
BY AppendProperties

(* The place that a connection is told with.                               *)
LEMMA GoingIs ==
    ASSUME Types
    PROVE  Going \in Place /\ Going.host = worker.job.to.host
<1>1. worker.job.to.host \in Hosts \cup {None} /\ worker.job.path \in Paths BY Records DEF Types
<1> QED BY <1>1, Made DEF Going

(* What the worker does keeps the types; it has a client beyond its first  *)
(* command.                                                                *)
LEMMA WorkerTypes ==
    ASSUME Types, Served, Sized0,
           TakeRequest \/ Mount \/ OpenDir \/ ReadDir \/ CloseDir \/ OpenFile \/ Read \/ CloseFile \/ SessionLost
    PROVE  Types' /\ Served'
<1>1. results \in Seq(Result) /\ requests \in Seq(Request) /\ worker \in Worker /\ upset \subseteq Upsets
  BY DEF Types
<1>2. worker.job \in Request /\ worker.job.to \in Place /\ worker.job.path \in Paths /\ Listed \in Place
      /\ Going \in Place
  BY <1>1, Records, RemoteIs, GoingIs
<1>3. \A p \in Place : /\ Told("opened", p) \in Result /\ Told("failed", p) \in Result
                       /\ Told("listFailed", p) \in Result
  BY Tells
<1>4. Nowhere \in Place /\ \A p \in Paths : [Nowhere EXCEPT !.path = p] \in Place BY Made
<1>5. ASSUME TakeRequest PROVE Types' /\ Served'
  <2> DEFINE job == requests[1]
  <2>1. /\ requests # <<>> /\ requests' = Tail(requests) /\ job \in Request
        /\ Takes(job, worker') /\ UNCHANGED <<shown, asked, faults, upset>>
    BY <1>5, TakeDoes
  <2>2. requests' \in Seq(Request) /\ \A i \in DOMAIN requests' : i + 1 \in DOMAIN requests /\ requests'[i] = requests[i + 1]
    BY <1>1, <2>1, Taken
  <2>3. 1 \in DOMAIN requests BY <1>1, <2>1, EmptySeq
  <2>4. Opening(job) => job.to.host # None BY <2>3 DEF Served
  <2>5. job.path \in Paths BY <2>1, Records
  <2> HIDE DEF job
  <2>a. Told("listFailed", [Nowhere EXCEPT !.path = job.path]) \in Result /\ Told("failed", Nowhere) \in Result
    BY <1>3, <1>4, <2>5
  <2>b. results' = results \/ \E r \in Result : results' = Append(results, r)
    BY <2>1, <2>a DEF Takes
  <2>6. results' \in Seq(Result) BY <1>1, <2>b, AppendProperties
  <2>7. /\ worker' \in Worker /\ (worker'.at = "mount" => Opening(worker'.job) /\ worker'.job.to.host # None)
        /\ worker'.at \notin {"idle", "mount"} => worker'.host # None
    BY <2>1, <2>4 DEF Takes
  <2> QED BY <1>1, <2>1, <2>2, <2>6, <2>7 DEF Types, Served
<1>6. ASSUME WorkerFrame, results' \in Seq(Result), upset' \subseteq Upsets, worker'.at # "mount" \/ worker'.at = worker.at,
             worker'.at = "idle" \/ worker'.host # None \/ worker'.at = "mount"
      PROVE  Types' /\ Served'
  BY <1>6 DEF WorkerFrame, Types, Served
<1>7. ASSUME Mount PROVE Types' /\ Served'
  <2>1. worker.job.to.host # None BY <1>7, MountDoes DEF Served
  <2>a. upset' = upset \/ upset' = upset \cup {"refused"} BY <1>7, MountDoes
  <2>2. upset' \subseteq Upsets BY <1>1, <2>a DEF Upsets
  <2> DEFINE o == Told("opened", Going)
             f == Told("failed", Nowhere)
             l == Told("listFailed", [Nowhere EXCEPT !.path = worker.job.path])
  <2>b. o \in Result /\ f \in Result /\ l \in Result BY <1>2, <1>3, <1>4
  <2>c. results' \in {Append(results, o), Append(results, f), Append(Append(results, f), l)}
    BY <1>7, MountDoes
  <2> HIDE DEF o, f, l
  <2>d. \A s \in Seq(Result), r \in Result : Append(s, r) \in Seq(Result) BY AppendProperties
  <2>3. results' \in Seq(Result) BY <1>1, <2>b, <2>c, <2>d
  <2>e. WorkerFrame BY <1>7, MountDoes
  <2>4. WorkerFrame /\ (worker'.at = "idle" \/ (worker'.at = "opendir" /\ worker'.host = worker.job.to.host))
    BY <2>e, <1>7, MountDoes
  <2> QED BY <2>1, <2>2, <2>3, <2>4, <1>6
<1>8. ASSUME OpenDir PROVE Types' /\ Served'
  <2>3. results' \in Seq(Result) BY <1>1, <1>2, <1>3, <1>8, OpenDirDoes, AppendProperties
  <2>4. WorkerFrame /\ worker.host # None /\ worker'.host = worker.host /\ worker'.at # "mount" /\ upset' = upset
    BY <1>8, OpenDirDoes DEF Served
  <2> QED BY <1>1, <2>3, <2>4, <1>6
<1>9. ASSUME ReadDir PROVE Types' /\ Served'
  <2>2. upset' \subseteq Upsets BY <1>1, <1>9, ReadDirDoes DEF Upsets
  <2>4. WorkerFrame /\ worker.host # None /\ worker'.host = worker.host /\ worker'.at # "mount" /\ results' = results
    BY <1>9, ReadDirDoes DEF Served
  <2> QED BY <1>1, <2>2, <2>4, <1>6
<1>10. ASSUME CloseDir PROVE Types' /\ Served'
  <2>3. results' \in Seq(Result) BY <1>1, <1>10, CloseDirDoes, AppendProperties
  <2>4. WorkerFrame /\ worker'.at = "idle" /\ upset' = upset BY <1>10, CloseDirDoes
  <2> QED BY <1>1, <2>3, <2>4, <1>6
<1>11. ASSUME OpenFile PROVE Types' /\ Served'
  <2>3. results' \in Seq(Result) BY <1>1, <1>3, <1>4, <1>11, OpenFileDoes, AppendProperties
  <2>4. WorkerFrame /\ worker.host # None /\ worker'.host = worker.host /\ worker'.at # "mount" /\ upset' = upset
    BY <1>11, OpenFileDoes DEF Served
  <2> QED BY <1>1, <2>3, <2>4, <1>6
<1>12. ASSUME Read PROVE Types' /\ Served'
  <2>1. worker.size <= Size(Remote) BY <1>12 DEF Read, Sized0
  <2>2. upset' \subseteq Upsets BY <1>1, <1>12, <2>1, ReadDoes DEF Upsets
  <2>4. WorkerFrame /\ worker.host # None /\ worker'.host = worker.host /\ worker'.at # "mount" /\ results' = results
    BY <1>12, <2>1, ReadDoes DEF Served
  <2> QED BY <1>1, <2>2, <2>4, <1>6
<1>13. ASSUME CloseFile PROVE Types' /\ Served'
  <2>1. Told("failed", Nowhere) \in Result BY <1>3, <1>4
  <2>2. \E r \in Result : results' = Append(results, r) BY <1>13, <2>1, CloseFileDoes, Hands
  <2>3. results' \in Seq(Result) BY <1>1, <2>2, AppendProperties
  <2>4. WorkerFrame /\ worker'.at = "idle" /\ upset' \subseteq upset \cup {"full"} BY <1>13, CloseFileDoes
  <2>5. upset' \subseteq Upsets BY <1>1, <2>4 DEF Upsets
  <2> QED BY <2>3, <2>4, <2>5, <1>6
<1>14. ASSUME SessionLost PROVE Types' /\ Served'
  <2>4. WorkerFrame /\ worker'.host = worker.host /\ worker'.at = worker.at /\ results' = results /\ upset' = upset
    BY <1>14, LostDoes
  <2> QED BY <1>1, <2>4, <1>6 DEF Served
<1> QED BY <1>5, <1>7, <1>8, <1>9, <1>10, <1>11, <1>12, <1>13, <1>14

(* And so does what the browser hears.                                     *)
LEMMA HearTypes ==
    ASSUME Types, Served, Hearing
    PROVE  Types' /\ Served'
<1>0. requests \in Seq(Request) BY DEF Types
<1>1. ASSUME NEW kind, HearFrame(kind), UNCHANGED requests, shown'.last = Nowhere \/ shown'.last.host # None
      PROVE  Types' /\ Served'
  <2>1. results' \in Seq(Result) BY <1>1, HeadTailProperties DEF HearFrame, Types
  <2> QED BY <1>1, <2>1 DEF HearFrame, Types, Served
<1>2. ASSUME OnOpened PROVE Types' /\ Served' BY <1>1, <1>2, OpenedDoes
<1>3. ASSUME OnListed PROVE Types' /\ Served' BY <1>1, <1>3, ListedDoes
<1>4. ASSUME OnFailed \/ OnDownloaded PROVE Types' /\ Served'
  <2>1. PICK kind : Frees(kind) BY <1>4, FreesDoes
  <2> QED BY <1>1, <2>1 DEF Frees, Served
<1>5. ASSUME OnListFailed PROVE Types' /\ Served'
  <2>1. HearFrame("listFailed") /\ shown'.last = shown.last BY <1>5, ListFailedDoes
  <2>2. CASE UNCHANGED requests BY <1>1, <2>1, <2>2 DEF Served
  <2>3. CASE \E r \in Request : r.do = "reconnect" /\ r.to.host # None /\ requests' = Append(requests, r)
    <3>1. PICK r \in Request : r.do = "reconnect" /\ r.to.host # None /\ requests' = Append(requests, r)
      BY <2>3
    <3>2. requests' \in Seq(Request) /\ \A i \in DOMAIN requests' : \/ i \in DOMAIN requests /\ requests'[i] = requests[i]
                                                                    \/ requests'[i] = r
      BY <1>0, <3>1, Added
    <3>3. \A i \in DOMAIN requests' : Opening(requests'[i]) => requests'[i].to.host # None
      BY <3>1, <3>2 DEF Served
    <3>4. results' \in Seq(Result) BY <2>1, HeadTailProperties DEF HearFrame, Types
    <3> QED BY <2>1, <3>2, <3>3, <3>4 DEF HearFrame, Types, Served
  <2> QED BY <1>5, <2>2, <2>3, ListFailedDoes
<1> QED BY <1>2, <1>3, <1>4, <1>5 DEF Hearing

-----------------------------------------------------------------------------
(* A file may be short when a command or a local write has failed.         *)
Short == "cut" \in upset \/ "full" \in upset

(* The files that were told of are whole,                                  *)
SizedIn(q, short) == \A i \in DOMAIN q : q[i].kind = "downloaded" /\ ~short => q[i].size = Size(q[i].file)

(* and so will be the one under way: what was read is the beginning of     *)
(* what the server has, and is in the local file.                          *)
Sized ==
    /\ SizedIn(results, Short)
    /\ worker.at = "open" => worker.size = 0 /\ worker.saved = 0
    /\ worker.at = "read" => worker.size <= Size(Remote)
    /\ worker.at \in {"read", "close"} /\ "full" \notin upset => worker.saved = worker.size
    /\ worker.at = "close" /\ "cut" \notin upset => worker.size = Size(Remote)

(* The listing under way.                                                  *)
ReadSoFar ==
    /\ worker.at \in {"mount", "opendir"} => worker.got = <<>>
    /\ worker.at = "readdir" => \A i \in 1 .. Len(worker.got) : /\ i <= Len(Directory[worker.job.path])
                                                                /\ worker.got[i] = Directory[worker.job.path][i]
    /\ worker.at = "closedir" /\ "cut" \notin upset => worker.got = Directory[worker.job.path]

(* A result more,                                                          *)
LEMMA SizedMore ==
    ASSUME NEW q \in Seq(Result), NEW r \in Result, NEW cut \in BOOLEAN, SizedIn(q, cut),
           r.kind = "downloaded" /\ ~cut => r.size = Size(r.file)
    PROVE  SizedIn(Append(q, r), cut)
<1>1. \A i \in DOMAIN Append(q, r) : (i \in DOMAIN q /\ Append(q, r)[i] = q[i]) \/ Append(q, r)[i] = r
  BY Added
<1> QED BY <1>1 DEF SizedIn

(* one less,                                                               *)
LEMMA SizedLess == ASSUME NEW q \in Seq(Result), q # <<>>, NEW cut, SizedIn(q, cut) PROVE SizedIn(Tail(q), cut)
<1>1. \A i \in DOMAIN Tail(q) : i + 1 \in DOMAIN q /\ Tail(q)[i] = q[i + 1] BY Taken
<1> QED BY <1>1 DEF SizedIn

(* and a download that was cut short.                                      *)
LEMMA SizedCut == ASSUME NEW q, NEW cut, NEW cut1, SizedIn(q, cut), cut => cut1 PROVE SizedIn(q, cut1)
BY DEF SizedIn

(* The worker stays with its server.                                       *)
LEMMA RemoteSame ==
    ASSUME WorkerFrame, worker'.host = worker.host
    PROVE  Remote' = Remote /\ Listed' = Listed
BY DEF WorkerFrame, Remote, Listed

(* Nothing is listed or downloaded at first.                               *)
LEMMA ProgressInit == Init => Sized /\ ReadSoFar
<1>1. ASSUME Init PROVE results = <<>> /\ worker.at = "idle" BY <1>1 DEF Init
<1>2. \A cut : SizedIn(<<>>, cut) BY DEF SizedIn
<1> QED BY <1>1, <1>2 DEF Sized, ReadSoFar

(* A result that is no file.                                               *)
LEMMA NotAFile ==
    ASSUME Types, Sized, NEW r \in Result, r.kind # "downloaded"
    PROVE  SizedIn(Append(results, r), Short)
<1> DEFINE cut == Short
<1>1. results \in Seq(Result) /\ cut \in BOOLEAN /\ SizedIn(results, cut) BY DEF Types, Sized, Short
<1> HIDE DEF cut, Short
<1>2. SizedIn(Append(results, r), cut) BY <1>1, SizedMore
<1> QED BY <1>2 DEF cut, Short

(* A download has no more than the file, and all of it at its end unless a *)
(* command was given up; a listing has a beginning of the directory, and   *)
(* all of it at its end.                                                   *)
LEMMA WorkerProgress ==
    ASSUME Types, Served, Sized, ReadSoFar,
           TakeRequest \/ Mount \/ OpenDir \/ ReadDir \/ CloseDir \/ OpenFile \/ Read \/ CloseFile \/ SessionLost
    PROVE  Sized' /\ ReadSoFar'
<1> DEFINE cut == Short
<1>1. results \in Seq(Result) /\ cut \in BOOLEAN /\ SizedIn(results, cut) BY DEF Types, Sized, Short
<1>2. worker \in Worker /\ worker.job \in Request /\ worker.job.to \in Place /\ worker.job.path \in Paths
      /\ Listed \in Place /\ worker.got \in Seq(Names) /\ Going \in Place
  BY Records, RemoteIs, GoingIs DEF Types
<1>3. \A p \in Place, k \in {"opened", "failed", "listFailed"} : Told(k, p) \in Result /\ Told(k, p).kind = k
  <2>1. ASSUME NEW p \in Place, NEW k \in {"opened", "failed", "listFailed"}
        PROVE  Told(k, p) \in Result /\ Told(k, p).kind = k
    <3>1. k \in {"opened", "listed", "failed", "listFailed", "downloaded"} OBVIOUS
    <3>2. Told(k, p) \in Result BY <3>1, Tells, Zenon
    <3>3. Told(k, p).kind = k BY DEF Told
    <3> QED BY <3>2, <3>3
  <2> QED BY <2>1
<1>4. Nowhere \in Place /\ \A p \in Paths : [Nowhere EXCEPT !.path = p] \in Place BY Made
<1>5. \A r \in Result : r.kind # "downloaded" => SizedIn(Append(results, r), cut) BY NotAFile
<1>6. Size(Remote) \in Nat BY RemoteIs, Sizes
<1> HIDE DEF cut, Short
<1>7. ASSUME TakeRequest PROVE Sized' /\ ReadSoFar'
  <2> DEFINE job == requests[1]
             f == Told("failed", Nowhere)
             l == Told("listFailed", [Nowhere EXCEPT !.path = job.path])
  <2>1. job \in Request /\ Takes(job, worker') /\ upset' = upset BY <1>7, TakeDoes
  <2>2. job.path \in Paths BY <2>1, Records
  <2>3. f \in Result /\ f.kind # "downloaded" /\ l \in Result /\ l.kind # "downloaded"
    BY <2>2, <1>3, <1>4
  <2>4. results' = results \/ results' = Append(results, f) \/ results' = Append(results, l)
    BY <2>1 DEF Takes
  <2>5. worker'.at \in {"idle", "mount", "opendir", "open"} /\ worker'.got = <<>> /\ worker'.size = 0
        /\ worker'.saved = 0
    BY <2>1 DEF Takes
  <2> HIDE DEF job, f, l
  <2>6. SizedIn(results', cut) BY <1>1, <1>5, <2>3, <2>4
  <2>7. SizedIn(results, Short)' BY <2>1, <2>6 DEF cut, Short
  <2>8. Sized' BY <2>5, <2>7 DEF Sized
  <2>9. ReadSoFar' BY <2>5 DEF ReadSoFar
  <2> QED BY <2>8, <2>9
<1>8. ASSUME Mount PROVE Sized' /\ ReadSoFar'
  <2> DEFINE o == Told("opened", Going)
             f == Told("failed", Nowhere)
             l == Told("listFailed", [Nowhere EXCEPT !.path = worker.job.path])
  <2>1. /\ o \in Result /\ f \in Result /\ l \in Result
        /\ o.kind # "downloaded" /\ f.kind # "downloaded" /\ l.kind # "downloaded"
    BY <1>2, <1>3, <1>4
  <2>2. results' \in {Append(results, o), Append(results, f), Append(Append(results, f), l)}
    BY <1>8, MountDoes
  <2>3. worker.at = "mount" /\ worker'.at \in {"opendir", "idle"} /\ worker'.got = worker.got
    BY <1>8, MountDoes
  <2>4. upset' = upset \/ upset' = upset \cup {"refused"} BY <1>8, MountDoes
  <2> HIDE DEF o, f, l
  <2>5. SizedIn(Append(results, o), cut) /\ SizedIn(Append(results, f), cut) BY <2>1, <1>5
  <2>6. Append(results, f) \in Seq(Result) BY <1>1, <2>1, AppendProperties
  <2>7. SizedIn(Append(Append(results, f), l), cut) BY <1>1, <2>1, <2>5, <2>6, SizedMore
  <2>8. SizedIn(results', cut) BY <2>2, <2>5, <2>7
  <2>9. Short' = cut BY <2>4 DEF cut, Short
  <2>10. SizedIn(results, Short)' BY <2>8, <2>9
  <2>11. Sized' BY <2>3, <2>10 DEF Sized
  <2>12. ReadSoFar' BY <2>3 DEF ReadSoFar
  <2> QED BY <2>11, <2>12
<1>9. ASSUME OpenDir PROVE Sized' /\ ReadSoFar'
  <2> DEFINE l == Told("listFailed", Listed)
  <2>1. l \in Result /\ l.kind # "downloaded" BY <1>2, <1>3
  <2>2. results' = results \/ results' = Append(results, l) BY <1>9, OpenDirDoes
  <2>3. worker.at = "opendir" /\ worker'.at \in {"readdir", "idle"} /\ worker'.got = worker.got /\ upset' = upset
    BY <1>9, OpenDirDoes
  <2> HIDE DEF l
  <2>4. SizedIn(results, Short)' BY <1>1, <1>5, <2>1, <2>2, <2>3 DEF cut, Short
  <2>5. Sized' BY <2>3, <2>4 DEF Sized
  <2>6. worker'.got = <<>> BY <2>3 DEF ReadSoFar
  <2>7. ReadSoFar' BY <2>3, <2>6 DEF ReadSoFar
  <2> QED BY <2>5, <2>7
<1>10. ASSUME ReadDir PROVE Sized' /\ ReadSoFar'
  <2> DEFINE d == Directory[worker.job.path]
  <2>1. WorkerFrame /\ worker.at = "readdir" /\ results' = results BY <1>10, ReadDirDoes
  <2>2. d \in Seq(Names) /\ Len(d) = 2 BY <1>2, Directories
  <2>3. Directory[worker'.job.path] = d BY <2>1 DEF WorkerFrame
  <2>4. \A i \in 1 .. Len(worker.got) : i <= Len(d) /\ worker.got[i] = d[i] BY <2>1 DEF ReadSoFar
  <2>5. Len(worker.got) \in Nat BY <1>2
  <2>s. SizedIn(results, Short)'
    <3>1. upset' = upset \/ upset' = upset \cup {"cut"} BY <1>10, ReadDirDoes
    <3>2. Short => Short' BY <3>1 DEF Short
    <3> QED BY <1>1, <2>1, <3>2, SizedCut DEF cut, Short
  <2>t. worker'.at \in {"readdir", "closedir"} BY <1>10, ReadDirDoes
  <2>u. Sized' BY <2>s, <2>t DEF Sized
  <2>6. CASE /\ Len(worker.got) < Len(d) /\ worker'.at = "readdir"
             /\ worker'.got = Append(worker.got, d[Len(worker.got) + 1])
    <3> HIDE DEF d
    <3>1. Len(worker.got) + 1 \in 1 .. Len(d) BY <2>2, <2>5, <2>6
    <3>2. d[Len(worker.got) + 1] \in Names BY <2>2, <3>1, ElementOfSeq
    <3>3. \A i \in 1 .. Len(worker'.got) : i <= Len(d) /\ worker'.got[i] = d[i]
      BY <1>2, <2>4, <2>6, <3>1, <3>2, AppendProperties
    <3>4. ReadSoFar' BY <2>3, <2>6, <3>3 DEF ReadSoFar
    <3> QED BY <3>4, <2>u
  <2>7. CASE Len(worker.got) >= Len(d) /\ worker'.at = "closedir" /\ worker'.got = worker.got
    <3> HIDE DEF d
    <3>a. Len(worker.got) \in 1 .. Len(worker.got) BY <2>2, <2>5, <2>7
    <3>b. Len(worker.got) <= Len(d) BY <2>4, <3>a
    <3>c. Len(d) \in Nat /\ Len(worker.got) >= Len(d) BY <2>2, <2>7
    <3>d. \A m, k \in Nat : m >= k /\ m <= k => m = k OBVIOUS
    <3>1. Len(worker.got) = Len(d) BY <2>5, <3>b, <3>c, <3>d
    <3>2. \A i \in 1 .. Len(d) : worker.got[i] = d[i] BY <2>4, <3>1
    <3>3. worker.got = d BY <1>2, <2>2, <3>1, <3>2, SeqEqual
    <3>4. ReadSoFar' BY <2>3, <2>7, <3>3 DEF ReadSoFar
    <3> QED BY <3>4, <2>u
  <2>8. CASE worker'.at = "closedir" /\ upset' = upset \cup {"cut"}
    <3>1. ReadSoFar' BY <2>8 DEF ReadSoFar
    <3> QED BY <3>1, <2>u
  <2> QED BY <1>10, <2>6, <2>7, <2>8, ReadDirDoes
<1>11. ASSUME CloseDir PROVE Sized' /\ ReadSoFar'
  <2> DEFINE r == [Told("listed", Listed) EXCEPT !.got = worker.got]
  <2>1. r \in Result /\ results' = Append(results, r) /\ worker'.at = "idle" /\ upset' = upset
    BY <1>11, CloseDirDoes
  <2>2. r.kind = "listed" BY DEF Told
  <2> HIDE DEF r
  <2>3. SizedIn(results, Short)' BY <1>5, <2>1, <2>2 DEF cut, Short
  <2> QED BY <2>1, <2>3 DEF Sized, ReadSoFar
<1>12. ASSUME OpenFile PROVE Sized' /\ ReadSoFar'
  <2> DEFINE f == Told("failed", Nowhere)
  <2>1. f \in Result /\ f.kind # "downloaded" BY <1>3, <1>4
  <2>2. results' = results \/ results' = Append(results, f) BY <1>12, OpenFileDoes
  <2>3. /\ WorkerFrame /\ worker'.host = worker.host
        /\ worker.at = "open" /\ worker'.at \in {"read", "idle"} /\ worker'.size = worker.size
        /\ worker'.saved = worker.saved /\ upset' = upset
    BY <1>12, OpenFileDoes
  <2> HIDE DEF f
  <2>4. SizedIn(results, Short)' BY <1>1, <1>5, <2>1, <2>2, <2>3 DEF cut, Short
  <2>5. worker'.size <= Size(Remote') /\ worker'.saved = worker'.size
    BY <2>3, <1>6, RemoteSame DEF Sized
  <2>6. Sized' BY <2>3, <2>4, <2>5 DEF Sized
  <2>7. ReadSoFar' BY <2>3 DEF ReadSoFar
  <2> QED BY <2>6, <2>7
<1>13. ASSUME Read PROVE Sized' /\ ReadSoFar'
  <2>1. worker.at = "read" /\ worker.size <= Size(Remote) BY <1>13 DEF Read, Sized
  <2>2. WorkerFrame /\ worker'.host = worker.host /\ results' = results BY <1>13, <2>1, ReadDoes
  <2>3. \/ /\ worker'.at = "read" /\ worker'.size <= Size(Remote)
           /\ upset' = upset \/ upset' = upset \cup {"full"}
        \/ /\ worker'.at = "close" /\ worker'.size = Size(Remote)
           /\ upset' = upset \/ upset' = upset \cup {"full"}
        \/ worker'.at = "close" /\ upset' = upset \cup {"cut"}
    BY <1>13, <2>1, ReadDoes
  <2>4. Remote' = Remote BY <2>2, RemoteSame
  <2>5. Short => Short' BY <2>3 DEF Short
  <2>6. SizedIn(results, Short)' BY <1>1, <2>2, <2>5, SizedCut DEF cut
  <2>7. "full" \notin upset' => worker'.saved = worker'.size
    <3>1. "full" \in upset' \/ (upset \subseteq upset' /\ (worker.saved = worker.size => worker'.saved = worker'.size))
      BY <1>13, <2>1, ReadDoes
    <3> QED BY <2>1, <3>1 DEF Sized
  <2>8. Sized' BY <2>3, <2>4, <2>6, <2>7 DEF Sized
  <2>9. ReadSoFar' BY <2>3 DEF ReadSoFar
  <2> QED BY <2>8, <2>9
<1>14. ASSUME CloseFile PROVE Sized' /\ ReadSoFar'
  <2> DEFINE f == Told("failed", Nowhere)
  <2>1. f \in Result /\ f.kind # "downloaded" BY <1>3, <1>4
  <2>2. \/ results' = Append(results, f)
        \/ \E n \in Nat : results' = Append(results, Fetched(n)) /\ (n = worker.saved \/ "full" \in upset')
    BY <1>14, CloseFileDoes
  <2>3. /\ worker.at = "close" /\ worker'.at = "idle"
        /\ upset \subseteq upset' /\ upset' \subseteq upset \cup {"full"}
    BY <1>14, CloseFileDoes
  <2>4. Short => Short' BY <2>3 DEF Short
  <2> DEFINE short == Short'
  <2>5. short \in BOOLEAN /\ SizedIn(results, short) BY <1>1, <2>4, SizedCut DEF Short, cut
  <2>6. ASSUME NEW n \in Nat, n = worker.saved \/ "full" \in upset', ~short PROVE n = Size(Remote)
    <3>1. "cut" \notin upset /\ "full" \notin upset' BY <2>3, <2>6 DEF Short
    <3>2. "full" \notin upset BY <2>3, <3>1
    <3> QED BY <2>3, <2>6, <3>1, <3>2 DEF Sized
  <2> HIDE DEF f, short
  <2>7. ASSUME results' = Append(results, f) PROVE SizedIn(results', short)
    BY <1>1, <2>1, <2>5, <2>7, SizedMore
  <2>8. ASSUME \E n \in Nat : results' = Append(results, Fetched(n)) /\ (n = worker.saved \/ "full" \in upset')
        PROVE  SizedIn(results', short)
    <3>1. PICK n \in Nat : results' = Append(results, Fetched(n)) /\ (n = worker.saved \/ "full" \in upset')
      BY <2>8
    <3>2. Fetched(n) \in Result /\ Fetched(n).file = Remote /\ Fetched(n).size = n BY Hands
    <3>3. ~short => Fetched(n).size = Size(Fetched(n).file) BY <2>6, <3>1, <3>2
    <3>4. SizedIn(Append(results, Fetched(n)), short) BY <1>1, <2>5, <3>2, <3>3, SizedMore
    <3> QED BY <3>1, <3>4
  <2>9. SizedIn(results', short) BY <2>2, <2>7, <2>8
  <2> QED BY <2>3, <2>9 DEF Sized, ReadSoFar, short
<1>15. ASSUME SessionLost PROVE Sized' /\ ReadSoFar'
  <2>1. /\ WorkerFrame /\ worker'.at = worker.at /\ worker'.host = worker.host /\ worker'.got = worker.got
        /\ worker'.size = worker.size /\ worker'.saved = worker.saved /\ results' = results /\ upset' = upset
    BY <1>15, LostDoes
  <2>2. Remote' = Remote /\ worker'.job = worker.job BY <2>1, RemoteSame DEF WorkerFrame
  <2>3. Sized' BY <2>1, <2>2 DEF Sized, Short
  <2>4. ReadSoFar' BY <2>1, <2>2 DEF ReadSoFar
  <2> QED BY <2>3, <2>4
<1> QED BY <1>7, <1>8, <1>9, <1>10, <1>11, <1>12, <1>13, <1>14, <1>15

(* Neither the user nor what the browser hears touches the worker.         *)
LEMMA OtherProgress ==
    ASSUME Types, Served, Sized, ReadSoFar, Open \/ Close \/ Up \/ Enter \/ Download \/ Hearing
    PROVE  Sized' /\ ReadSoFar'
<1>1. worker' = worker /\ ("cut" \in upset' <=> "cut" \in upset) /\ ("full" \in upset' <=> "full" \in upset)
      /\ (results' = results \/ (results # <<>> /\ results' = Tail(results)))
  <2>1. CASE Open \/ Close \/ Up \/ Enter \/ Download
    <3>1. PICK r : User(r) BY <2>1 DEF Open, Close, Up, Enter, Download
    <3> QED BY <3>1 DEF User
  <2>2. CASE Hearing
    <3>1. PICK kind : Hear(kind)
      BY <2>2 DEF Hearing, OnOpened, OnListed, OnFailed, OnListFailed, OnDownloaded
    <3> QED BY <3>1 DEF Hear
  <2> QED BY <2>1, <2>2
<1>2. Remote' = Remote BY <1>1 DEF Remote, Listed
<1>3. SizedIn(results', Short) BY <1>1, SizedLess DEF Sized, Types
<1>4. SizedIn(results, Short)' BY <1>1, <1>3 DEF Short
<1>5. Sized' BY <1>1, <1>2, <1>4 DEF Sized
<1>6. ReadSoFar' BY <1>1 DEF ReadSoFar
<1> QED BY <1>5, <1>6

-----------------------------------------------------------------------------
(* What is shown was listed by the server the worker is connected to,      *)
Fits == shown.listing # <<>> => shown.of = [host |-> worker.host, path |-> shown.path]

(* and is what the browser says it shows.                                  *)
Shows == shown.connected =>
    worker.host = shown.host /\ shown.of = Here /\ shown.listing = Directory[shown.path]

(* Both; the second unless something went wrong with the servers.          *)
Good == Fits /\ (upset \subseteq {"full"} => Shows)

(* The listing that is on its way is of the server the browser names.      *)
SameHost == upset \subseteq {"full"} /\ shown.connected => shown.host = worker.host

(* The file that was clicked is the one the worker will find.              *)
Clicked(r) == r.do = "download" => r.want.host = worker.host /\ r.want.path = r.path

(* The stages of the one request: none,                                    *)
Quiet == Rest /\ ~shown.busy /\ Good

(* in the queue,                                                           *)
Waiting ==
    /\ worker.at = "idle" /\ results = <<>> /\ Len(requests) = 1
    /\ requests[1].do \in {"open", "close"} => shown.listing = <<>>
    /\ requests[1].do = "close" => ~shown.connected /\ ~shown.busy
    /\ requests[1].do \in {"list", "download"} => Good
    /\ Clicked(requests[1])

(* with the worker,                                                        *)
Working ==
    /\ worker.at # "idle" /\ requests = <<>>
    /\ worker.at = "mount" => Opening(worker.job) /\ results = <<>>
    /\ worker.at = "mount" /\ worker.job.do = "open" => shown.listing = <<>>
    /\ worker.at \in {"opendir", "readdir", "closedir"} => Opening(worker.job) \/ worker.job.do = "list"
    /\ worker.at \in {"open", "read", "close"} => worker.job.do = "download"
    /\ worker.job.do \in {"list", "download"} => Good /\ results = <<>>
    /\ Clicked(worker.job)
    /\ Opening(worker.job) /\ worker.at # "mount" =>
          \/ Len(results) = 1 /\ results[1].kind = "opened" /\ results[1].place.host = worker.host
          \/ results = <<>> /\ shown.host = worker.host

(* answered.                                                               *)
Final(r) ==
    /\ r.kind # "opened"
    /\ r.kind = "listed" => r.place.host = worker.host
    /\ r.kind = "listed" /\ "cut" \notin upset => r.got = Directory[r.place.path]
    /\ r.kind = "downloaded" => r.file = r.want
    /\ r.kind \in {"failed", "downloaded"} => Good

(* The answer is queued, alone or after that of the server.                *)
Replied ==
    /\ worker.at = "idle" /\ requests = <<>>
    /\ \/ Len(results) = 1 /\ Final(results[1]) /\ (results[1].kind = "listed" => SameHost)
       \/ /\ Len(results) = 2 /\ results[1].kind = "opened" /\ results[1].place.host = worker.host
          /\ results[2].kind \in {"listed", "listFailed"} /\ Final(results[2])
       \/ Len(results) = 2 /\ results[1].kind = "failed" /\ results[2].kind = "listFailed"

(* What the invariant says of the order of things: while nothing was asked *)
(* for too early, one request is under way at most, and it is at one of    *)
(* these stages.                                                           *)
OneAtATime == "late" \notin upset => Quiet \/ Waiting \/ Working \/ Replied

(* At first nothing is under way.                                          *)
LEMMA OneInit == Init => OneAtATime
<1>1. ASSUME Init PROVE Quiet BY <1>1 DEF Init, Quiet, Rest, Good, Fits, Shows
<1> QED BY <1>1 DEF OneAtATime

(* What is shown fits as long as neither it nor the worker's server        *)
(* changes.                                                                *)
LEMMA GoodStays ==
    ASSUME Good, worker'.host = worker.host, shown'.connected = shown.connected, shown'.host = shown.host,
           shown'.path = shown.path, shown'.listing = shown.listing, shown'.of = shown.of, upset \subseteq upset'
    PROVE  Good'
BY DEF Good, Fits, Shows, Here

(* Nothing shown, and not connected: nothing to fit.                       *)
LEMMA EmptyGood ==
    ASSUME shown'.listing = <<>>, ~shown'.connected
    PROVE  Good'
BY DEF Good, Fits, Shows

(* A request of the user: unless it is late, there was nothing under way.  *)
LEMMA UserAlone ==
    ASSUME Types, OneAtATime, NEW r \in Request, User(r), "late" \notin upset'
    PROVE  /\ Quiet /\ UNCHANGED <<worker, upset>> /\ results' = <<>> /\ Len(requests') = 1 /\ requests'[1] = r
           /\ worker'.at = "idle"
<1>1. Rest /\ "late" \notin upset /\ upset' = upset /\ UNCHANGED <<worker, results>> /\ requests' = Append(requests, r)
  BY DEF User
<1>2. requests = <<>> /\ results = <<>> /\ worker.at = "idle" BY <1>1 DEF Rest
<1>3. Quiet BY <1>1, <1>2, EmptySeq DEF OneAtATime, Waiting, Working, Replied
<1>4. Len(requests') = 1 /\ requests'[1] = r BY <1>1, <1>2
<1> QED BY <1>1, <1>2, <1>3, <1>4

(* Every request of the user.                                              *)
LEMMA AskingOne ==
    ASSUME Types, OneAtATime, Open \/ Close \/ Up \/ Enter \/ Download
    PROVE  OneAtATime'
<1> SUFFICES ASSUME "late" \notin upset' PROVE Waiting' BY DEF OneAtATime
<1>1. "root" \in Paths /\ "sub" \in Paths /\ Nowhere \in Place /\ NoFile \in Files
  BY Directories, Made
<1>2. shown \in Shown /\ shown.path \in Paths /\ shown.of \in Place /\ shown.listing \in Seq(Names)
  BY Records DEF Types
<1>3. ASSUME Open PROVE Waiting'
  <2>1. PICK h \in Hosts : /\ User(Ask("open", [host |-> h, path |-> "root"], "root", NoFile))
                           /\ shown' = [shown EXCEPT !.listing = <<>>, !.of = Nowhere, !.busy = TRUE]
    BY <1>3 DEF Open
  <2> DEFINE r == Ask("open", [host |-> h, path |-> "root"], "root", NoFile)
  <2>2. r \in Request /\ User(r) BY <2>1, <1>1, Made, Asked
  <2>3. r.do = "open" BY DEF Ask
  <2>4. shown'.listing = <<>> BY <1>2, <2>1 DEF Shown
  <2> HIDE DEF r
  <2>5. results' = <<>> /\ Len(requests') = 1 /\ requests'[1] = r /\ worker'.at = "idle"
    BY <2>2, UserAlone
  <2> QED BY <2>3, <2>4, <2>5 DEF Waiting, Clicked
<1>4. ASSUME Close PROVE Waiting'
  <2> DEFINE r == Ask("close", Nowhere, "root", NoFile)
  <2>2. r \in Request /\ User(r) BY <1>1, <1>4, Asked DEF Close
  <2>3. r.do = "close" BY DEF Ask
  <2>4. shown'.listing = <<>> /\ shown'.connected = FALSE /\ shown'.busy = FALSE
    BY <1>2, <1>4 DEF Close, Shown
  <2> HIDE DEF r
  <2>5. results' = <<>> /\ Len(requests') = 1 /\ requests'[1] = r /\ worker'.at = "idle"
    BY <2>2, UserAlone
  <2> QED BY <2>3, <2>4, <2>5 DEF Waiting, Clicked
<1>5. ASSUME shown' = [shown EXCEPT !.busy = TRUE], NEW r \in Request, User(r), r.do \in {"list", "download"},
             Quiet => Clicked(r)
      PROVE  Waiting'
  <2>1. /\ Quiet /\ UNCHANGED <<worker, upset>> /\ results' = <<>> /\ Len(requests') = 1 /\ requests'[1] = r
        /\ worker'.at = "idle"
    BY <1>5, UserAlone
  <2>2. /\ shown'.connected = shown.connected /\ shown'.host = shown.host
        /\ shown'.path = shown.path /\ shown'.listing = shown.listing /\ shown'.of = shown.of
    BY <1>2, <1>5 DEF Shown
  <2>3. Good' BY <2>1, <2>2, GoodStays DEF Quiet
  <2>4. requests'[1] = r /\ Clicked(r) BY <2>1, <1>5
  <2>5. Clicked(requests[1])' BY <2>1, <2>4 DEF Clicked
  <2>6. requests'[1].do \in {"list", "download"} BY <2>1, <1>5
  <2> QED BY <2>1, <2>3, <2>5, <2>6 DEF Waiting
<1>6. ASSUME Up \/ Enter PROVE Waiting'
  <2>1. PICK p \in Paths : User(Ask("list", Nowhere, p, NoFile)) BY <1>1, <1>6 DEF Up, Enter
  <2> DEFINE r == Ask("list", Nowhere, p, NoFile)
  <2>2. r \in Request /\ User(r) BY <2>1, <1>1, Asked
  <2>3. r.do = "list" BY DEF Ask
  <2>4. shown' = [shown EXCEPT !.busy = TRUE] BY <1>6 DEF Up, Enter
  <2> HIDE DEF r
  <2>5. Clicked(r) BY <2>3 DEF Clicked
  <2> QED BY <2>2, <2>3, <2>4, <2>5, <1>5
<1>7. ASSUME Download PROVE Waiting'
  <2>1. PICK name \in {"disk", "extra"} :
            /\ Rows(name) /\ User(Ask("download", Nowhere, shown.path, File(shown.of, name)))
            /\ shown' = [shown EXCEPT !.busy = TRUE]
    BY <1>7 DEF Download
  <2> DEFINE r == Ask("download", Nowhere, shown.path, File(shown.of, name))
  <2>2. r \in Request BY <1>1, <1>2, Made, Asked
  <2>3. /\ r.do = "download" /\ r.path = shown.path
        /\ r.want.host = shown.of.host /\ r.want.path = shown.of.path
    BY DEF Ask, File
  <2>4. shown.listing # <<>> BY <2>1, <1>2 DEF Rows, Contains
  <2>5. User(r) BY <2>1
  <2> HIDE DEF r
  <2>6. Quiet => Clicked(r) BY <2>3, <2>4 DEF Clicked, Quiet, Good, Fits
  <2> QED BY <2>1, <2>2, <2>3, <2>5, <2>6, <1>5
<1> QED BY <1>3, <1>4, <1>6, <1>7

(* The worker takes the only request.                                      *)
LEMMA TakeOne ==
    ASSUME Types, OneAtATime, TakeRequest
    PROVE  OneAtATime'
<1> SUFFICES ASSUME "late" \notin upset' PROVE (Quiet \/ Waiting \/ Working \/ Replied)'
  BY DEF OneAtATime
<1> DEFINE job == requests[1]
           f == Told("failed", Nowhere)
           l == Told("listFailed", [Nowhere EXCEPT !.path = job.path])
<1>1. /\ worker.at = "idle" /\ requests # <<>> /\ requests' = Tail(requests) /\ job \in Request
      /\ Takes(job, worker') /\ UNCHANGED <<shown, upset>>
  BY TakeDoes
<1>2. Waiting BY <1>1 DEF OneAtATime, Quiet, Rest, Working, Replied
<1>3. requests' = <<>>
  <2>1. Len(requests') = 0 /\ requests' \in Seq(Request)
    BY <1>1, <1>2, Taken DEF Types, Waiting
  <2> QED BY <2>1, EmptySeq
<1>4. results = <<>> /\ results \in Seq(Result) BY <1>2 DEF Waiting, Types
<1>5. job.path \in Paths BY <1>1, Records
<1>6. f \in Result /\ f.kind = "failed" /\ l \in Result /\ l.kind = "listFailed"
  BY <1>5, Made, Tells
<1>7. worker' \in Worker /\ worker'.job = job BY <1>1 DEF Takes
<1> HIDE DEF job, f, l
<1>8. /\ job.do \in {"open", "close"} => shown.listing = <<>>
      /\ job.do = "close" => ~shown.connected /\ ~shown.busy
      /\ job.do \in {"list", "download"} => Good
      /\ Clicked(job)
  BY <1>2 DEF Waiting, job
<1>9. ASSUME worker'.host = worker.host, Good PROVE Good' BY <1>1, <1>9, GoodStays
<1>10. CASE job.do = "close" /\ worker'.at = "idle" /\ results' = results
  <2>1. Good' BY <1>1, <1>8, <1>10, EmptyGood
  <2>2. Quiet' BY <1>1, <1>3, <1>4, <1>8, <1>10, <2>1 DEF Quiet, Rest
  <2> QED BY <2>2
<1>11. CASE Opening(job) /\ worker'.at = "mount" /\ results' = results
  <2>1. Clicked(worker.job)' BY <1>7, <1>11 DEF Clicked, Opening
  <2>2. Working' BY <1>1, <1>3, <1>4, <1>7, <1>8, <1>11, <2>1 DEF Working, Opening
  <2> QED BY <2>2
<1>12. CASE job.do = "list" /\ worker'.at = "idle" /\ results' = Append(results, l)
  <2>1. Len(results') = 1 /\ results'[1] = l BY <1>4, <1>12
  <2>2. Final(results[1])' /\ results'[1].kind # "listed" BY <2>1, <1>6 DEF Final
  <2>3. Replied' BY <1>3, <1>12, <2>1, <2>2 DEF Replied
  <2> QED BY <2>3
<1>13. CASE /\ job.do = "download" /\ worker'.at = "idle" /\ worker'.host = worker.host
            /\ results' = Append(results, f)
  <2>1. Len(results') = 1 /\ results'[1] = f BY <1>4, <1>13
  <2>2. Good' BY <1>8, <1>9, <1>13
  <2>3. Final(results[1])' /\ results'[1].kind # "listed" BY <2>1, <2>2, <1>6 DEF Final
  <2>4. Replied' BY <1>3, <1>13, <2>1, <2>3 DEF Replied
  <2> QED BY <2>4
<1>14. CASE /\ \/ job.do = "list" /\ worker'.at = "opendir"
               \/ job.do = "download" /\ worker'.at = "open"
            /\ worker'.host = worker.host /\ results' = results
  <2>1. Good' BY <1>8, <1>9, <1>14
  <2>2. Clicked(worker.job)' BY <1>7, <1>8, <1>14 DEF Clicked
  <2>3. Working' BY <1>3, <1>4, <1>7, <1>14, <2>1, <2>2 DEF Working, Opening
  <2> QED BY <2>3
<1> QED BY <1>1, <1>10, <1>11, <1>12, <1>13, <1>14 DEF Takes, l, f

(* A worker that is busy has the only request.                             *)
LEMMA WorkingIs ==
    ASSUME OneAtATime, "late" \notin upset, worker.at # "idle"
    PROVE  Working
BY DEF OneAtATime, Quiet, Rest, Waiting, Replied

(* The only result that can wait while the worker is busy: its server has  *)
(* answered.                                                               *)
LEMMA WorkingShape ==
    ASSUME Types, Working
    PROVE  \/ results = <<>>
           \/ /\ Opening(worker.job) /\ worker.at # "mount" /\ Len(results) = 1
              /\ results[1].kind = "opened" /\ results[1].place.host = worker.host
<1>1. worker.at \in {"idle", "mount", "opendir", "readdir", "closedir", "open", "read", "close"}
  BY Records DEF Types
<1>2. CASE worker.job.do \in {"list", "download"} BY <1>2 DEF Working
<1>3. CASE worker.at = "mount" BY <1>3 DEF Working
<1>4. CASE worker.job.do \notin {"list", "download"} /\ worker.at # "mount"
  <2>1. Opening(worker.job) BY <1>1, <1>4 DEF Working
  <2> QED BY <1>4, <2>1 DEF Working
<1> QED BY <1>2, <1>3, <1>4

(* It stays busy with it.                                                  *)
LEMMA StillWorking ==
    ASSUME Working, WorkerFrame, worker'.host = worker.host, upset \subseteq upset', results' = results,
           \/ worker'.at = worker.at
           \/ /\ worker.at \in {"opendir", "readdir", "closedir"}
              /\ worker'.at \in {"opendir", "readdir", "closedir"}
           \/ worker.at \in {"open", "read", "close"} /\ worker'.at \in {"open", "read", "close"}
    PROVE  Working'
<1>1. worker'.job = worker.job /\ UNCHANGED <<shown, requests>> BY DEF WorkerFrame
<1>2. ASSUME Good PROVE Good' BY <1>1, <1>2, GoodStays
<1>3. Clicked(worker.job)' BY <1>1 DEF Working, Clicked
<1>4. worker.job.do \in {"list", "download"} => Good' /\ results' = <<>> BY <1>2 DEF Working
<1>5. /\ worker'.at # "idle" /\ requests' = <<>>
      /\ worker'.at = "mount" => worker.at = "mount"
      /\ worker'.at # "mount" => worker.at # "mount"
      /\ worker'.at \in {"opendir", "readdir", "closedir"} => worker.at \in {"opendir", "readdir", "closedir"}
      /\ worker'.at \in {"open", "read", "close"} => worker.at \in {"open", "read", "close"}
  BY <1>1 DEF Working
<1> QED BY <1>1, <1>3, <1>4, <1>5 DEF Working

(* Two results.                                                            *)
LEMMA Pair == ASSUME NEW a, NEW b PROVE Append(<<a>>, b) = <<a, b>>
<1> DEFINE S == {a, b}
           p == Append(<<a>>, b)
           q == <<a, b>>
<1>1. <<a>> \in Seq(S) /\ q \in Seq(S) /\ Len(<<a>>) = 1 /\ Len(q) = 2 OBVIOUS
<1>2. p \in Seq(S) /\ Len(p) = 2 /\ p[1] = <<a>>[1] /\ p[2] = b BY <1>1, AppendProperties
<1>3. \A i \in 1 .. Len(p) : p[i] = q[i] BY <1>2
<1>4. Len(p) = Len(q) BY <1>1, <1>2
<1> HIDE DEF p, q
<1>5. p = q BY <1>1, <1>2, <1>3, <1>4, SeqEqual
<1> QED BY <1>5 DEF p, q

(* The server answers, or does not.                                        *)
LEMMA MountOne ==
    ASSUME Types, Served, OneAtATime, Mount
    PROVE  OneAtATime'
<1> SUFFICES ASSUME "late" \notin upset' PROVE (Working \/ Replied)' BY DEF OneAtATime
<1> DEFINE o == Told("opened", Going)
           f == Told("failed", Nowhere)
           l == Told("listFailed", [Nowhere EXCEPT !.path = worker.job.path])
<1>1. worker.at = "mount" /\ WorkerFrame BY MountDoes
<1>2. \/ /\ worker'.at = "opendir" /\ worker'.host = worker.job.to.host /\ upset' = upset
         /\ results' = Append(results, o)
      \/ /\ worker'.at = "idle" /\ worker'.host = worker.host /\ worker.job.do # "reconnect"
         /\ results' = Append(results, f) /\ upset' = upset \cup {"refused"}
      \/ /\ worker'.at = "idle" /\ worker'.host = worker.host /\ upset' = upset
         /\ results' = Append(Append(results, f), l)
  BY MountDoes
<1>3. "late" \notin upset BY <1>2
<1>4. Working BY <1>1, <1>3, WorkingIs
<1>5. Opening(worker.job) /\ results = <<>> /\ requests = <<>> BY <1>1, <1>4 DEF Working
<1>6. UNCHANGED <<shown, requests>> /\ worker'.job = worker.job BY <1>1 DEF WorkerFrame
<1>7. worker.job.to \in Place /\ worker.job.path \in Paths BY Records DEF Types
<1>a. o \in Result /\ o.kind = "opened" /\ o.place.host = worker.job.to.host
  <2>1. o \in Result BY GoingIs, Tells
  <2>2. o.kind = "opened" /\ o.place = Going BY DEF Told
  <2> QED BY <2>1, <2>2, GoingIs
<1>b. f \in Result /\ f.kind = "failed" BY Made, Tells
<1>c. [Nowhere EXCEPT !.path = worker.job.path] \in Place BY <1>7, Made
<1>d. l \in Result /\ l.kind = "listFailed" BY <1>c, Tells
<1>8. /\ o \in Result /\ o.kind = "opened" /\ o.place.host = worker.job.to.host /\ f \in Result /\ f.kind = "failed"
      /\ l \in Result /\ l.kind = "listFailed"
  BY <1>a, <1>b, <1>d
<1> HIDE DEF o, f, l
<1>9. CASE /\ worker'.at = "opendir" /\ worker'.host = worker.job.to.host
           /\ results' = Append(results, o)
  <2>1. Len(results') = 1 /\ results'[1] = o BY <1>5, <1>9
  <2>2. Clicked(worker.job)' BY <1>5, <1>6 DEF Clicked, Opening
  <2>3. Working' BY <1>5, <1>6, <1>8, <1>9, <2>1, <2>2 DEF Working, Opening
  <2> QED BY <2>3
<1>10. CASE /\ worker'.at = "idle" /\ worker'.host = worker.host /\ worker.job.do # "reconnect"
            /\ results' = Append(results, f) /\ upset' = upset \cup {"refused"}
  <2>1. Len(results') = 1 /\ results'[1] = f BY <1>5, <1>10
  <2>2. shown'.listing = <<>> BY <1>1, <1>4, <1>5, <1>6, <1>10 DEF Working, Opening
  <2>3. ~(upset' \subseteq {"full"}) BY <1>10
  <2>4. Good' BY <2>2, <2>3 DEF Good, Fits
  <2>5. Final(results[1])' /\ results'[1].kind # "listed" BY <1>8, <2>1, <2>4 DEF Final
  <2>6. Replied' BY <1>5, <1>6, <1>10, <2>1, <2>5 DEF Replied
  <2> QED BY <2>6
<1>11. CASE worker'.at = "idle" /\ results' = Append(Append(results, f), l)
  <2>1. results' = <<f, l>>
    <3>1. Append(<<>>, f) = <<f>> OBVIOUS
    <3>2. Append(<<f>>, l) = <<f, l>> BY Pair
    <3> QED BY <1>5, <1>11, <3>1, <3>2
  <2>2. Len(results') = 2 /\ results'[1] = f /\ results'[2] = l BY <2>1
  <2>6. Replied' BY <1>5, <1>6, <1>8, <1>11, <2>2 DEF Replied
  <2> QED BY <2>6
<1> QED BY <1>2, <1>9, <1>10, <1>11

(* A listing has ended, well or not.                                       *)
LEMMA ListingEnds ==
    ASSUME Types, Working, WorkerFrame, worker.at \in {"opendir", "readdir", "closedir"},
           worker'.at = "idle", worker'.host = worker.host, upset' = upset,
           NEW r \in Result, results' = Append(results, r),
           r.kind = "listFailed" \/ (/\ r.kind = "listed" /\ r.place.host = worker.host
                                     /\ "cut" \notin upset => r.got = Directory[r.place.path])
    PROVE  Replied'
<1>1. requests' = <<>> /\ shown' = shown BY DEF Working, WorkerFrame
<1>2. Final(r)' BY DEF Final
<1>3. CASE results = <<>>
  <2>1. Len(results') = 1 /\ results'[1] = r BY <1>3
  <2>2. upset \subseteq {"full"} /\ shown.connected => shown.host = worker.host
    <3>1. CASE worker.job.do = "list" BY <3>1 DEF Working, Good, Shows
    <3>2. CASE Opening(worker.job) BY <3>2, <1>3, EmptySeq DEF Working
    <3> QED BY <3>1, <3>2 DEF Working
  <2>3. SameHost' BY <1>1, <2>2 DEF SameHost
  <2>4. Final(results[1])' BY <1>2, <2>1 DEF Final
  <2> QED BY <1>1, <2>1, <2>3, <2>4 DEF Replied
<1>4. CASE Len(results) = 1 /\ results[1].kind = "opened" /\ results[1].place.host = worker.host
  <2>1. results \in Seq(Result) BY DEF Types
  <2>a. /\ Len(Append(results, r)) = Len(results) + 1 /\ Append(results, r)[Len(results) + 1] = r
        /\ \A i \in DOMAIN results : Append(results, r)[i] = results[i]
    BY <2>1, Added
  <2>b. 1 \in DOMAIN results BY <1>4, <2>1
  <2>2. Len(results') = 2 /\ results'[1] = results[1] /\ results'[2] = r BY <1>4, <2>a, <2>b
  <2>3. Final(results[2])' BY <1>2, <2>2 DEF Final
  <2>4. results'[1].kind = "opened" /\ results'[1].place.host = worker'.host BY <1>4, <2>2
  <2>5. results'[2].kind \in {"listed", "listFailed"} BY <2>2
  <2> QED BY <1>1, <2>2, <2>3, <2>4, <2>5 DEF Replied
<1> QED BY <1>3, <1>4 DEF Working

(* And a download.                                                         *)
LEMMA DownloadEnds ==
    ASSUME Types, Working, WorkerFrame, worker.at \in {"open", "read", "close"},
           worker'.at = "idle", worker'.host = worker.host, upset \subseteq upset',
           NEW r \in Result, results' = Append(results, r),
           r.kind = "failed" \/ (r.kind = "downloaded" /\ r.file = r.want)
    PROVE  Replied'
<1>1. requests' = <<>> /\ shown' = shown BY DEF Working, WorkerFrame
<1>2. results = <<>> /\ Good BY DEF Working
<1>3. Good' BY <1>1, <1>2, GoodStays
<1>4. Len(results') = 1 /\ results'[1] = r BY <1>2
<1>5. Final(results[1])' BY <1>3, <1>4 DEF Final
<1> QED BY <1>1, <1>4, <1>5 DEF Replied

(* Every step of a listing,                                                *)
LEMMA ListingOne ==
    ASSUME Types, Served, ReadSoFar, OneAtATime, OpenDir \/ ReadDir \/ CloseDir
    PROVE  OneAtATime'
<1> SUFFICES ASSUME "late" \notin upset' PROVE (Working \/ Replied)' BY DEF OneAtATime
<1>1. ASSUME OpenDir PROVE (Working \/ Replied)'
  <2> DEFINE l == Told("listFailed", Listed)
  <2>1. l \in Result /\ l.kind = "listFailed" BY RemoteIs, Tells
  <2>2. /\ WorkerFrame /\ worker.at = "opendir" /\ worker'.host = worker.host /\ upset' = upset
        /\ \/ worker'.at = "readdir" /\ results' = results
           \/ worker'.at = "idle" /\ results' = Append(results, l)
    BY <1>1, OpenDirDoes
  <2> HIDE DEF l
  <2>3. Working BY <2>2, WorkingIs
  <2>4. CASE worker'.at = "readdir" /\ results' = results BY <2>2, <2>3, <2>4, StillWorking
  <2>5. CASE worker'.at = "idle" /\ results' = Append(results, l)
    BY <2>1, <2>2, <2>3, <2>5, ListingEnds
  <2> QED BY <2>2, <2>4, <2>5
<1>2. ASSUME ReadDir PROVE Working'
  <2>1. WorkerFrame /\ worker.at = "readdir" /\ worker'.host = worker.host /\ results' = results
    BY <1>2, ReadDirDoes
  <2>2. worker'.at \in {"readdir", "closedir"} /\ upset \subseteq upset' BY <1>2, ReadDirDoes
  <2>3. "late" \notin upset BY <2>2
  <2>4. Working BY <2>1, <2>3, WorkingIs
  <2> QED BY <2>1, <2>2, <2>4, StillWorking
<1>3. ASSUME CloseDir PROVE Replied'
  <2> DEFINE r == [Told("listed", Listed) EXCEPT !.got = worker.got]
  <2>1. /\ WorkerFrame /\ worker.at = "closedir" /\ worker'.at = "idle" /\ worker'.host = worker.host
        /\ upset' = upset /\ results' = Append(results, r) /\ r \in Result
    BY <1>3, CloseDirDoes
  <2>2. r.kind = "listed" /\ r.place = Listed /\ r.got = worker.got BY DEF Told
  <2>3. Listed.host = worker.host /\ Listed.path = worker.job.path BY DEF Listed
  <2> HIDE DEF r
  <2>4. "cut" \notin upset => r.got = Directory[r.place.path] BY <2>1, <2>2, <2>3 DEF ReadSoFar
  <2>5. Working BY <2>1, WorkingIs
  <2> QED BY <2>1, <2>2, <2>3, <2>4, <2>5, ListingEnds
<1> QED BY <1>1, <1>2, <1>3

(* of a download,                                                          *)
LEMMA FileOne ==
    ASSUME Types, Served, Sized, OneAtATime, OpenFile \/ Read \/ CloseFile
    PROVE  OneAtATime'
<1> SUFFICES ASSUME "late" \notin upset' PROVE (Working \/ Replied)' BY DEF OneAtATime
<1> DEFINE f == Told("failed", Nowhere)
<1>0. f \in Result /\ f.kind = "failed" BY Made, Tells
<1> HIDE DEF f
<1>1. ASSUME OpenFile PROVE (Working \/ Replied)'
  <2>2. /\ WorkerFrame /\ worker.at = "open" /\ worker'.host = worker.host /\ upset' = upset
        /\ \/ worker'.at = "read" /\ results' = results
           \/ worker'.at = "idle" /\ results' = Append(results, f)
    BY <1>1, OpenFileDoes DEF f
  <2>3. Working BY <2>2, WorkingIs
  <2>4. CASE worker'.at = "read" /\ results' = results BY <2>2, <2>3, <2>4, StillWorking
  <2>5. CASE worker'.at = "idle" /\ results' = Append(results, f)
    BY <1>0, <2>2, <2>3, <2>5, DownloadEnds
  <2> QED BY <2>2, <2>4, <2>5
<1>2. ASSUME Read PROVE Working'
  <2>0. worker.size <= Size(Remote) BY <1>2 DEF Read, Sized
  <2>1. WorkerFrame /\ worker.at = "read" /\ worker'.host = worker.host /\ results' = results
    BY <1>2, <2>0, ReadDoes
  <2>2. worker'.at \in {"read", "close"} /\ upset \subseteq upset' BY <1>2, <2>0, ReadDoes
  <2>3. "late" \notin upset BY <2>2
  <2>4. Working BY <2>1, <2>3, WorkingIs
  <2> QED BY <2>1, <2>2, <2>4, StillWorking
<1>3. ASSUME CloseFile PROVE Replied'
  <2>1. /\ WorkerFrame /\ worker.at = "close" /\ worker'.at = "idle" /\ worker'.host = worker.host
        /\ upset \subseteq upset'
        /\ results' = Append(results, f) \/ \E n \in Nat : results' = Append(results, Fetched(n))
    BY <1>3, CloseFileDoes DEF f
  <2>2. "late" \notin upset BY <2>1
  <2>3. Working BY <2>1, <2>2, WorkingIs
  <2>4. worker.job.want.host = worker.host /\ worker.job.want.path = worker.job.path
    BY <2>1, <2>3 DEF Working, Clicked
  <2>5. worker.job.want = [host |-> worker.host, path |-> worker.job.path, name |-> worker.job.want.name]
    <3>1. worker.job.want \in Files BY Records DEF Types
    <3> QED BY <2>4, <3>1 DEF Files
  <2>6. Remote = worker.job.want BY <2>5 DEF Remote, Listed, File
  <2>7. \A n \in Nat : /\ Fetched(n) \in Result /\ Fetched(n).kind = "downloaded"
                       /\ Fetched(n).file = Fetched(n).want
    BY <2>6, Hands
  <2>8. PICK r \in Result : /\ results' = Append(results, r)
                            /\ r.kind = "failed" \/ (r.kind = "downloaded" /\ r.file = r.want)
    BY <1>0, <2>1, <2>7
  <2> QED BY <2>1, <2>3, <2>8, DownloadEnds
<1> QED BY <1>1, <1>2, <1>3

(* and the session that is lost.                                           *)
LEMMA LostOne ==
    ASSUME Types, OneAtATime, SessionLost
    PROVE  OneAtATime'
<1>1. /\ WorkerFrame /\ worker'.at = worker.at /\ worker'.host = worker.host /\ UNCHANGED <<results, upset>>
  BY LostDoes
<1>2. UNCHANGED <<shown, requests>> /\ worker'.job = worker.job BY <1>1 DEF WorkerFrame
<1>3. ASSUME Good PROVE Good' BY <1>1, <1>2, <1>3, GoodStays
<1>4. ASSUME NEW r, Final(r) PROVE Final(r)' BY <1>1, <1>2, <1>3, <1>4 DEF Final
<1>5. ASSUME Quiet PROVE Quiet' BY <1>1, <1>2, <1>3, <1>5 DEF Quiet, Rest
<1>6. ASSUME Waiting PROVE Waiting' BY <1>1, <1>2, <1>3, <1>6 DEF Waiting, Clicked
<1>7. ASSUME Working PROVE Working' BY <1>1, <1>7, StillWorking
<1>8. ASSUME Replied PROVE Replied'
  <2>1. CASE Len(results) = 1 /\ Final(results[1]) /\ (results[1].kind = "listed" => SameHost)
    <3>1. Final(results[1])' BY <2>1, <1>1, <1>4
    <3>2. results[1].kind = "listed" => SameHost' BY <2>1, <1>1, <1>2 DEF SameHost
    <3> QED BY <1>1, <1>2, <1>8, <2>1, <3>1, <3>2 DEF Replied
  <2>2. CASE /\ Len(results) = 2 /\ results[1].kind = "opened" /\ results[1].place.host = worker.host
             /\ results[2].kind \in {"listed", "listFailed"} /\ Final(results[2])
    <3>1. Final(results[2])' BY <2>2, <1>1, <1>4
    <3> QED BY <1>1, <1>2, <1>8, <2>2, <3>1 DEF Replied
  <2>3. CASE Len(results) = 2 /\ results[1].kind = "failed" /\ results[2].kind = "listFailed"
    BY <1>1, <1>2, <1>8, <2>3 DEF Replied
  <2> QED BY <1>8, <2>1, <2>2, <2>3 DEF Replied
<1> QED BY <1>1, <1>5, <1>6, <1>7, <1>8 DEF OneAtATime

(* What is heard was told by the only request under way.                   *)
LEMMA HearsReply ==
    ASSUME Types, OneAtATime, "late" \notin upset, NEW kind, HearFrame(kind)
    PROVE  /\ requests = <<>>
           /\ \/ Working /\ Opening(worker.job) /\ worker.at # "mount" /\ kind = "opened"
                   /\ results[1].place.host = worker.host /\ results' = <<>>
              \/ worker.at = "idle" /\ kind # "opened" /\ results' = <<>> /\ Final(results[1])
                   /\ (kind = "listed" => SameHost)
              \/ worker.at = "idle" /\ kind = "opened" /\ results[1].place.host = worker.host
                   /\ results' = <<results[2]>> /\ results[2].kind \in {"listed", "listFailed"} /\ Final(results[2])
              \/ worker.at = "idle" /\ kind = "failed" /\ results' = <<results[2]>> /\ results[2].kind = "listFailed"
<1>1. results \in Seq(Result) /\ results # <<>> /\ results' = Tail(results) /\ results[1].kind = kind
  BY DEF Types, HearFrame
<1>2. Working \/ Replied BY <1>1 DEF OneAtATime, Quiet, Rest, Waiting
<1>3. Len(results) = 1 => results' = <<>>
  <2>1. results' \in Seq(Result) /\ Len(results') = Len(results) - 1 BY <1>1, Taken
  <2> QED BY <2>1, EmptySeq
<1>4. Len(results) = 2 => results' = <<results[2]>>
  <2>1. results' \in Seq(Result) /\ Len(results') = Len(results) - 1
        /\ \A i \in DOMAIN results' : results'[i] = results[i + 1]
    BY <1>1, Taken
  <2>2. SUFFICES ASSUME Len(results) = 2 PROVE results' = <<results[2]>> OBVIOUS
  <2>3. Len(results') = 1 /\ results'[1] = results[2] BY <2>1, <2>2
  <2> QED BY <2>1, <2>3
<1>5. CASE Working
  <2>1. Opening(worker.job) /\ worker.at # "mount" BY <1>1, <1>5, WorkingShape
  <2>2. Len(results) = 1 /\ results[1].kind = "opened" /\ results[1].place.host = worker.host
    BY <1>1, <1>5, WorkingShape
  <2>3. requests = <<>> BY <1>5 DEF Working
  <2> QED BY <1>1, <1>3, <1>5, <2>1, <2>2, <2>3
<1>6. CASE Replied
  <2>1. worker.at = "idle" /\ requests = <<>> BY <1>6 DEF Replied
  <2>2. CASE Len(results) = 1 /\ Final(results[1]) /\ (results[1].kind = "listed" => SameHost)
    <3>1. kind # "opened" BY <1>1, <2>2 DEF Final
    <3> QED BY <1>1, <1>3, <2>1, <2>2, <3>1
  <2>3. CASE /\ Len(results) = 2 /\ results[1].kind = "opened" /\ results[1].place.host = worker.host
             /\ results[2].kind \in {"listed", "listFailed"} /\ Final(results[2])
    BY <1>1, <1>4, <2>1, <2>3
  <2>4. CASE Len(results) = 2 /\ results[1].kind = "failed" /\ results[2].kind = "listFailed"
    BY <1>1, <1>4, <2>1, <2>4
  <2> QED BY <1>6, <2>2, <2>3, <2>4 DEF Replied
<1> QED BY <1>2, <1>5, <1>6

(* The browser hears that it is connected,                                 *)
LEMMA OpenedOne ==
    ASSUME Types, Served, OneAtATime, OnOpened, "late" \notin upset
    PROVE  (Working \/ Replied)'
<1>1. /\ HearFrame("opened") /\ requests' = requests /\ shown'.host = results[1].place.host
      /\ shown'.listing = shown.listing
  BY OpenedDoes
<1>2. worker' = worker /\ upset' = upset BY <1>1 DEF HearFrame
<1>3. requests = <<>> BY <1>1, HearsReply
<1>4. CASE /\ Working /\ Opening(worker.job) /\ worker.at # "mount"
           /\ results[1].place.host = worker.host /\ results' = <<>>
  <2>1. Clicked(worker.job)' BY <1>2, <1>4 DEF Clicked, Opening
  <2>2. worker.job.do \notin {"list", "download"} BY <1>4 DEF Opening
  <2> QED BY <1>1, <1>2, <1>3, <1>4, <2>1, <2>2 DEF Working
<1>5. CASE /\ worker.at = "idle" /\ results[1].place.host = worker.host
           /\ results' = <<results[2]>> /\ results[2].kind \in {"listed", "listFailed"} /\ Final(results[2])
  <2>1. Len(results') = 1 /\ results'[1] = results[2] BY <1>5
  <2>2. Final(results[1])' BY <1>2, <1>5, <2>1 DEF Final
  <2>3. SameHost' BY <1>1, <1>2, <1>5 DEF SameHost
  <2> QED BY <1>1, <1>2, <1>3, <1>5, <2>1, <2>2, <2>3 DEF Replied
<1> QED BY <1>1, <1>4, <1>5, HearsReply

(* of a listing: the directory that it then shows is that of the worker's  *)
(* server,                                                                 *)
LEMMA ListedOne ==
    ASSUME Types, Served, OneAtATime, OnListed, "late" \notin upset
    PROVE  Quiet'
<1>1. /\ HearFrame("listed") /\ requests' = requests
      /\ shown'.connected = shown.connected /\ shown'.busy = FALSE /\ shown'.host = shown.host
      /\ shown'.path = results[1].place.path /\ shown'.listing = results[1].got
      /\ shown'.of = results[1].place
  BY ListedDoes
<1>2. worker' = worker /\ upset' = upset BY <1>1 DEF HearFrame
<1>3. worker.at = "idle" /\ results' = <<>> /\ requests = <<>> /\ Final(results[1]) /\ SameHost
  BY <1>1, HearsReply
<1>4. results[1].kind = "listed" /\ results[1].place \in Place BY <1>1, Records DEF HearFrame
<1>5. /\ results[1].place.host = worker.host
      /\ "cut" \notin upset => results[1].got = Directory[results[1].place.path]
  BY <1>3, <1>4 DEF Final
<1>6. results[1].place = [host |-> worker.host, path |-> results[1].place.path]
  BY <1>4, <1>5 DEF Place
<1>7. Fits' BY <1>1, <1>2, <1>6 DEF Fits
<1>8. upset' \subseteq {"full"} => Shows' BY <1>1, <1>2, <1>3, <1>5, <1>6 DEF Shows, SameHost, Here
<1> QED BY <1>1, <1>2, <1>3, <1>7, <1>8 DEF Quiet, Rest, Good

(* of a failure or of a file,                                              *)
LEMMA FreesOne ==
    ASSUME Types, Served, OneAtATime, OnFailed \/ OnDownloaded, "late" \notin upset
    PROVE  (Quiet \/ Replied)'
<1>1. PICK kind \in {"failed", "downloaded"} : Frees(kind) BY FreesDoes
<1>2. HearFrame(kind) /\ requests' = requests /\ shown'.busy = FALSE BY <1>1 DEF Frees
<1>3. worker' = worker /\ upset' = upset /\ results[1].kind = kind BY <1>2 DEF HearFrame
<1>4. requests = <<>> BY <1>2, HearsReply
<1>5. CASE worker.at = "idle" /\ results' = <<>> /\ Final(results[1])
  <2>1. Good BY <1>3, <1>5 DEF Final
  <2>2. Good' BY <1>1, <1>3, <2>1, GoodStays DEF Frees
  <2> QED BY <1>2, <1>3, <1>4, <1>5, <2>2 DEF Quiet, Rest
<1>6. CASE worker.at = "idle" /\ results' = <<results[2]>> /\ results[2].kind = "listFailed"
  <2>1. Len(results') = 1 /\ results'[1] = results[2] BY <1>6
  <2>2. Final(results[1])' /\ results'[1].kind # "listed" BY <1>6, <2>1 DEF Final
  <2> QED BY <1>2, <1>3, <1>4, <1>6, <2>1, <2>2 DEF Replied
<1> QED BY <1>2, <1>5, <1>6, HearsReply

(* and of a listing that failed: it asks again or is disconnected.         *)
LEMMA ListFailedOne ==
    ASSUME Types, Served, OneAtATime, OnListFailed, "late" \notin upset
    PROVE  (Quiet \/ Waiting)'
<1>1. HearFrame("listFailed") BY ListFailedDoes
<1>2. worker' = worker /\ upset' = upset BY <1>1 DEF HearFrame
<1>3. worker.at = "idle" /\ results' = <<>> /\ requests = <<>> BY <1>1, HearsReply
<1>4. CASE \E r \in Request : r.do = "reconnect" /\ r.to.host # None /\ requests' = Append(requests, r)
  <2>1. PICK r \in Request : r.do = "reconnect" /\ requests' = Append(requests, r) BY <1>4
  <2>2. Len(requests') = 1 /\ requests'[1] = r BY <1>3, <2>1
  <2>3. Clicked(requests[1])' BY <2>1, <2>2 DEF Clicked
  <2> QED BY <1>2, <1>3, <2>1, <2>2, <2>3 DEF Waiting
<1>5. CASE requests' = requests /\ shown'.listing = <<>> /\ shown'.connected = FALSE /\ shown'.busy = FALSE
  <2>1. Good' BY <1>5, EmptyGood
  <2> QED BY <1>2, <1>3, <1>5, <2>1 DEF Quiet, Rest
<1> QED BY <1>4, <1>5, ListFailedDoes

(* Everything that it hears.                                               *)
LEMMA HearingOne ==
    ASSUME Types, Served, OneAtATime, Hearing
    PROVE  OneAtATime'
<1>1. upset' = upset
  <2>1. PICK kind : Hear(kind)
    BY DEF Hearing, OnOpened, OnListed, OnFailed, OnListFailed, OnDownloaded
  <2> QED BY <2>1 DEF Hear
<1> QED BY <1>1, OpenedOne, ListedOne, FreesOne, ListFailedOne DEF Hearing, OneAtATime

-----------------------------------------------------------------------------
(* The inductive invariant.                                                *)
BrowserInv == Types /\ Served /\ Sized /\ ReadSoFar /\ OneAtATime

(* The inductive invariant, for any number of servers, requests and faults:*)
(* types, what the worker has so far, and, while nobody asks for something *)
(* too early, one request under way.                                       *)
THEOREM BrowserInvariant == Spec => []BrowserInv
<1>1. Init => BrowserInv BY TypesInit, ProgressInit, OneInit DEF BrowserInv
<1>2. ASSUME BrowserInv, [Next]_vars PROVE BrowserInv'
  <2>0. Types /\ Served /\ Sized /\ ReadSoFar /\ OneAtATime /\ Sized0
    BY <1>2 DEF BrowserInv, Sized, Sized0
  <2>1. CASE Open \/ Close \/ Up \/ Enter \/ Download
    BY <2>0, <2>1, AskingTypes, OtherProgress, AskingOne DEF BrowserInv
  <2>2. CASE Hearing
    BY <2>0, <2>2, HearTypes, OtherProgress, HearingOne DEF BrowserInv
  <2>3. CASE TakeRequest \/ Mount \/ OpenDir \/ ReadDir \/ CloseDir \/ OpenFile \/ Read \/ CloseFile \/ SessionLost
    <3>1. Types' /\ Served' BY <2>0, <2>3, WorkerTypes
    <3>2. Sized' /\ ReadSoFar' BY <2>0, <2>3, WorkerProgress
    <3>3. OneAtATime' BY <2>0, <2>3, TakeOne, MountOne, ListingOne, FileOne, LostOne
    <3> QED BY <3>1, <3>2, <3>3 DEF BrowserInv
  <2>4. CASE UNCHANGED vars
    <3>1. UNCHANGED <<shown, requests, worker, results, asked, faults, upset>> BY <2>4 DEF vars
    <3>2. Types' /\ Served' BY <2>0, <3>1 DEF Types, Served
    <3>3. Sized' /\ ReadSoFar' BY <2>0, <3>1 DEF Sized, Short, ReadSoFar, Remote, Listed
    <3>4. OneAtATime'
      BY <2>0, <3>1
      DEF OneAtATime, Quiet, Rest, Waiting, Working, Replied, Good, Fits, Shows, Here, Clicked, Final, SameHost
    <3> QED BY <3>2, <3>3, <3>4 DEF BrowserInv
  <2> QED BY <1>2, <2>1, <2>2, <2>3, <2>4 DEF Next, Hearing
<1> QED BY <1>1, <1>2, PTL DEF Spec

(* NetBrowser's TypeOK; the worker sends no command without a client       *)
(* (NetworkWorker's checks of m_client).                                   *)
THEOREM TypeCorrect == Spec => []TypeOK
<1>1. BrowserInv => TypeOK BY DEF BrowserInv, Types, Served, TypeOK
<1> QED BY <1>1, BrowserInvariant, PTL

(* When all is answered, a browser that says it is connected is connected  *)
(* to the server it names and shows the directory it names, whole (Settles:*)
(* onOpened, onListed, onListFailed), unless one of Upsets has happened.   *)
THEOREM BrowserSettles == Spec => []Settles
<1>1. BrowserInv => Settles
  <2> SUFFICES ASSUME BrowserInv, Rest, shown.connected, upset \subseteq {"full"}
               PROVE  /\ ~shown.busy /\ worker.host = shown.host /\ shown.of = Here
                      /\ shown.listing = Directory[shown.path]
    BY DEF Settles
  <2>1. Quiet BY EmptySeq DEF BrowserInv, OneAtATime, Rest, Waiting, Working, Replied
  <2> QED BY <2>1 DEF Quiet, Good, Shows
<1> QED BY <1>1, BrowserInvariant, PTL

(* The file that is handed over is the one that was clicked, unless the    *)
(* click was late; and the local file has all its bytes, unless a command  *)
(* was given up or a local write failed (GetsWhatWasClicked: doDownload,   *)
(* onDownloaded), for any number of requests and faults.                   *)
THEOREM RightFile == Spec => []GetsWhatWasClicked
<1>1. BrowserInv => GetsWhatWasClicked
  <2> SUFFICES ASSUME BrowserInv, NEW i \in DOMAIN results, results[i].kind = "downloaded"
               PROVE  /\ "late" \notin upset => results[i].file = results[i].want
                      /\ upset \cap {"cut", "full"} = {} => results[i].size = Size(results[i].file)
    BY DEF GetsWhatWasClicked
  <2>1. upset \cap {"cut", "full"} = {} => results[i].size = Size(results[i].file)
    BY DEF BrowserInv, Sized, SizedIn, Short
  <2>2. ASSUME "late" \notin upset PROVE results[i].file = results[i].want
    <3>1. results \in Seq(Result) /\ i \in 1 .. Len(results) BY DEF BrowserInv, Types
    <3>2. Quiet \/ Waiting \/ Working \/ Replied BY <2>2 DEF BrowserInv, OneAtATime
    <3>3. CASE results = <<>> BY <3>1, <3>3
    <3>4. CASE Working
      <4>1. Len(results) = 1 /\ results[1].kind = "opened"
        BY <3>1, <3>4, WorkingShape DEF BrowserInv
      <4>2. i = 1 BY <3>1, <4>1
      <4> QED BY <4>1, <4>2
    <3>5. CASE Replied
      <4>1. CASE Len(results) = 1 /\ Final(results[1])
        <5>1. i = 1 BY <3>1, <4>1
        <5> QED BY <4>1, <5>1 DEF Final
      <4>2. CASE /\ Len(results) = 2 /\ results[1].kind # "downloaded" /\ results[2].kind # "downloaded"
        <5>1. i \in {1, 2} BY <3>1, <4>2
        <5> QED BY <4>2, <5>1
      <4> QED BY <3>5, <4>1, <4>2 DEF Replied
    <3> QED BY <3>2, <3>3, <3>4, <3>5 DEF Quiet, Rest, Waiting
  <2> QED BY <2>1, <2>2
<1> QED BY <1>1, BrowserInvariant, PTL
=============================================================================
