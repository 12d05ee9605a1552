----------------------------- MODULE FlowEditor ------------------------------
(***************************************************************************)
(* A session of the ClearPipe flow editor on the graph of FlowStore        *)
(* (clearpipe-flow-editor.component.ts): the toolbar, the requests it      *)
(* sends, the streams of execution snapshots, and the API server as far as *)
(* the editor sees it.  The handler of a response is one action, whatever  *)
(* happened since its request was sent.                                    *)
(*                                                                         *)
(* The session is that of a definition that is already loaded, with the    *)
(* request for its latest run in flight, or of a new one.  It ends when a  *)
(* created definition sends the user to the library, or when New replaces  *)
(* the page of an existing definition; the handlers of a save, a start, an *)
(* activation and a stop outlive the page.                                 *)
(***************************************************************************)
EXTENDS FlowStore, Sequences

CONSTANTS
  Sessions,      \* how a session starts: the graph, whether it is that of a
                 \* definition, its activation, its latest run, and a budget of
                 \* commands, changes of detail, saves, clicks,
                 \* failures and saves elsewhere
  Imports,       \* the graphs in the files the user may import
  MaxRevision    \* bound on the revisions of the definition

Revisions == 1..MaxRevision
Phases == {"pending", "running", "over"}

(* The requests; of a run and of a revision, its number. *)
Answers == {"waiting", "done", "failed"}
SaveRequests ==
  [create : BOOLEAN, rev : Nat, flow : Graph, thenRun : BOOLEAN, answer : Answers,
   result : Nat \union {None}]
BusyRequests ==
  [kind : {"activate", "start", "stop"}, arg : BOOLEAN \union Nat, answer : Answers,
   result : Nat \union {None}]

ASSUME GraphsAssumption ==
  /\ \A g \in Imports : Formed(g)
  /\ \A s \in Sessions :
       /\ Formed(s.graph) /\ Nodes(s.graph) = 1..Cardinality(Nodes(s.graph))
       /\ {s.editing, s.activated} \subseteq BOOLEAN /\ s.phase \in Phases \union {None}
  /\ MaxRevision \in Nat \ {0}

ASSUME NoneAssumption == None \notin Nat \union Phases \union SaveRequests \union BusyRequests

VARIABLES
  open, editing, editingRevision, activated,
  running, runTaskId,
  saving, saveReq,   \* the flag, and the request behind it
  busy, busyReq,
  latestReq,         \* the request of restoreRun
  stream,            \* the snapshot streams: pollSub, the live surface, once
  live,              \* a node is hovered, or the overview is open
  server,            \* revision, contents, activated, runs
  imported,          \* history: the graph was imported, and not saved since
  untouched,         \* history: the graph was not changed since beginRun
  overtaken,         \* history: latestReq was answered to a session with a run
  pollFailed,        \* history: a request of the polling failed since beginRun
  budget

ui == <<open, editing, editingRevision, activated, live>>
run == <<running, runTaskId>>
requests == <<saving, saveReq, busy, busyReq, latestReq>>
history == <<imported, untouched, overtaken, pollFailed>>
vars == <<canvas, ui, run, requests, stream, server, history, budget>>

Streams == {"poll", "live", "once"}
Runs == 1..Len(server.runs)

(* A subscription: the run it asks about and what is in flight.  asked: the *)
(* request is out; a phase: the snapshot that is on its way back; failed:   *)
(* the stream has ended in an error.                                        *)
Off == [run |-> None, inner |-> "none"]
Subscribed(r) == [run |-> r, inner |-> "none"]
Asked(r) == [run |-> r, inner |-> "asked"]

Spend(kind) == open /\ budget[kind] > 0 /\ budget' = [budget EXCEPT ![kind] = @ - 1]

(* The effect of the constructor: a live surface is subscribed while there  *)
(* is a run to follow, and again whenever what it depends on changes.       *)
LiveStream(isLive, isRunning, r) ==
  IF ~isLive \/ ~isRunning \/ r = None THEN Off
  ELSE IF <<live, running, runTaskId>> = <<isLive, isRunning, r>> THEN stream["live"]
  ELSE Subscribed(r)

(* The streams after a step: polling and once as given, live by the effect. *)
Streaming(poll, once, isLive, isRunning, r) ==
  stream' = [stream EXCEPT !["poll"] = poll, !["once"] = once,
                           !["live"] = LiveStream(isLive, isRunning, r)]

TypeOK ==
  /\ Formed(graph)
  /\ Nodes(graph) \subseteq 1..minted /\ minted <= MaxNodes
  /\ {dirty, open, editing, activated, running, saving, busy, live} \subseteq BOOLEAN
  /\ editingRevision \in Revisions
  /\ server.revision \in Revisions /\ DOMAIN server.contents = 1..server.revision
  /\ runTaskId \in Runs \union {None}
  /\ \A s \in Streams : /\ stream[s].run \in Runs \union {None}
                        /\ stream[s].inner \in Phases \union {"none", "asked", "failed"}

-----------------------------------------------------------------------------
(* loadExisting has answered, or the page of a new definition is shown. *)
Init ==
  /\ \E s \in Sessions :
       /\ graph = s.graph /\ minted = Cardinality(Nodes(s.graph))
       /\ editing = s.editing /\ activated = s.activated /\ budget = s.budget
       /\ latestReq = IF s.editing THEN [run |-> None, running |-> FALSE] ELSE None
       /\ server = [revision |-> 1, contents |-> [r \in {1} |-> Content(s.graph)],
                    activated |-> s.activated,
                    runs |-> IF s.phase = None THEN <<>> ELSE <<[rev |-> 1, phase |-> s.phase]>>]
  /\ clipboard = NoClip /\ connecting = None /\ dirty = FALSE
  /\ open = TRUE /\ editingRevision = 1 /\ live = FALSE
  /\ running = FALSE /\ runTaskId = None
  /\ saving = FALSE /\ saveReq = None /\ busy = FALSE /\ busyReq = None
  /\ stream = [s \in Streams |-> Off]
  /\ imported = FALSE /\ untouched = FALSE /\ overtaken = FALSE /\ pollFailed = FALSE

Edit ==
  /\ \/ Spend("edit") /\ Command
     \/ Spend("name") /\ EditDetail
  /\ untouched' = (untouched /\ graph' = graph)
  /\ UNCHANGED <<ui, run, requests, stream, server, imported, overtaken, pollFailed>>

(* store.load: another graph, with the statuses it came with, no run, and   *)
(* no node that counts as hovered.                                          *)
Load(g) ==
  /\ graph' = g /\ dirty' = FALSE /\ connecting' = None
  /\ running' = FALSE /\ runTaskId' = None
  /\ untouched' = FALSE

(* newPipeline; on the page of an existing definition it leads to another.  *)
New ==
  /\ Spend("click")
  /\ open' = ~editing /\ editing' = FALSE /\ live' \in {FALSE, live /\ open'}
  /\ Load(EmptyGraph(graph.detail)) /\ activated' = FALSE
  /\ imported' = FALSE /\ overtaken' = FALSE /\ pollFailed' = FALSE
  /\ Streaming(Off, IF editing THEN Off ELSE stream["once"], live, FALSE, None)
  /\ UNCHANGED <<clipboard, minted, editingRevision, requests, server>>

(* importPipeline keeps the definition it edits, and its polling. *)
Import ==
  /\ Spend("click")
  /\ \E g \in Imports :
       /\ Nodes(g) \subseteq 1..minted
       /\ Load(g) /\ activated' \in BOOLEAN
  /\ imported' = TRUE
  /\ live' \in {FALSE, live}
  /\ Streaming(stream["poll"], stream["once"], live, FALSE, None)
  /\ UNCHANGED <<clipboard, minted, open, editing, editingRevision, requests, server,
                 overtaken, pollFailed>>

(* save, with what is to follow it. *)
SendSave(thenRun) ==
  /\ saving' = TRUE
  /\ saveReq' = [create |-> ~editing, rev |-> editingRevision, flow |-> graph,
                 thenRun |-> thenRun, answer |-> "waiting", result |-> None]

Save ==
  /\ ~saving /\ Spend("save") /\ SendSave(FALSE)
  /\ UNCHANGED <<canvas, ui, run, busy, busyReq, latestReq, stream, server, history>>

SendStart(rev) ==
  /\ busy' = TRUE
  /\ busyReq' = [kind |-> "start", arg |-> rev, answer |-> "waiting", result |-> None]

(* run(): the button is enabled when the pipeline is active and not busy.   *)
(* With unsaved edits it saves first; while a save is on its way it does    *)
(* nothing.                                                                 *)
SaveFirst_NotSaving == dirty /\ ~saving

SaveFirst == dirty

Run ==
  /\ activated /\ ~busy /\ ~running /\ editing /\ Spend("click")
  /\ IF SaveFirst
       THEN /\ IF saving THEN UNCHANGED <<saving, saveReq>> ELSE SendSave(TRUE)
            /\ UNCHANGED <<busy, busyReq>>
       ELSE SendStart(editingRevision) /\ UNCHANGED <<saving, saveReq>>
  /\ UNCHANGED <<canvas, ui, run, latestReq, stream, server, history>>

ToggleActivated ==
  /\ ~busy /\ editing /\ Spend("click")
  /\ busy' = TRUE
  /\ busyReq' = [kind |-> "activate", arg |-> ~activated, answer |-> "waiting", result |-> None]
  /\ UNCHANGED <<canvas, ui, run, saving, saveReq, latestReq, stream, server, history>>

(* What stop() shows at once, and whether it asks the server. *)
ShowStopped_Running ==
  /\ graph' = Interrupted(graph)
  /\ running' = running
  /\ Streaming(Off, stream["once"], live, running, runTaskId)

ShowStopped ==
  /\ graph' = Interrupted(graph)
  /\ running' = FALSE
  /\ Streaming(Off, stream["once"], live, FALSE, runTaskId)

StopAsks == runTaskId # None /\ ~busy

StopRequest == [kind |-> "stop", arg |-> runTaskId, answer |-> "waiting", result |-> None]

Stop ==
  /\ running /\ ~busy /\ Spend("click")
  /\ ShowStopped
  /\ IF StopAsks THEN busy' = TRUE /\ busyReq' = StopRequest ELSE UNCHANGED <<busy, busyReq>>
  /\ UNCHANGED <<clipboard, connecting, dirty, minted, ui, runTaskId, saving, saveReq,
                 latestReq, server, history>>

(* A node is hovered or left, the overview is opened or closed; opening it  *)
(* on a run that is not followed asks once.                                 *)
ToggleLive ==
  /\ Spend("click")
  /\ live' = ~live
  /\ \E asks \in BOOLEAN :
       /\ asks => live' /\ runTaskId # None /\ ~running
       /\ Streaming(stream["poll"], IF asks THEN Asked(runTaskId) ELSE stream["once"],
                    ~live, running, runTaskId)
  /\ UNCHANGED <<canvas, open, editing, editingRevision, activated, run, requests,
                 server, history>>

-----------------------------------------------------------------------------
(* The handlers of responses. *)
MarkSaved_Keep(flow) == graph' = graph /\ dirty' = FALSE

MarkSaved(flow) == graph' = flow /\ dirty' = FALSE

SaveAnswered ==
  /\ saveReq # None /\ saveReq.answer # "waiting"
  /\ saving' = FALSE /\ saveReq' = None
  /\ IF saveReq.answer = "failed"
       THEN UNCHANGED <<graph, dirty, ui, busy, busyReq, imported, untouched>>
       ELSE /\ MarkSaved(saveReq.flow)
            /\ imported' = FALSE
            /\ untouched' = (untouched /\ graph' = graph)
            /\ open' = (open /\ ~saveReq.create)
            /\ editingRevision' = IF saveReq.create THEN editingRevision ELSE saveReq.result
            /\ IF saveReq.thenRun /\ ~busy
                 THEN SendStart(editingRevision')
                 ELSE UNCHANGED <<busy, busyReq>>
            /\ UNCHANGED <<editing, activated, live>>
  /\ UNCHANGED <<clipboard, connecting, minted, run, latestReq, stream, server,
                 overtaken, pollFailed, budget>>

(* beginRun and startPolling; nothing is polled for a page that is gone. *)
BeginRun(r) ==
  /\ graph' = PendingRun(graph)
  /\ running' = TRUE /\ runTaskId' = r
  /\ untouched' = TRUE /\ overtaken' = FALSE /\ pollFailed' = FALSE
  /\ Streaming(IF open THEN Subscribed(r) ELSE Off, stream["once"], live /\ open, TRUE, r)

Finalized == busy' = FALSE

StartAnswered ==
  /\ busyReq # None /\ busyReq.kind = "start" /\ busyReq.answer # "waiting"
  /\ Finalized /\ busyReq' = None
  /\ IF busyReq.answer = "failed"
       THEN UNCHANGED <<graph, run, stream, untouched, overtaken, pollFailed>>
       ELSE BeginRun(busyReq.result)
  /\ UNCHANGED <<clipboard, connecting, dirty, minted, ui, saving, saveReq, latestReq,
                 server, imported, budget>>

(* Deactivating a pipeline that runs calls stop() while still busy. *)
ActivateAnswered ==
  /\ busyReq # None /\ busyReq.kind = "activate" /\ busyReq.answer # "waiting"
  /\ IF busyReq.answer = "failed"
       THEN busyReq' = None /\ UNCHANGED <<graph, activated, run, stream>>
       ELSE /\ activated' = busyReq.arg
            /\ IF ~busyReq.arg /\ running
                 THEN /\ ShowStopped /\ UNCHANGED runTaskId
                      /\ busyReq' = IF StopAsks THEN StopRequest ELSE None
                 ELSE busyReq' = None /\ UNCHANGED <<graph, run, stream>>
  /\ Finalized
  /\ UNCHANGED <<clipboard, connecting, dirty, minted, open, editing, editingRevision,
                 live, saving, saveReq, latestReq, server, history, budget>>

StopAnswered ==
  /\ busyReq # None /\ busyReq.kind = "stop" /\ busyReq.answer # "waiting"
  /\ Finalized /\ busyReq' = None
  /\ UNCHANGED <<canvas, ui, run, saving, saveReq, latestReq, stream, server, history,
                 budget>>

(* restoreRun *)
LatestAnswered ==
  /\ open /\ latestReq # None /\ latestReq.run # None
  /\ latestReq' = None
  /\ IF latestReq.running
       THEN BeginRun(latestReq.run)
       ELSE /\ runTaskId' = latestReq.run
            /\ overtaken' = running
            /\ UNCHANGED <<graph, running, untouched, pollFailed>>
            /\ Streaming(stream["poll"], Asked(latestReq.run), live, running, latestReq.run)
  /\ UNCHANGED <<clipboard, connecting, dirty, minted, ui, saving, saveReq, busy, busyReq,
                 server, imported, budget>>

(* consumeSnapshot, for the stream s. *)
Terminal_None == {}

Terminal == {"over"}

NodesOf(r) == Active(server.contents[server.runs[r].rev])

Snapshot(r, phase) ==
  [n \in NodesOf(r) |-> IF phase = "over" THEN "done" ELSE phase]

Consume(s) ==
  LET r == stream[s].run
      phase == stream[s].inner
      rest == IF s = "once" THEN Off ELSE [stream[s] EXCEPT !.inner = "none"]
  IN  /\ phase \in Phases
      /\ IF runTaskId # r
           THEN /\ stream' = [stream EXCEPT ![s] = rest]
                /\ UNCHANGED <<graph, run>>
           ELSE /\ graph' = BoundaryStops(WithStatus(graph, Snapshot(r, phase)))
                /\ UNCHANGED runTaskId
                /\ IF s # "once" /\ phase \in Terminal
                     THEN running' = FALSE /\ Streaming(Off, stream["once"], live, FALSE, r)
                     ELSE running' = running /\ stream' = [stream EXCEPT ![s] = rest]
      /\ UNCHANGED <<clipboard, connecting, dirty, minted, ui, requests, server, history,
                     budget>>

-----------------------------------------------------------------------------
(* The timers of the streams and the API server. *)

(* The interval has passed: switchMap drops the answer of the last request. *)
Tick(s) ==
  /\ stream[s].run # None /\ s # "once" /\ stream[s].inner \notin {"asked", "failed"}
  /\ stream' = [stream EXCEPT ![s].inner = "asked"]
  /\ UNCHANGED <<canvas, ui, run, requests, server, history, budget>>

AnswerSnapshot(s) ==
  /\ stream[s].inner = "asked"
  /\ stream' = [stream EXCEPT ![s].inner = server.runs[stream[s].run].phase]
  /\ UNCHANGED <<canvas, ui, run, requests, server, history, budget>>

(* A request that fails ends its stream: nothing inside the switchMap       *)
(* catches the error.                                                       *)
FailSnapshot(s) ==
  /\ Spend("fail")
  /\ stream[s].inner = "asked"
  /\ stream' = [stream EXCEPT ![s] = IF s = "once" THEN Off ELSE [@ EXCEPT !.inner = "failed"]]
  /\ pollFailed' = IF s = "poll" THEN TRUE ELSE pollFailed
  /\ UNCHANGED <<canvas, ui, run, requests, server, imported, untouched, overtaken>>

(* clearpipe.update lets a save of the current revision through. *)
Accepts(req) == req.create \/ req.rev = server.revision

AnswerSave ==
  /\ saveReq # None /\ saveReq.answer = "waiting"
  /\ IF Accepts(saveReq) /\ server.revision < MaxRevision
       THEN /\ server' = [server EXCEPT
                 !.revision = @ + 1,
                 !.contents = [r \in 1..server.revision + 1 |->
                   IF r \in DOMAIN @ THEN @[r] ELSE Content(saveReq.flow)]]
            /\ \/ saveReq' = [saveReq EXCEPT !.answer = "done", !.result = server'.revision] /\ UNCHANGED budget
               \/ saveReq' = [saveReq EXCEPT !.answer = "failed"] /\ Spend("fail")
       ELSE /\ saveReq' = [saveReq EXCEPT !.answer = "failed"]
            /\ UNCHANGED <<server, budget>>
  /\ UNCHANGED <<canvas, ui, run, saving, busy, busyReq, latestReq, stream, history>>

(* Activation, start of the current revision, stop; or a refusal. *)
Done(req) ==
  CASE req.kind = "activate" -> [server EXCEPT !.activated = req.arg]
    [] req.kind = "start" ->
         [server EXCEPT !.runs = Append(@, [rev |-> req.arg, phase |-> "pending"])]
    [] req.kind = "stop" -> [server EXCEPT !.runs[req.arg].phase = "over"]

Allowed(req) == req.kind = "start" => server.activated /\ req.arg = server.revision

AnswerBusy ==
  /\ busyReq # None /\ busyReq.answer = "waiting"
  /\ \/ /\ Allowed(busyReq)
        /\ server' = Done(busyReq)
        /\ busyReq' = [busyReq EXCEPT
             !.answer = "done", !.result = Len(server'.runs)]
        /\ UNCHANGED budget
     \/ /\ IF Allowed(busyReq) THEN Spend("fail") ELSE UNCHANGED budget
        /\ busyReq' = [busyReq EXCEPT !.answer = "failed"]
        /\ UNCHANGED server
  /\ UNCHANGED <<canvas, ui, run, saving, saveReq, busy, latestReq, stream, history>>

AnswerLatest ==
  /\ latestReq # None /\ latestReq.run = None
  /\ latestReq' = IF server.runs = <<>> THEN None
                  ELSE [run |-> Len(server.runs),
                        running |-> server.runs[Len(server.runs)].phase # "over"]
  /\ UNCHANGED <<canvas, ui, run, saving, saveReq, busy, busyReq, stream, server, history,
                 budget>>

(* A run goes on; it is over for good when its controller is.               *)
RunProceeds(r) ==
  /\ server.runs[r].phase # "over"
  /\ \E p \in Phases \ {"pending", server.runs[r].phase} :
       server' = [server EXCEPT !.runs[r].phase = p]
  /\ UNCHANGED <<canvas, ui, run, requests, stream, history, budget>>

(* The definition is saved from another page. *)
SavedElsewhere ==
  /\ Spend("other") /\ server.revision < MaxRevision
  /\ \E d \in Details :
       server' = [server EXCEPT
         !.revision = @ + 1,
         !.contents = [r \in 1..server.revision + 1 |->
           IF r \in DOMAIN @ THEN @[r] ELSE [@[server.revision] EXCEPT !.detail = d]]]
  /\ UNCHANGED <<canvas, ui, run, requests, stream, history>>

User == Edit \/ New \/ Import \/ Save \/ Run \/ ToggleActivated \/ Stop \/ ToggleLive

Handlers ==
  \/ SaveAnswered \/ StartAnswered \/ ActivateAnswered \/ StopAnswered \/ LatestAnswered
  \/ \E s \in Streams : Consume(s)

Server ==
  \/ AnswerSave \/ AnswerBusy \/ AnswerLatest \/ SavedElsewhere
  \/ \E r \in Runs : RunProceeds(r)
  \/ \E s \in Streams : Tick(s) \/ AnswerSnapshot(s) \/ FailSnapshot(s)

Next == User \/ Handlers \/ Server

(* Timers fire and the server answers; an answer is not dropped for ever    *)
(* because the next interval has always passed before it is handled: strong *)
(* fairness of Consume("poll"), with its ENABLED written out.               *)
Consumable == stream["poll"].inner \in Phases

Fairness ==
  /\ WF_vars(Tick("poll"))
  /\ WF_vars(AnswerSnapshot("poll"))
  /\ <>[]~Consumable \/ []<><<Consume("poll")>>_vars

Spec == Init /\ [][Next]_vars /\ Fairness

-----------------------------------------------------------------------------
(* Unless it was imported, a graph without the mark of unsaved changes is   *)
(* the saved one of the revision that the next save and the next run will   *)
(* name: whatever was edited while the save was on its way, whoever else    *)
(* saves, and whichever requests fail (save, markSaved).                    *)
CleanMeansSaved ==
  open /\ editing /\ ~dirty /\ ~imported =>
    Content(graph) = server.contents[editingRevision]

(* What is shown as running has a polling that has not ended, also after    *)
(* other runs, stops and New, with two exceptions.  A request of the        *)
(* polling has failed since the run began: that ends it, though the code    *)
(* says that "polling continues", and the run stays shown as running.  Or   *)
(* restoreRun was answered too late and named an older run, which is then   *)
(* shown while the newer one is polled (startPolling, stop, restoreRun,     *)
(* newPipeline, consumeSnapshot).                                           *)
RunningIsFollowed ==
  open /\ running =>
    /\ runTaskId # None
    /\ stream["poll"].run # None
    /\ stream["poll"].inner # "failed" \/ pollFailed
    /\ stream["poll"].run = runTaskId \/ overtaken

(* While the graph shown is the one that runs, a node that is shown as      *)
(* pending or running is one that the run executes: the editor's projection *)
(* of the boundaries agrees with what was compiled (beginRun,               *)
(* applyBoundaryStops, consumeSnapshot).                                    *)
ShownInProgressIsExecuted ==
  running /\ untouched /\ ~overtaken
    /\ Content(graph) = server.contents[server.runs[runTaskId].rev] =>
  \A n \in Nodes(graph) : graph.status[n] \in {"pending", "running"} => n \in NodesOf(runTaskId)

(* A start is asked for. *)
StartSent ==
  busyReq' # busyReq /\ busyReq' # None /\ busyReq'.kind = "start"
    /\ busyReq'.answer = "waiting"

(* A start names a revision whose graph is the one on the canvas, edits     *)
(* included: "A run needs the latest saved revision; persist first when     *)
(* there are edits" (run, save and its afterSave).  A graph that was        *)
(* imported and not saved since is exempt: importPipeline leaves no mark of *)
(* unsaved changes, and run() starts the revision saved before it.          *)
StartRunsWhatIsShown ==
  [][ StartSent /\ ~imported' => Content(graph') = server.contents[busyReq'.arg] ]_vars

(* A run that is polled and over is eventually not shown as running any     *)
(* more, unless its polling has died or has been replaced (startPolling,    *)
(* consumeSnapshot, TERMINAL_CONTROLLER_STATUSES).                          *)
Polls(r) == runTaskId = r /\ stream["poll"].run = r /\ stream["poll"].inner # "failed"

RunningEnds ==
  \A r \in 1..MaxRevision :
    (running /\ Polls(r) /\ r \in Runs /\ server.runs[r].phase = "over")
      ~> (~running \/ ~Polls(r))
=============================================================================
