-------------------------- MODULE ExperimentsTable ---------------------------
(***************************************************************************)
(* The table of tasks of the web application: the effects that fetch it    *)
(* (common-experiments-view.effects.ts), the reducer they dispatch to, and *)
(* the scroll position that the API server keeps for the client.           *)
(*                                                                         *)
(* Three effects fetch rows, each with a switchMap of its own: a refetch   *)
(* from the first row, a refresh of the rows that are shown, and the next  *)
(* page.  They share the rows, the scroll id and the pending mark of the   *)
(* store, and a request of one is not cancelled by the others.             *)
(***************************************************************************)
EXTENDS Integers, Sequences, FiniteSets

CONSTANTS
  None,
  Task,
  Filter,        \* what the url selects, and what is searched for
  Matches,       \* Matches[f]: the tasks that f selects
  PageSize,      \* EXPERIMENTS_PAGE_SIZE
  Scrolls,       \* names for the scroll ids that somebody may still use
  Sessions       \* the tasks, auto refresh, the url, what the page before left,
                 \* and a budget of events

ASSUME TableAssumption ==
  /\ PageSize \in Nat \ {0} /\ Matches \in [Filter -> SUBSET Task]
  /\ \A s \in Sessions : /\ s.tasks \in Seq(Task) /\ s.filter \in Filter
                        /\ {s.autoRefresh, s.refreshList} \subseteq BOOLEAN

(* uuid4 always finds a new id: the table and four requests can use no more *)
(* than eight when one is to be drawn.                                      *)
ASSUME ScrollsAssumption == IsFiniteSet(Scrolls) => Cardinality(Scrolls) >= 9

VARIABLES
  tasks, position,                             \* server: newest first; of a scroll
  experiments, scrollId, refreshList, noMoreExperiment,        \* store, the view
  selectedExperiment, loading,
  url, filter, search,                         \* what the next request asks for
  refreshActions, lockRefresh, audit, request, \* effects
  cancelled,                                   \* a request nobody waits for
  creating, archiving, selecting, ended,
  late, disturbed, unanswered,                 \* history
  autoRefresh, budget

server == <<tasks, position>>
view == <<experiments, scrollId, refreshList, noMoreExperiment>>
query == <<url, filter, search>>
others == <<creating, archiving, selecting, ended>>
history == <<late, disturbed, unanswered>>
vars == <<server, view, selectedExperiment, loading, query, refreshActions, lockRefresh,
          audit, request, cancelled, others, history, autoRefresh, budget>>

Kinds == {"refetch", "refresh", "next"}
Refetching == {"getExperiments", "getExperimentsWithPageSize", "globalFilterChanged",
               "setTableFilters", "tableFilterChanged"}
Rows(s) == {s[i] : i \in DOMAIN s}

(* filter: the members of s that are in S, in order. *)
Only(s, S) ==
  LET kept[i \in 0..Len(s)] ==
        IF i = 0 THEN <<>>
        ELSE IF s[i] \in S THEN Append(kept[i - 1], s[i]) ELSE kept[i - 1]
  IN kept[Len(s)]

(* The tasks a query selects, in order, and a page of them. *)
Selected(q) == Only(tasks, Matches[q[1]] \intersect Matches[q[2]])
PageOf(q, start, size) ==
  LET all == Selected(q)
  IN SubSeq(all, start + 1, IF start + size < Len(all) THEN start + size ELSE Len(all))
Query == <<filter, search>>

(* fetchExperiments$: the query is read when the request is sent, and a     *)
(* refresh or a page remembers what the store then held.                    *)
Fetch(type, scroll, whole, size) ==
  [type |-> type, scroll |-> scroll, whole |-> whole, size |-> size, query |-> Query,
   pending |-> FALSE, shown |-> None, selected |-> FALSE,
   phase |-> "sent", sid |-> None, start |-> 0, data |-> <<>>]

FetchOn(type, whole) ==
  [Fetch(type, scrollId, whole, PageSize) EXCEPT
     !.pending = refreshList, !.shown = experiments, !.selected = selectedExperiment]

Requests ==
  [type : Refetching \union {"auto", "manual", "next"}, scroll : Scrolls \union {None},
   whole : BOOLEAN, size : Nat, query : Filter \X Filter, pending : BOOLEAN,
   shown : Seq(Task) \union {None}, selected : BOOLEAN,
   phase : {"sent", "read", "answered"}, sid : Scrolls \union {None}, start : Nat,
   data : Seq(Task)]

Audits == [type : Refetching, size : Nat]

ASSUME NoneAssumption ==
  None \notin Task \union Filter \union Scrolls \union Seq(Task) \union Requests \union Audits

(* switchMap: a new request of an effect cancels the one before it, which   *)
(* the server may still be serving.                                         *)
Switch(kind, r) ==
  /\ request' = [request EXCEPT ![kind] = r]
  /\ \/ UNCHANGED cancelled
     \/ /\ request[kind] # None /\ request[kind].scroll # None
        /\ cancelled' = [request[kind] EXCEPT !.shown = None, !.selected = FALSE]
  /\ disturbed' = (disturbed \/ \E k \in Kinds : request[k] # None)

Alone(kind) == cancelled = None /\ \A k \in Kinds \ {kind} : request[k] = None
Done(kind) == request' = [request EXCEPT ![kind] = None]
Spend(kind) == budget[kind] > 0 /\ budget' = [budget EXCEPT ![kind] = @ - 1]

ReFetch_Last(types, last, size) ==
  /\ refreshActions' = {last}
  /\ audit' = [type |-> last, size |-> size]

(* An action of reFetchExperiment: it is remembered until a fetch succeeds, *)
(* and the last one in 50 ms is sent.                                       *)
ReFetch(types, last, size) ==
  /\ refreshActions' = refreshActions \union types
  /\ audit' = [type |-> last, size |-> size]

TypeOK ==
  /\ tasks \in Seq(Task)
  /\ DOMAIN position \subseteq Scrolls /\ \A s \in DOMAIN position : position[s] \in Nat
  /\ experiments \in Seq(Task) \union {None} /\ scrollId \in Scrolls \union {None}
  /\ {refreshList, noMoreExperiment, selectedExperiment, lockRefresh, late, disturbed,
      unanswered, autoRefresh} \subseteq BOOLEAN
  /\ loading \subseteq Refetching \union {"getNextExperiments", "selectAllExperiments"}
  /\ url \in Filter \union {None} /\ filter \in Filter /\ search \in Filter
  /\ refreshActions \subseteq Refetching
  /\ audit \in Audits \union {None}
  /\ request \in [Kinds -> Requests \union {None}] /\ cancelled \in Requests \union {None}
  /\ creating \in {"no", "sent", "created"} /\ archiving \in Task \union {None}
  /\ selecting \in BOOLEAN /\ ended \subseteq {"createExperiment", "selectAll"}

-----------------------------------------------------------------------------
(* The page is opened, perhaps after one whose list was to be refreshed:    *)
(* its url is about to be followed.                                         *)
Init ==
  /\ \E s \in Sessions : /\ tasks = s.tasks /\ autoRefresh = s.autoRefresh
                        /\ filter = s.filter /\ search = s.filter /\ url = s.filter
                        /\ budget = s.budget /\ refreshList = s.refreshList
                        /\ scrollId = IF s.refreshList THEN CHOOSE id \in Scrolls : TRUE
                                      ELSE None
  /\ position = [s \in {} |-> 0]
  /\ experiments = None
  /\ noMoreExperiment = FALSE /\ selectedExperiment = FALSE /\ loading = {}
  /\ refreshActions = {} /\ lockRefresh = FALSE /\ audit = None
  /\ request = [k \in Kinds |-> None] /\ cancelled = None
  /\ creating = "no" /\ archiving = None /\ selecting = FALSE /\ ended = {}
  /\ late = FALSE /\ disturbed = FALSE /\ unanswered = FALSE

(* The page follows its url: setTableFilters, then getExperiments. *)
FollowUrl ==
  /\ url # None /\ url' = None /\ filter' = url
  /\ ReFetch({"setTableFilters", "getExperiments"}, "getExperiments", PageSize)
  /\ loading' = loading \union {"getExperiments"}
  /\ UNCHANGED <<server, view, selectedExperiment, search, lockRefresh, request, cancelled,
                 others, history, autoRefresh, budget>>

(* A filter of a column: the fetch is asked for before the url is changed. *)
TableFilterChanged ==
  /\ Spend("query") /\ url' \in Filter \ {filter}
  /\ ReFetch({"tableFilterChanged"}, "tableFilterChanged", PageSize)
  /\ UNCHANGED <<server, view, selectedExperiment, loading, filter, search, lockRefresh,
                 request, cancelled, others, history, autoRefresh>>

GlobalFilterChanged ==
  /\ Spend("query") /\ search' \in Filter \ {search}
  /\ ReFetch({"globalFilterChanged"}, "globalFilterChanged", PageSize)
  /\ loading' = loading \union {"globalFilterChanged"}
  /\ UNCHANGED <<server, view, selectedExperiment, url, filter, lockRefresh, request,
                 cancelled, others, history, autoRefresh>>

(* Another project: resetExperiments leaves the scroll and the mark behind. *)
OpenProject ==
  /\ Spend("query") /\ filter' \in Filter /\ url' = filter'
  /\ experiments' = None /\ selectedExperiment' = FALSE
  /\ UNCHANGED <<server, scrollId, refreshList, noMoreExperiment, loading, search,
                 refreshActions, lockRefresh, audit, request, cancelled, others, history,
                 autoRefresh>>

SelectExperiment ==
  /\ Spend("select") /\ experiments # None /\ experiments # <<>>
  /\ selectedExperiment' = ~selectedExperiment
  /\ UNCHANGED <<server, view, loading, query, refreshActions, lockRefresh, audit, request,
                 cancelled, others, history, autoRefresh>>

SendRefetch_Exhaust ==
  /\ audit # None /\ audit' = None
  /\ IF request["refetch"] = None
     THEN Switch("refetch", Fetch(audit.type, None, TRUE, audit.size))
     ELSE UNCHANGED <<request, cancelled, disturbed>>
  /\ UNCHANGED <<server, view, selectedExperiment, loading, query, refreshActions,
                 lockRefresh, others, late, unanswered, autoRefresh, budget>>

SendRefetch ==
  /\ audit # None /\ audit' = None
  /\ Switch("refetch", Fetch(audit.type, None, TRUE, audit.size))
  /\ UNCHANGED <<server, view, selectedExperiment, loading, query, refreshActions,
                 lockRefresh, others, late, unanswered, autoRefresh, budget>>

(* refreshExperiments is dropped while a manual refresh is on its way. *)
RefreshExperiments(auto) ==
  IF lockRefresh
  THEN UNCHANGED <<lockRefresh, request, cancelled, disturbed>>
  ELSE /\ lockRefresh' = ~auto
       /\ Switch("refresh", FetchOn(IF auto THEN "auto" ELSE "manual", TRUE))

(* A tick of the timer.  Ticks that find the one before unanswered after    *)
(* ten seconds are bounded.                                                 *)
AutoRefresh ==
  /\ autoRefresh /\ RefreshExperiments(TRUE)
  /\ IF request["refresh"] = None \/ lockRefresh THEN UNCHANGED budget ELSE Spend("slow")
  /\ UNCHANGED <<server, view, selectedExperiment, loading, query, refreshActions, audit,
                 others, late, unanswered, autoRefresh>>

RefreshButton ==
  /\ Spend("refresh") /\ RefreshExperiments(FALSE)
  /\ UNCHANGED <<server, view, selectedExperiment, loading, query, refreshActions, audit,
                 others, late, unanswered, autoRefresh>>

GetNextExperiments ==
  /\ Spend("page") /\ experiments # None /\ experiments # <<>> /\ ~noMoreExperiment
  /\ loading' = loading \union {"getNextExperiments"}
  /\ Switch("next", FetchOn("next", FALSE))
  /\ UNCHANGED <<server, view, selectedExperiment, query, refreshActions, lockRefresh, audit,
                 others, late, unanswered, autoRefresh>>

-----------------------------------------------------------------------------
(* get_data_with_scroll_support: the position is read with the data and     *)
(* written afterwards; an unknown scroll gets a new id.                     *)
Named ==
  {scrollId} \union UNION {{r.scroll, r.sid} : r \in ({cancelled} \union
     {request[k] : k \in Kinds}) \ {None}}

Read_Unnamed(r) ==
  LET at == IF r.scroll \in DOMAIN position THEN position[r.scroll] ELSE 0
      start == IF r.whole THEN 0 ELSE at
      size == IF r.whole /\ at > r.size THEN at ELSE r.size
  IN [r EXCEPT !.phase = "read", !.sid = r.scroll, !.start = start,
               !.data = PageOf(r.query, start, size)]

Read(r) ==
  LET known == r.scroll # None /\ r.scroll \in DOMAIN position
      at == IF known THEN position[r.scroll] ELSE 0
      start == IF r.whole THEN 0 ELSE at
      size == IF r.whole /\ at > r.size THEN at ELSE r.size
      Fresh == CHOOSE s \in Scrolls : s \notin Named
  IN [r EXCEPT !.phase = "read", !.sid = IF known THEN r.scroll ELSE Fresh,
               !.start = start, !.data = PageOf(r.query, start, size)]

Scrolled_Size(r) ==
  position' = [s \in (DOMAIN position \intersect Named) \union {r.sid} |->
                 IF s = r.sid THEN r.start + r.size ELSE position[s]]

Scrolled(r) ==
  position' = [s \in (DOMAIN position \intersect Named) \union {r.sid} |->
                 IF s = r.sid THEN r.start + Len(r.data) ELSE position[s]]

(* validate_scroll_size refuses to fetch no rows. *)
ServeRead(kind) ==
  /\ request[kind] # None /\ request[kind].phase = "sent" /\ request[kind].size > 0
  /\ request' = [request EXCEPT ![kind] = Read(@)]
  /\ UNCHANGED <<tasks, position, view, selectedExperiment, loading, query, refreshActions,
                 lockRefresh, audit, cancelled, others, history, autoRefresh, budget>>

ServeWrite(kind) ==
  /\ request[kind] # None /\ request[kind].phase = "read"
  /\ request' = [request EXCEPT ![kind].phase = "answered"]
  /\ Scrolled(request[kind])
  /\ UNCHANGED <<tasks, view, selectedExperiment, loading, query, refreshActions,
                 lockRefresh, audit, cancelled, others, history, autoRefresh, budget>>

(* A cancelled request writes its position late, or is never heard of. *)
ServeCancelled ==
  /\ cancelled # None /\ cancelled' = None
  /\ \/ UNCHANGED position
     \/ LET r == IF cancelled.phase = "sent" THEN Read(cancelled) ELSE cancelled
        IN r.sid = cancelled.scroll /\ Scrolled(r)
  /\ UNCHANGED <<tasks, view, selectedExperiment, loading, query, refreshActions,
                 lockRefresh, audit, request, others, history, autoRefresh, budget>>

(* scroll_state_expiration_seconds have passed, or Redis was restarted. *)
Expire ==
  /\ Spend("expire") /\ DOMAIN position # {}
  /\ position' = [s \in {} |-> 0]
  /\ UNCHANGED <<tasks, view, selectedExperiment, loading, query, refreshActions,
                 lockRefresh, audit, request, cancelled, others, history, autoRefresh>>

(* Somebody else adds a task, or archives one. *)
ChangedElsewhere ==
  /\ Spend("change")
  /\ \/ \E t \in Task \ Rows(tasks) : tasks' = <<t>> \o tasks
     \/ \E t \in Rows(tasks) : tasks' = Only(tasks, Task \ {t})
  /\ UNCHANGED <<position, view, selectedExperiment, loading, query,
                 refreshActions, lockRefresh, audit, request, cancelled, others, history,
                 autoRefresh>>

-----------------------------------------------------------------------------
RefetchAnswered ==
  LET r == request["refetch"]
  IN /\ r # None /\ r.phase = "answered" /\ Done("refetch")
     /\ noMoreExperiment' = (Len(r.data) < PageSize)
     /\ experiments' = r.data /\ scrollId' = r.sid
     /\ loading' = loading \ refreshActions /\ refreshActions' = {}
     /\ late' = FALSE /\ unanswered' = FALSE
     /\ disturbed' = (disturbed /\ ~(Alone("refetch") /\ archiving = None))
     /\ UNCHANGED <<server, refreshList, selectedExperiment, query, lockRefresh, audit,
                    cancelled, others, autoRefresh, budget>>

(* The error deactivates the loader of the action that was sent.  A fetch   *)
(* of as many rows as an empty table had is always refused.                 *)
RefetchFailed ==
  LET r == request["refetch"]
  IN /\ r # None /\ Done("refetch")
     /\ Spend("fail") \/ (r.size = 0 /\ UNCHANGED budget)
     /\ loading' = loading \ {r.type}
     /\ unanswered' = TRUE /\ disturbed' = TRUE
     /\ UNCHANGED <<server, view, selectedExperiment, query, refreshActions, lockRefresh,
                    audit, cancelled, others, late, autoRefresh>>

(* A pending refresh fetches as many rows as the request had seen shown. *)
FetchAgain(r) ==
  /\ ReFetch({"getExperimentsWithPageSize"}, "getExperimentsWithPageSize", Len(r.shown))
  /\ refreshList' = FALSE

RefreshedRows_Selected(r) ==
  IF r.selected /\ r.shown # None
  THEN IF experiments = None THEN None
       ELSE Only(experiments, Rows(r.data))
  ELSE r.data

(* The rows of a refresh: in place while a task is selected and the ids are *)
(* the same as when it was sent.                                            *)
RefreshedRows(r) ==
  IF r.selected /\ r.shown # None /\ Len(r.shown) = Len(r.data) /\ Rows(r.shown) = Rows(r.data)
  THEN IF experiments = None THEN None
       ELSE Only(experiments, Rows(r.data))
  ELSE r.data

(* Every end of a refresh gives the lock back. *)
Unlock_Answered == lockRefresh' = (lockRefresh /\ request["refresh"].phase # "answered")

Unlock == lockRefresh' = FALSE

RefreshAnswered ==
  LET r == request["refresh"]
      expired == r.scroll # None /\ r.sid # r.scroll
      replaces == r.type = "auto" \/ r.sid = r.scroll
  IN /\ r # None /\ r.phase = "answered" /\ Done("refresh") /\ Unlock
     /\ ~(r.pending /\ r.shown = None)
     /\ IF r.pending
        THEN FetchAgain(r) /\ UNCHANGED <<experiments, scrollId, noMoreExperiment, late>>
        ELSE /\ scrollId' = IF expired THEN r.sid ELSE scrollId
             /\ noMoreExperiment' = IF expired THEN Len(r.data) < PageSize ELSE noMoreExperiment
             /\ refreshList' = (refreshList \/ (expired /\ r.type = "manual"))
             /\ experiments' = IF replaces THEN RefreshedRows(r) ELSE experiments
             /\ late' = (late \/ (replaces /\ r.query # Query))
             /\ UNCHANGED <<refreshActions, audit>>
     /\ UNCHANGED <<server, selectedExperiment, loading, query, cancelled, others,
                    disturbed, unanswered, autoRefresh, budget>>

(* The request fails, or its answer cannot be handled: a refresh was        *)
(* pending and the table had no rows whose number could be asked for.       *)
RefreshFailed ==
  LET r == request["refresh"]
  IN /\ r # None /\ Done("refresh") /\ Unlock
     /\ \/ Spend("fail") /\ disturbed' = TRUE
        \/ r.phase = "answered" /\ r.pending /\ r.shown = None /\ UNCHANGED <<budget, disturbed>>
     /\ UNCHANGED <<server, view, selectedExperiment, loading, query, refreshActions, audit,
                    cancelled, others, late, unanswered, autoRefresh>>

NextAnswered ==
  LET r == request["next"]
      continues == r.scroll = r.sid \/ r.scroll = None
  IN /\ r # None /\ r.phase = "answered" /\ Done("next")
     /\ loading' = loading \ {"getNextExperiments"}
     /\ IF r.pending
        THEN FetchAgain(r) /\ UNCHANGED <<experiments, scrollId, noMoreExperiment, late>>
        ELSE /\ noMoreExperiment' = (Len(r.data) < PageSize)
             /\ experiments' = IF continues /\ experiments # None THEN experiments \o r.data
                               ELSE experiments
             /\ refreshList' = (refreshList \/ ~continues)
             /\ scrollId' = r.sid
             /\ late' = (late \/ r.query # Query)
             /\ UNCHANGED <<refreshActions, audit>>
     /\ disturbed' = (disturbed \/ r.scroll = None)
     /\ UNCHANGED <<server, selectedExperiment, query, lockRefresh, cancelled, others,
                    unanswered, autoRefresh, budget>>

NextFailed_Loading ==
  /\ request["next"] # None /\ Spend("fail") /\ Done("next") /\ disturbed' = TRUE
  /\ UNCHANGED <<server, view, selectedExperiment, query, refreshActions, lockRefresh, audit,
                 loading, cancelled, others, late, unanswered, autoRefresh>>

NextFailed ==
  /\ request["next"] # None /\ Spend("fail") /\ Done("next")
  /\ loading' = loading \ {"getNextExperiments"} /\ disturbed' = TRUE
  /\ UNCHANGED <<server, view, selectedExperiment, query, refreshActions, lockRefresh, audit,
                 cancelled, others, late, unanswered, autoRefresh>>

-----------------------------------------------------------------------------
(* The effects whose catchError ends them: what is asked after a failure is *)
(* not even sent.                                                           *)
CreateExperiment ==
  /\ Spend("create") /\ Rows(tasks) # Task
  /\ creating' = IF "createExperiment" \in ended THEN creating ELSE "sent"
  /\ UNCHANGED <<server, view, selectedExperiment, loading, query, refreshActions,
                 lockRefresh, audit, request, cancelled, archiving, selecting, ended, history,
                 autoRefresh>>

ServeCreate ==
  /\ creating = "sent" /\ creating' = "created"
  /\ \E t \in Task \ Rows(tasks) : tasks' = <<t>> \o tasks
  /\ UNCHANGED <<position, view, selectedExperiment, loading, query,
                 refreshActions, lockRefresh, audit, request, cancelled, archiving, selecting,
                 ended, history, autoRefresh, budget>>

(* createExperimentSuccess asks for a manual refresh. *)
CreateAnswered ==
  /\ creating = "created" /\ creating' = "no" /\ RefreshExperiments(FALSE)
  /\ UNCHANGED <<server, view, selectedExperiment, loading, query, refreshActions, audit,
                 archiving, selecting, ended, late, unanswered, autoRefresh, budget>>

CreateFailed ==
  /\ creating # "no" /\ Spend("fail")
  /\ creating' = "no" /\ ended' = ended \union {"createExperiment"}
  /\ UNCHANGED <<server, view, selectedExperiment, loading, query, refreshActions,
                 lockRefresh, audit, request, cancelled, archiving, selecting, history,
                 autoRefresh>>

SelectAllExperiments ==
  /\ Spend("select") /\ loading' = loading \union {"selectAllExperiments"}
  /\ selecting' = ("selectAll" \notin ended)
  /\ UNCHANGED <<server, view, selectedExperiment, query, refreshActions, lockRefresh, audit,
                 request, cancelled, creating, archiving, ended, history, autoRefresh>>

SelectAllAnswered ==
  /\ selecting /\ selecting' = FALSE /\ loading' = loading \ {"selectAllExperiments"}
  /\ \/ UNCHANGED <<ended, budget>>
     \/ Spend("fail") /\ ended' = ended \union {"selectAll"}
  /\ UNCHANGED <<server, view, selectedExperiment, query, refreshActions, lockRefresh, audit,
                 request, cancelled, creating, archiving, history, autoRefresh>>

(* archiveSelectedExperiments, and its answer: removeExperiments and        *)
(* getExperiments.                                                          *)
Archive ==
  /\ Spend("archive") /\ experiments # None /\ archiving = None
  /\ \E t \in Rows(experiments) \intersect Rows(tasks) :
       archiving' = t /\ tasks' = Only(tasks, Task \ {t})
  /\ UNCHANGED <<position, view, selectedExperiment, loading, query,
                 refreshActions, lockRefresh, audit, request, cancelled, creating, selecting,
                 ended, history, autoRefresh>>

ArchiveAnswered ==
  /\ archiving # None /\ archiving' = None
  /\ experiments' = IF experiments = None THEN None
                    ELSE Only(experiments, Task \ {archiving})
  /\ ReFetch({"getExperiments"}, "getExperiments", PageSize)
  /\ loading' = loading \union {"getExperiments"} /\ disturbed' = TRUE
  /\ UNCHANGED <<server, scrollId, refreshList, noMoreExperiment, selectedExperiment, query,
                 lockRefresh, request, cancelled, creating, selecting, ended, late, unanswered,
                 autoRefresh, budget>>

Next ==
  \/ FollowUrl \/ TableFilterChanged \/ GlobalFilterChanged \/ OpenProject
  \/ SelectExperiment \/ SendRefetch \/ AutoRefresh \/ RefreshButton \/ GetNextExperiments
  \/ \E k \in Kinds : ServeRead(k)
  \/ \E k \in Kinds : ServeWrite(k)
  \/ ServeCancelled \/ Expire \/ ChangedElsewhere
  \/ RefetchAnswered \/ RefetchFailed \/ RefreshAnswered \/ RefreshFailed
  \/ NextAnswered \/ NextFailed
  \/ CreateExperiment \/ ServeCreate \/ CreateAnswered \/ CreateFailed
  \/ SelectAllExperiments \/ SelectAllAnswered \/ Archive \/ ArchiveAnswered

-----------------------------------------------------------------------------
(* A request that is not cancelled is answered in the end, and              *)
(* AUTO_REFRESH_INTERVAL keeps ticking.                                     *)
Progress(kind) ==
  ServeRead(kind) \/ ServeWrite(kind)
    \/ CASE kind = "refetch" -> RefetchAnswered \/ RefetchFailed
         [] kind = "refresh" -> RefreshAnswered \/ RefreshFailed
         [] kind = "next" -> NextAnswered

Fairness ==
  /\ WF_vars(FollowUrl) /\ WF_vars(SendRefetch) /\ WF_vars(AutoRefresh)
  /\ WF_vars(SelectAllAnswered) /\ \A k \in Kinds : WF_vars(Progress(k))

Spec == Init /\ [][Next]_vars /\ Fairness

-----------------------------------------------------------------------------
(* The lock is held exactly by a manual refresh on its way: it is never     *)
(* lost, and never left behind by a request that failed or was cancelled    *)
(* (refreshExperiments).                                                    *)
RefreshLockIsOwned ==
  lockRefresh <=> request["refresh"] # None /\ request["refresh"].type = "manual"

(* A spinner that is on has somebody to switch it off: a page or a          *)
(* selection on its way, or the actions that the next successful fetch      *)
(* clears.  That of a selection stays once the effect has ended             *)
(* (activeLoader, reFetchExperiment, getNextExperiments, selectAll).        *)
SpinnersAreOwed ==
  /\ loading \intersect Refetching \subseteq refreshActions
  /\ "getNextExperiments" \in loading => request["next"] # None
  /\ "selectAllExperiments" \in loading => selecting \/ "selectAll" \in ended

(* Once the last fetch has succeeded, the rows match the filters and the    *)
(* search of the moment, however they were changed meanwhile, unless a page *)
(* or a refresh of the query before came later still (reFetchExperiment,    *)
(* fetchExperiments$).                                                      *)
RowsAreOfTheQuery ==
  url = None /\ audit = None /\ request["refetch"] = None
    /\ ~late /\ ~unanswered /\ experiments # None
  => Rows(experiments) \subseteq Matches[filter] \intersect Matches[search]

(* The next page is counted from where the rows end: the position the       *)
(* server keeps for the scroll of the store is the number of rows, unless   *)
(* the table is marked to be refreshed (refreshList), requests overlapped   *)
(* or failed, a row was removed, or a page was asked for before there was a *)
(* scroll, which repeats the rows.  It is about the numbers only: a task    *)
(* that was added elsewhere moves the others, and the next page repeats a   *)
(* row (get_data_with_scroll_support and the three effects).                *)
NextPageContinues ==
  /\ audit = None /\ \A k \in Kinds : request[k] = None
  /\ ~disturbed /\ ~refreshList /\ experiments # None
  /\ scrollId \in DOMAIN position
  => position[scrollId] = Len(experiments)

(* With auto refresh the table ends up with the first tasks of its query,   *)
(* at least a page of them, whatever happened, overlapped or failed before. *)
(* It does not when the first fetch of a project failed while the list of   *)
(* the one before was to be refreshed: every refresh then breaks on the     *)
(* rows that are missing (refreshExperiments).                              *)
UpToDate ==
  /\ experiments # None
  /\ LET n == IF Len(experiments) < PageSize THEN PageSize ELSE Len(experiments)
     IN Rows(experiments) = Rows(PageOf(Query, 0, n))

Broken == experiments = None /\ refreshList

TableCatchesUp == <>[]~autoRefresh \/ <>[](UpToDate \/ Broken)

(* Spinners stop, except that of a selection asked for after one failed,    *)
(* and those of a fetch that failed and has not succeeded since.            *)
NoSpinner ==
  /\ loading \intersect Refetching # {} => unanswered
  /\ "getNextExperiments" \notin loading
  /\ "selectAllExperiments" \in loading => "selectAll" \in ended

SpinnersStop == <>[]NoSpinner
=============================================================================
