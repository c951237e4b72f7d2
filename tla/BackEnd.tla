------------------------------ MODULE BackEnd ------------------------------
(***************************************************************************)
(* The parts behind the sensor, side by side: the live feed with its hub,  *)
(* the intel resolver, the geo databases, the export, the metric store,    *)
(* the data directory, the dashboard, the process, the queries, and the    *)
(* live page in the browser.  They share no state in these modules, and no *)
(* property relates two of them, so an instance explores them one at a     *)
(* time: focus says which one moves, and the others keep one initial       *)
(* state.                                                                  *)
(***************************************************************************)
EXTENDS LiveFeed, Resolver, Geo, Export, MetricStore, DataDir, Dashboard, Process, Queries,
        WebClient

VARIABLE focus

storeVars == <<exportVars, metricVars, dirVars>>

webVars == <<dashVars, procVars, queryVars, clientVars>>

backVars == <<focus, feedVars, resVars, geoVars, storeVars, webVars>>

Parts == {"feed", "resolver", "geo", "export", "metrics", "datadir", "requests", "traces",
          "process", "queries", "stream", "panel"}

BackInit ==
    /\ focus \in Parts
    /\ FeedInit /\ (focus # "feed" => count = 0)
    /\ ResInit /\ ExportInit /\ MetricInit
    /\ GeoInitAt(IF focus = "geo" THEN "start" ELSE "closed")
    /\ IF focus = "datadir" THEN DirInitFor(OldDatabases, {Id}, "migrating")
       ELSE DirInitFor({CHOOSE d \in OldDatabases : TRUE}, {Id}, "failed")
    /\ DashInit /\ (focus # "requests" => ~auth)
    /\ ProcInit
    /\ QueryInit /\ (focus # "queries" => question = "campaigns")
    /\ ClientInit

BackNext ==
    /\ UNCHANGED focus
    /\ \/ focus = "feed" /\ FeedNext /\ UNCHANGED <<resVars, geoVars, storeVars, webVars>>
       \/ focus = "resolver" /\ ResNext /\ UNCHANGED <<feedVars, geoVars, storeVars, webVars>>
       \/ focus = "geo" /\ GeoNext /\ UNCHANGED <<feedVars, resVars, storeVars, webVars>>
       \/ /\ UNCHANGED <<feedVars, resVars, geoVars, webVars>>
          /\ \/ focus = "export" /\ ExportNext /\ UNCHANGED <<metricVars, dirVars>>
             \/ focus = "metrics" /\ MetricNext /\ UNCHANGED <<exportVars, dirVars>>
             \/ focus = "datadir" /\ DirNext /\ UNCHANGED <<exportVars, metricVars>>
       \/ /\ UNCHANGED <<feedVars, resVars, geoVars, storeVars>>
          /\ \/ focus = "requests" /\ RequestNext /\ UNCHANGED <<procVars, queryVars, clientVars>>
             \/ focus = "traces" /\ TraceNext /\ UNCHANGED <<procVars, queryVars, clientVars>>
             \/ focus = "process" /\ ProcNext /\ UNCHANGED <<dashVars, queryVars, clientVars>>
             \/ focus = "queries" /\ QueryNext /\ UNCHANGED <<dashVars, procVars, clientVars>>
             \/ focus = "stream" /\ StreamNext /\ UNCHANGED <<dashVars, procVars, queryVars>>
             \/ focus = "panel" /\ PanelNext /\ UNCHANGED <<dashVars, procVars, queryVars>>

\* The fairness of each part, asked only of the part that moves.
BackFairness ==
    /\ WF_geoVars(focus = "geo" /\ GeoWork)
    /\ \A t \in Tracer : WF_dashVars(focus = "traces" /\ TraceWork(t))
    /\ WF_procVars(focus = "process" /\ ProcPrompt)
    /\ \A c \in Call : WF_panelVars(focus = "panel" /\ (PollBans(c) \/ ServeBans(c) \/ ApplyBans(c)))
    /\ WF_panelVars(focus = "panel" /\ \E c \in Call : ToggleDone(c))

BackSpec == BackInit /\ [][BackNext]_backVars /\ BackFairness

=============================================================================
