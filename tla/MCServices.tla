----------------------------- MODULE MCServices -----------------------------
(* The four services around the scheduler, which share nothing, one at a time. *)
EXTENDS Plugins, EsSink, AuthCache, VaultSeal

CONSTANTS p1, p2, d1, d2

VARIABLE service

allVars == <<service, pluginVars, sinkVars, authVars, sealVars>>

TwoPlugins == {p1, p2}
TwoLoads == {"first", "second"}
TwoDocs == {d1, d2}
OneWorker == {"w"}
TwoConnectors == {"local", "sso"}
TwoChecks == {"c1", "c2"}
TwoEdits == {"e1", "e2"}

InPlugins(A) == service = "plugins" /\ A /\ UNCHANGED <<service, sinkVars, authVars, sealVars>>
InSink(A) == service = "sink" /\ A /\ UNCHANGED <<service, pluginVars, authVars, sealVars>>
InAuth(A) == service = "auth" /\ A /\ UNCHANGED <<service, pluginVars, sinkVars, sealVars>>
InSeal(A) == service = "seal" /\ A /\ UNCHANGED <<service, pluginVars, sinkVars, authVars>>

ServicesInit ==
    /\ service \in {"plugins", "sink", "auth", "seal"}
    /\ PluginsInit /\ SinkInit /\ AuthInit /\ SealInit

ServicesNext == InPlugins(PluginsNext) \/ InSink(SinkNext) \/ InAuth(AuthNext) \/ InSeal(SealNext)

\* Time passes, the plugin service is started again and its sweep is run, also when rows are
\* written in between; the sink's loop, callback and workers go on, its loop chooses between
\* the channels at random, and OpenSearch takes or refuses a document in the end; the core
\* service is started again, and each of its calls succeeds in the end.
ServicesSpec ==
    /\ ServicesInit /\ [][ServicesNext]_allVars
    /\ \A p \in Plugin : WF_allVars(InPlugins(RowAges(p) /\ ObservePlugins))
    /\ WF_allVars(InPlugins(BootService /\ ObservePlugins))
    /\ \A p \in Plugin :
          SF_allVars(InPlugins(p \in TimedOut /\ UpdatePluginInstallTimedOut /\ ObservePlugins))
    /\ WF_allVars(InSink(TakeInput \/ SkipInput \/ TakeRetry \/ Add))
    /\ SF_allVars(InSink(TakeRetry))
    /\ WF_allVars(InSink(QueueDoc \/ Ack))
    /\ \A w \in BulkWorker :
          /\ WF_allVars(InSink(WorkerStep(w)))
          /\ SF_allVars(InSink(Index(w) \/ Refuse(w)))
    /\ WF_allVars(InSeal(StartCore \/ StoreKeys \/ StoreKeysFails \/ SecretMissing
                         \/ GetKeysFails \/ FirstUnseal \/ FirstUnsealFails \/ StartTimesOut))
    /\ SF_allVars(InSeal(TryInit \/ VerifySecret))
    /\ SF_allVars(InSeal(FirstUnseal))

\* Either two plugins are loaded, the second without failing or hanging, and there is no other
\* request; or there is one plugin and one load at a time, and all requests, with integrations
\* either of users or of demo data.  Loads that overlap are followed no further.
OneAtATime ==
    /\ ~mixed
    /\ \/ /\ admin = Idle /\ uninstalled = {} /\ crossed = {}
          /\ adding \cup integrations \cup demos \cup demoing = {}
          /\ p2 \notin late /\ oper[p2] # "failed"
       \/ /\ install[p2] = "not_installed" /\ oper[p2] = "disabled" /\ load["second"] = Idle
          /\ p2 \notin integrations \cup adding \cup demos \cup demoing \cup late
          /\ demos \cup demoing = {} \/ adding \cup integrations \cup crossed = {}
          /\ admin # Idle => admin.of = p1
          /\ load["first"] # Idle => load["first"].of = p1

\* The second editor does more than create the user, and the second call of Check is made, not
\* at a time, and only while there is one row, of the first connector.
OneRowForTwo ==
    LET edits == edit["e2"].pc \notin {"idle", "create"}
        checks == check["c2"].pc # "idle"
    IN  /\ ~(edits /\ checks)
        /\ edits \/ checks => made <= 1 /\ rows[1].conn # "sso"
=============================================================================
