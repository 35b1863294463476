------------------------------ MODULE MCServices ------------------------------
(***************************************************************************)
(* The components that share no state with one another, for one run: a     *)
(* behaviour is a behaviour of one of them, chosen at its start, while the *)
(* others stay in their initial states.                                    *)
(***************************************************************************)
EXTENDS Scheduler, WebhookDelivery, ToolVersions, Translations, Discovery, Monitors,
        ToolCatalog, Newsletter, RequestThrottle, CacheAside, TLC

CONSTANTS r1, r2, r3, i1, a1   \* model values: records of tools, and batches

\* Three records: two of one website, two of one slug, all of one domain.
MCSlugOf == r1 :> "a" @@ r2 :> "b" @@ r3 :> "a"
MCSiteOf == r1 :> "x" @@ r2 :> "x" @@ r3 :> "y"
MCDomainOf == "x" :> "d" @@ "y" :> "d"
MCFileOf == i1 :> <<r3, r2>> @@ a1 :> <<r1, r2>>

VARIABLE active   \* the component that runs

all == <<active, scheduler, webhook, toolVersions, translations, discovery,
         monitors, catalog, newsletter, throttle, cacheAside>>

Components == {"scheduler", "webhook", "versions", "translations", "discovery",
               "monitors", "catalog", "newsletter", "throttle", "cache"}

ServicesInit ==
  /\ active \in Components
  /\ SchedulerInit /\ WebhookInit /\ ToolVersionsInit
  /\ TranslationsInit /\ DiscoveryInit /\ MonitorsInit
  /\ CatalogInit /\ NewsletterInit /\ ThrottleInit
  /\ CacheInit
  \* The choices of a component that does not run make no difference.
  /\ active # "monitors" => kind = "website"
  /\ active # "cache" => ~hashed

ServicesNext ==
  /\ UNCHANGED active
  /\ \/ /\ active = "scheduler" /\ SchedulerNext
        /\ UNCHANGED <<webhook, toolVersions, translations, discovery, monitors,
                       catalog, newsletter, throttle, cacheAside>>
     \/ /\ active = "webhook" /\ WebhookNext
        /\ UNCHANGED <<scheduler, toolVersions, translations, discovery, monitors,
                       catalog, newsletter, throttle, cacheAside>>
     \/ /\ active = "versions" /\ ToolVersionsNext
        /\ UNCHANGED <<scheduler, webhook, translations, discovery, monitors,
                       catalog, newsletter, throttle, cacheAside>>
     \/ /\ active = "translations" /\ TranslationsNext
        /\ UNCHANGED <<scheduler, webhook, toolVersions, discovery, monitors,
                       catalog, newsletter, throttle, cacheAside>>
     \/ /\ active = "discovery" /\ DiscoveryNext
        /\ UNCHANGED <<scheduler, webhook, toolVersions, translations, monitors,
                       catalog, newsletter, throttle, cacheAside>>
     \/ /\ active = "monitors" /\ MonitorsNext
        /\ UNCHANGED <<scheduler, webhook, toolVersions, translations, discovery,
                       catalog, newsletter, throttle, cacheAside>>
     \/ /\ active = "catalog" /\ CatalogNext
        /\ UNCHANGED <<scheduler, webhook, toolVersions, translations, discovery,
                       monitors, newsletter, throttle, cacheAside>>
     \/ /\ active = "newsletter" /\ NewsletterNext
        /\ UNCHANGED <<scheduler, webhook, toolVersions, translations, discovery,
                       monitors, catalog, throttle, cacheAside>>
     \/ /\ active = "throttle" /\ ThrottleNext
        /\ UNCHANGED <<scheduler, webhook, toolVersions, translations, discovery,
                       monitors, catalog, newsletter, cacheAside>>
     \/ /\ active = "cache" /\ CacheNext
        /\ UNCHANGED <<scheduler, webhook, toolVersions, translations, discovery,
                       monitors, catalog, newsletter, throttle>>

\* The fairness of each component, while it is the one that runs.
ServicesFair ==
  /\ \A t \in Ticks : WF_scheduler(active = "scheduler" /\ TickWork(t))
  /\ WF_webhook(active = "webhook" /\ EmitWork)
  /\ \A d \in RowIds : WF_webhook(active = "webhook" /\ SendWork(d))
  /\ WF_throttle(active = "throttle" /\ Tick)
  /\ \A q \in Requests : WF_throttle(active = "throttle" /\ QWork(q))

ServicesSpec == ServicesInit /\ [][ServicesNext]_all /\ ServicesFair

-----------------------------------------------------------------------------
\* The type invariants of the components.
ServicesTypeOK ==
  /\ active \in Components
  /\ SchedulerTypeOK /\ WebhookTypeOK /\ ToolVersionsTypeOK /\ TranslationsTypeOK
  /\ DiscoveryTypeOK /\ MonitorsTypeOK /\ CatalogTypeOK /\ NewsletterTypeOK
  /\ ThrottleTypeOK /\ CacheTypeOK
=============================================================================
