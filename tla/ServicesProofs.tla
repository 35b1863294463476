---------------------------- MODULE ServicesProofs ----------------------------
(***************************************************************************)
(* Proofs about the specification that runs one of the components that     *)
(* share no state: what is proved of each of them holds of it too, so what *)
(* its run checks on small instances holds for every value of the          *)
(* constants.                                                              *)
(***************************************************************************)
EXTENDS MCServices, AutomationProofs, CatalogProofs, PlatformProofs

-----------------------------------------------------------------------------
(* A step of the services is a step of one component, or none of it *)

LEMMA StepsOfAutomation ==
  ASSUME [ServicesNext]_all
  PROVE  /\ [SchedulerNext]_scheduler /\ [DiscoveryNext]_discovery
         /\ [MonitorsNext]_monitors /\ [NewsletterNext]_newsletter
<1>1. CASE ServicesNext
  BY <1>1 DEF ServicesNext
<1>2. CASE UNCHANGED all
  BY <1>2 DEF all
<1> QED
  BY <1>1, <1>2

LEMMA StepsOfCatalog ==
  ASSUME [ServicesNext]_all
  PROVE  /\ [ToolVersionsNext]_toolVersions /\ [CatalogNext]_catalog
         /\ [TranslationsNext]_translations /\ [CacheNext]_cacheAside
<1>1. CASE ServicesNext
  BY <1>1 DEF ServicesNext
<1>2. CASE UNCHANGED all
  BY <1>2 DEF all
<1> QED
  BY <1>1, <1>2

LEMMA StepsOfPlatform ==
  ASSUME [ServicesNext]_all
  PROVE  /\ [WebhookNext]_webhook /\ [ThrottleNext]_throttle
         /\ active' = active
<1>1. CASE ServicesNext
  BY <1>1 DEF ServicesNext
<1>2. CASE UNCHANGED all
  BY <1>2 DEF all
<1> QED
  BY <1>1, <1>2

-----------------------------------------------------------------------------
(* Each component behaves as its own specification says *)

\* Fairness apart: that of a component holds only in the behaviours it runs in.
LEMMA ServicesBehave ==
  ServicesSpec =>
    /\ SchedulerInit /\ [][SchedulerNext]_scheduler
    /\ WebhookInit /\ [][WebhookNext]_webhook
    /\ ThrottleInit /\ [][ThrottleNext]_throttle
    /\ ToolVersionsSpec /\ TranslationsSpec /\ CatalogSpec /\ CacheSpec
    /\ DiscoverySpec /\ MonitorsSpec /\ NewsletterSpec
<1>1. ServicesInit =>
        /\ SchedulerInit /\ WebhookInit /\ ThrottleInit /\ ToolVersionsInit
        /\ TranslationsInit /\ CatalogInit /\ CacheInit /\ DiscoveryInit
        /\ MonitorsInit /\ NewsletterInit
  BY DEF ServicesInit
<1>2. [ServicesNext]_all =>
        /\ [SchedulerNext]_scheduler /\ [DiscoveryNext]_discovery
        /\ [MonitorsNext]_monitors /\ [NewsletterNext]_newsletter
  BY StepsOfAutomation
<1>3. [ServicesNext]_all =>
        /\ [ToolVersionsNext]_toolVersions /\ [CatalogNext]_catalog
        /\ [TranslationsNext]_translations /\ [CacheNext]_cacheAside
  BY StepsOfCatalog
<1>4. [ServicesNext]_all => [WebhookNext]_webhook /\ [ThrottleNext]_throttle
  BY StepsOfPlatform
<1> QED
  BY <1>1, <1>2, <1>3, <1>4, PTL
  DEF ServicesSpec, ToolVersionsSpec, TranslationsSpec, CatalogSpec, CacheSpec,
      DiscoverySpec, MonitorsSpec, NewsletterSpec

-----------------------------------------------------------------------------

\* The type invariants of all the components, whichever of them runs.
THEOREM ServicesTypeCorrect == ServicesSpec => []ServicesTypeOK
<1>1. ServicesSpec => [](active \in Components)
  <2>1. ServicesInit => active \in Components
    BY DEF ServicesInit
  <2>2. active \in Components /\ [ServicesNext]_all => (active \in Components)'
    BY StepsOfPlatform DEF Components
  <2> QED
    BY <2>1, <2>2, PTL DEF ServicesSpec
<1>2. /\ active \in Components
      /\ SchedulerTypeOK /\ WebhookTypeOK /\ ThrottleTypeInv /\ ToolVersionsTypeOK
      /\ TranslationsTypeOK /\ CatalogTypeOK /\ CacheTypeOK /\ DiscoveryTypeOK
      /\ MonitorsTypeOK /\ NewsletterTypeOK
      => ServicesTypeOK
  BY DEF ServicesTypeOK, ThrottleTypeInv
<1> QED
  BY <1>1, <1>2, ServicesBehave, SchedulerTyped, DeliveriesTyped, ThrottleTypeInvariant,
     VersionsTypeCorrect, TranslationsTypeCorrect, CatalogTypeCorrect, CacheTypeCorrect,
     DiscoveryTypeCorrect, MonitorsTypeCorrect, NewsletterTypeCorrect, PTL

\* Every safety invariant that the run of the services checks.
THEOREM ServicesAreSafe ==
  ServicesSpec =>
    [](/\ StrandedOnlyByFaults /\ OneJobPerDue /\ AttemptsBacked /\ EveryDeliverySettles
       /\ NumbersInOrder /\ NewOnce /\ PublishedIsNewest /\ ChangesChain
       /\ LostOnlyByBreaks /\ SiteOnce /\ CampaignReaches /\ BurstBounded /\ StaleBounded)
BY ServicesBehave, StrandedAlways, OneJobAlways, BackedAlways, SettlesAlways,
   VersionsInOrder, UrlsAreNewOnce, PublishesTheNewest, EventsAreAHistory,
   FailuresLoseOneVersion, OneToolPerSite, CampaignReachesItsReaders, BurstsAlways,
   AnswersAreFresh, PTL
=============================================================================
