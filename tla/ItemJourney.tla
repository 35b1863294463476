---------------------------- MODULE ItemJourney ----------------------------
(***************************************************************************)
(* What a crawl job promises of each item that a source lists, whoever     *)
(* works on it and whatever fails: the item goes through the stages in     *)
(* their order, no stage is taken back, and in the end it is in the AI     *)
(* pipeline, was refused by the adapter, or was visibly given up.          *)
(*                                                                         *)
(* Tasks are retried, so an item may reach several of these ends.  Module  *)
(* CrawlJob, where queues and handlers do this, implements it.             *)
(***************************************************************************)
CONSTANT Items

VARIABLES
  offered,    \* items handed to crawl-detail
  detailed,   \* items handed on to normalize
  ingested,   \* items that have a tool
  piped,      \* items whose AI pipeline was enqueued
  refused,    \* items the adapter refused
  givenUp     \* items about which a task was given up

journey == <<offered, detailed, ingested, piped, refused, givenUp>>

JourneyInit ==
  /\ offered = {} /\ detailed = {} /\ ingested = {}
  /\ piped = {} /\ refused = {} /\ givenUp = {}

Offer(i) ==
  /\ offered' = offered \union {i}
  /\ UNCHANGED <<detailed, ingested, piped, refused, givenUp>>

Detail(i) ==
  /\ i \in offered
  /\ detailed' = detailed \union {i}
  /\ UNCHANGED <<offered, ingested, piped, refused, givenUp>>

Ingest(i) ==
  /\ i \in detailed
  /\ ingested' = ingested \union {i}
  /\ UNCHANGED <<offered, detailed, piped, refused, givenUp>>

Pipe(i) ==
  /\ i \in ingested
  /\ piped' = piped \union {i}
  /\ UNCHANGED <<offered, detailed, ingested, refused, givenUp>>

Refuse(i) ==
  /\ i \in offered
  /\ refused' = refused \union {i}
  /\ UNCHANGED <<offered, detailed, ingested, piped, givenUp>>

GiveUp(i) ==
  /\ i \in offered
  /\ givenUp' = givenUp \union {i}
  /\ UNCHANGED <<offered, detailed, ingested, piped, refused>>

JourneyNext ==
  \E i \in Items :
    Offer(i) \/ Detail(i) \/ Ingest(i) \/ Pipe(i) \/ Refuse(i) \/ GiveUp(i)

JourneySpec == JourneyInit /\ [][JourneyNext]_journey

\* Every item that was offered reaches one of the ends.
Settles == \A i \in Items : (i \in offered) ~> (i \in piped \union refused \union givenUp)
=============================================================================
