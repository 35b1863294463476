------------------------------ MODULE Newsletter ------------------------------
(***************************************************************************)
(* One newsletter campaign: packages/automation/src/newsletter-auto.ts,    *)
(* apps/api/src/commercial/newsletter.service.ts and the newsletter worker *)
(* of apps/worker/src/platform-worker.ts.                                  *)
(*                                                                         *)
(* A task reads the confirmed subscribers once, mails to one after the     *)
(* other and marks the campaign SENT after the last.  It does not remember *)
(* whom it has mailed to and does not look at the campaign's status: a     *)
(* failure in the middle starts again from the first subscriber, and so    *)
(* does every further request to send the campaign.                        *)
(*                                                                         *)
(* A token is the number of the subscription it was made for.  Content and *)
(* the creation of a campaign without sending it are left out.             *)
(***************************************************************************)
EXTENDS Naturals, FiniteSets

CONSTANTS
  People,           \* owners of e-mail addresses
  MaxSubscriptions, \* bound: subscriptions of each
  MaxSendings,      \* bound: tasks, numbered in the order of their enqueue
  MaxMailings,      \* executions of a task before BullMQ gives it up
  MaxOutages        \* bound: rejected awaits and crashes

ASSUME NewsletterAssumption ==
  /\ IsFiniteSet(People)
  /\ MaxSubscriptions \in Nat /\ MaxSendings \in Nat
  /\ MaxMailings \in Nat \ {0} /\ MaxOutages \in Nat

VARIABLES
  subscriber,       \* of each person: the newsletter_subscribers row
  confirming,       \* of each person: the token a request to confirm has found, or 0
  campaign,         \* status of the campaign
  mailing,          \* of each task: its state in the queue
  npc,              \* of each task: the await executed next
  toMail,           \* of each task: subscribers it has read and not mailed to
  mailed,           \* of each task: subscribers mailed to by this execution
  mailings,         \* of each task: failed executions
  outages,          \* rejected awaits and crashes
  \* History:
  tokens,           \* of each person: tokens of links they followed
  mails,            \* of each person: mails of the campaign
  promised          \* subscribers read by the executions that ended well

people     == <<subscriber, confirming, tokens>>
work       == <<campaign, mailing, npc, toMail, mailed, mailings, outages, mails,
                promised>>
newsletter == <<people, work>>

NIds == 1..MaxSendings
Subscriber == [status : {"none", "PENDING", "CONFIRMED"}, token : Nat, made : Nat]

NewsletterInit ==
  /\ subscriber = [p \in People |-> [status |-> "none", token |-> 0, made |-> 0]]
  /\ confirming = [p \in People |-> 0]
  /\ tokens = [p \in People |-> {}]
  /\ campaign = "SCHEDULED"
  /\ mailing = [n \in NIds |-> "none"]
  /\ npc = [n \in NIds |-> "idle"]
  /\ toMail = [n \in NIds |-> {}]
  /\ mailed = [n \in NIds |-> {}]
  /\ mailings = [n \in NIds |-> 0]
  /\ outages = 0
  /\ mails = [p \in People |-> 0]
  /\ promised = {}

-----------------------------------------------------------------------------
(* Subscribers *)

\* Whatever the row was: PENDING again, with a new token.
Subscribe(p) ==
  /\ subscriber[p].made < MaxSubscriptions
  /\ subscriber' = [subscriber EXCEPT ![p] =
       [status |-> "PENDING", token |-> @.made + 1, made |-> @.made + 1]]
  /\ UNCHANGED <<confirming, tokens, work>>

\* The link in the mail: only the newest token is in the row ...
ConfirmFind(p) ==
  /\ confirming[p] = 0 /\ subscriber[p].token # 0
  /\ confirming' = [confirming EXCEPT ![p] = subscriber[p].token]
  /\ tokens' = [tokens EXCEPT ![p] = @ \union {subscriber[p].token}]
  /\ UNCHANGED <<subscriber, work>>

\* ... but the row may have another one when it is updated, or the request dies.
ConfirmWrite(p) ==
  /\ confirming[p] # 0
  /\ \/ subscriber' = [subscriber EXCEPT ![p].status = "CONFIRMED", ![p].token = 0]
     \/ UNCHANGED subscriber
  /\ confirming' = [confirming EXCEPT ![p] = 0]
  /\ UNCHANGED <<tokens, work>>

\* getConfirmedSubscribers
Confirmed == {p \in People : subscriber[p].status = "CONFIRMED"}

-----------------------------------------------------------------------------
(* handleNewsletterSend, concurrency 2 *)

\* The weekly poll or a request of the API.
SendCampaign(n) ==
  /\ mailing[n] = "none"
  /\ \A m \in NIds : m < n => mailing[m] # "none"
  /\ mailing' = [mailing EXCEPT ![n] = "waiting"]
  /\ UNCHANGED <<people, campaign, npc, toMail, mailed, mailings, outages, mails,
                 promised>>

NAt(n, p) == mailing[n] = "active" /\ npc[n] = p

NewsletterTake(n) ==
  /\ mailing[n] = "waiting"
  /\ mailing' = [mailing EXCEPT ![n] = "active"]
  /\ npc' = [npc EXCEPT ![n] = "read"]
  /\ UNCHANGED <<people, campaign, toMail, mailed, mailings, outages, mails, promised>>

ReadSubscribers(n) ==
  /\ NAt(n, "read")
  /\ toMail' = [toMail EXCEPT ![n] = Confirmed]
  /\ npc' = [npc EXCEPT ![n] = "mail"]
  /\ UNCHANGED <<people, campaign, mailing, mailed, mailings, outages, mails, promised>>

Mail(n) ==
  /\ NAt(n, "mail")
  /\ \E p \in toMail[n] :
       /\ mails' = [mails EXCEPT ![p] = @ + 1]
       /\ toMail' = [toMail EXCEPT ![n] = @ \ {p}]
       /\ mailed' = [mailed EXCEPT ![n] = @ \union {p}]
  /\ UNCHANGED <<people, campaign, mailing, npc, mailings, outages, promised>>

NLeave(n, s) ==
  /\ mailing' = [mailing EXCEPT ![n] = s]
  /\ npc' = [npc EXCEPT ![n] = "idle"]
  /\ toMail' = [toMail EXCEPT ![n] = {}]
  /\ mailed' = [mailed EXCEPT ![n] = {}]

\* When the campaign is marked.  (Mutant: while mails are still to be sent.)
AnyTime(n) == TRUE
AllMailed(n) == toMail[n] = {}

MarkSent(n) ==
  /\ NAt(n, "mail")
  /\ AllMailed(n)
  /\ campaign' = "SENT"
  /\ promised' = promised \union toMail[n] \union mailed[n]
  /\ NLeave(n, "done")
  /\ UNCHANGED <<people, mailings, outages, mails>>

\* An await rejects or the worker dies; what it was about may be done nevertheless.
NewsletterFault(n) ==
  /\ mailing[n] = "active"
  /\ outages < MaxOutages
  /\ outages' = outages + 1
  /\ \/ UNCHANGED <<mails, campaign>>
     \/ /\ npc[n] = "mail"
        /\ \E p \in toMail[n] : mails' = [mails EXCEPT ![p] = @ + 1]
        /\ UNCHANGED campaign
     \/ /\ npc[n] = "mail" /\ toMail[n] = {}
        /\ campaign' = "SENT"
        /\ UNCHANGED mails
  /\ mailings' = [mailings EXCEPT ![n] = @ + 1]
  /\ NLeave(n, IF mailings'[n] < MaxMailings THEN "waiting" ELSE "dead")
  /\ UNCHANGED <<people, promised>>

-----------------------------------------------------------------------------
NewsletterRest ==
  /\ \A n \in NIds : mailing[n] \in {"done", "dead"}
  /\ UNCHANGED newsletter

NewsletterWork(n) == NewsletterTake(n) \/ ReadSubscribers(n) \/ Mail(n) \/ MarkSent(n)

NewsletterNext ==
  \/ \E p \in People : Subscribe(p) \/ ConfirmFind(p) \/ ConfirmWrite(p)
  \/ \E n \in NIds : SendCampaign(n) \/ NewsletterWork(n) \/ NewsletterFault(n)
  \/ NewsletterRest

NewsletterSpec == NewsletterInit /\ [][NewsletterNext]_newsletter

-----------------------------------------------------------------------------
(* Properties *)

NewsletterTypeOK ==
  /\ subscriber \in [People -> Subscriber]
  /\ tokens \in [People -> SUBSET (1..MaxSubscriptions)]
  /\ confirming \in [People -> 0..MaxSubscriptions]
  /\ campaign \in {"SCHEDULED", "SENT"}
  /\ mailing \in [NIds -> {"none", "waiting", "active", "done", "dead"}]
  /\ npc \in [NIds -> {"idle", "read", "mail"}]
  /\ toMail \in [NIds -> SUBSET People]
  /\ mailed \in [NIds -> SUBSET People]
  /\ mailings \in [NIds -> 0..MaxMailings]
  /\ outages \in 0..MaxOutages
  /\ mails \in [People -> Nat]
  /\ promised \subseteq People

Sendings == {n \in NIds : mailing[n] # "none"}

\* The mails of a campaign: everybody whom a task that ended well had read got
\* one, failed executions or not, and the campaign is SENT; nobody got one without
\* having followed the link of a subscription; and nobody got more than the
\* campaign was sent and failed, although no execution knows what was mailed.
CampaignReaches ==
  /\ \A p \in promised : mails[p] > 0
  /\ (\E n \in NIds : mailing[n] = "done") => campaign = "SENT"
  /\ \A p \in People :
       /\ mails[p] > 0 => tokens[p] # {}
       /\ mails[p] <= Cardinality(Sendings) + outages
=============================================================================
