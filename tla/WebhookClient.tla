---------------------------- MODULE WebhookClient ----------------------------
(***************************************************************************)
(* The webhook client of internal/controller/webhook_common.go, for one    *)
(* resource: which webhooks were accepted lately, kept in the memory of    *)
(* the operator, so that none is repeated within minimumRequestInterval.   *)
(*                                                                         *)
(* The controllers that EXTEND this module take one of Sent, Limited and   *)
(* Failed as the part of their step that concerns the client; as a         *)
(* resource has one worker at a time, TriggerWebhook is one step.  Times   *)
(* are ages in ticks, and an age counts no further than it matters.  The   *)
(* delay that is returned to the caller is not kept: it is the time since  *)
(* the last request, of which is known that it is short of the interval.   *)
(***************************************************************************)
EXTENDS Naturals

CONSTANT Interval   \* minimumRequestInterval, in ticks

ASSUME IntervalAssumption == Interval \in Nat

VARIABLES
  inflight,   \* age of the requests the client remembers, by webhook
  since       \* history: age of the last request a webhook accepted

clientVars == <<inflight, since>>

Urls == {"create", "delete"}

(* Older than the interval: how much older does not matter. *)
LongAgo == Interval + 1

ClientTypeOK ==
  /\ DOMAIN inflight \subseteq Urls
  /\ \A u \in DOMAIN inflight : inflight[u] \in 0..LongAgo
  /\ since \in [Urls -> 0..LongAgo]

NoRequests == [u \in {} |-> LongAgo]

ClientInit == inflight = NoRequests /\ since = [u \in Urls |-> LongAgo]

-----------------------------------------------------------------------------
(* Mutant: what is about to expire is purged as well. *)
PurgedEarly(requests) ==
  [u \in {v \in DOMAIN requests : requests[v] + 1 < Interval} |-> requests[u]]

(* purgeExpiredRequests *)
Purged(requests) ==
  [u \in {v \in DOMAIN requests : requests[v] <= Interval} |-> requests[u]]

(* checkForExistingRequest finds a request that is too young to repeat. *)
TooYoung(url) == url \in DOMAIN inflight /\ inflight[url] < Interval

(* addInflightRequest *)
Added(url) ==
  Purged([u \in DOMAIN inflight \cup {url} |->
            IF u = url THEN 0 ELSE inflight[u]])

(* TriggerWebhook: the request is accepted and remembered... *)
Sent(url) ==
  /\ ~TooYoung(url)
  /\ inflight' = Added(url)
  /\ since' = [since EXCEPT ![url] = 0]

(* ... or not even tried, the last one being too young... *)
Limited(url) ==
  /\ TooYoung(url)
  /\ inflight' = Purged(inflight)
  /\ UNCHANGED since

(* ... or fails, and may be repeated at once. *)
Failed(url) ==
  /\ ~TooYoung(url)
  /\ inflight' = Purged(inflight)
  /\ UNCHANGED since

(* Time passes.  What expires is as good as purged, as the next call does it
   before anything else can tell. *)
Aged(ages) ==
  [u \in DOMAIN ages |-> IF ages[u] < LongAgo THEN ages[u] + 1 ELSE LongAgo]

Tick ==
  /\ inflight' = Purged(Aged(inflight)) /\ since' = Aged(since)
  /\ clientVars' # clientVars

(* The memory of the operator is lost, and so is the history that counts. *)
ForgetRequests ==
  /\ inflight' = NoRequests
  /\ since' = [u \in Urls |-> LongAgo]

-----------------------------------------------------------------------------
(***************************************************************************)
(* The purging keeps every request that is still needed: as long as the    *)
(* last one a webhook accepted from this process is younger than the       *)
(* interval it is not repeated, whoever asks, and however often.           *)
(***************************************************************************)
RequestRemembered == \A u \in Urls : since[u] < Interval => TooYoung(u)

(* Why it holds: what has not expired is remembered with its true age. *)
ClientInv ==
  /\ ClientTypeOK
  /\ \A u \in Urls :
       since[u] <= Interval => u \in DOMAIN inflight /\ inflight[u] = since[u]

=============================================================================
