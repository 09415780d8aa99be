------------------------ MODULE WebhookClientProofs ------------------------
(***************************************************************************)
(* What each call of the webhook client and the passing of time keep, for  *)
(* every interval: the types, and the memory of every request that must    *)
(* not be repeated yet.  The proofs about the controllers cite these.      *)
(***************************************************************************)
EXTENDS WebhookClient, TLAPS

(* What may happen to the client. *)
ClientStep(url) ==
  Sent(url) \/ Limited(url) \/ Failed(url) \/ Tick \/ ForgetRequests

(* The calls and the clock keep the types. *)
LEMMA ClientTypeStep ==
  ASSUME ClientTypeOK, NEW url \in Urls, ClientStep(url)
  PROVE  ClientTypeOK'
<1> USE IntervalAssumption DEF ClientTypeOK, Urls, LongAgo
<1>1. CASE Sent(url)
  BY <1>1 DEF Sent, Added, Purged
<1>2. CASE Limited(url) \/ Failed(url)
  BY <1>2 DEF Limited, Failed, Purged
<1>3. CASE Tick
  BY <1>3 DEF Tick, Purged, Aged
<1>4. CASE ForgetRequests
  BY <1>4 DEF ForgetRequests, NoRequests
<1> QED
  BY <1>1, <1>2, <1>3, <1>4 DEF ClientStep

(* At first there is nothing to remember. *)
LEMMA ClientInvInit == ClientInit => ClientInv
BY IntervalAssumption DEF ClientInit, ClientInv, ClientTypeOK, NoRequests, Urls,
   LongAgo

(***************************************************************************)
(* Purging takes only what has expired, a repeated request gets age 0 in   *)
(* both places, and ages grow together until they expire.                  *)
(***************************************************************************)
LEMMA ClientInvStep ==
  ASSUME ClientInv, NEW url \in Urls, ClientStep(url)
  PROVE  ClientInv'
<1>t. ClientTypeOK /\ ClientTypeOK'
  BY ClientTypeStep DEF ClientInv
<1> USE IntervalAssumption DEF ClientInv, ClientTypeOK, LongAgo
<1>1. CASE Sent(url)
  BY <1>1, <1>t DEF Sent, Added, Purged
<1>2. CASE Limited(url) \/ Failed(url)
  BY <1>2, <1>t DEF Limited, Failed, Purged
<1>3. CASE Tick
  BY <1>3, <1>t DEF Tick, Purged, Aged
<1>4. CASE ForgetRequests
  BY <1>4, <1>t DEF ForgetRequests
<1> QED
  BY <1>1, <1>2, <1>3, <1>4 DEF ClientStep

(* What has not expired is too young to repeat. *)
LEMMA ClientInvRemembers == ClientInv => RequestRemembered
BY IntervalAssumption
   DEF ClientInv, ClientTypeOK, RequestRemembered, TooYoung, LongAgo

=============================================================================
