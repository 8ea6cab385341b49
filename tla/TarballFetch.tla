---------------------------- MODULE TarballFetch ----------------------------
(***************************************************************************)
(* DownloadTarballToStore::run_without_mem_cache under the tarball cache:  *)
(* reuse of the store index, the offline check, fetch_tarball_with_retry   *)
(* with the permits of ThrottledClient, and the extraction into the store. *)
(* It replaces the one-step downloads of TarballCache by their steps and   *)
(* is shown to implement TarballCache together with its fairness: what is  *)
(* assumed there, that a download ends, is a consequence here.             *)
(***************************************************************************)
EXTENDS TarballCache, Naturals, FiniteSets

CONSTANTS Permits,     \* permits of the semaphore, the network concurrency
          MaxAttempts  \* MAX_ATTEMPTS of fetch_tarball_with_retry

ASSUME FetchAssumption == /\ Permits \in Nat \ {0}
                          /\ MaxAttempts \in Nat \ {0}

VARIABLES flags,     \* --offline, and --force: ignore the store index
          phase,     \* where a call that downloads stands
          attempt,   \* attempt of fetch_tarball_with_retry
          available, \* free permits
          indexed    \* URLs whose index file and files are in the store

fetchVars == <<flags, phase, attempt, available, indexed>>
allVars == <<pc, memCache, value, cell, woken,
             flags, phase, attempt, available, indexed>>

(* "none"    not fetching          "acquire" semaphore.acquire().await     *)
(* "send"    request sent, permit held                                     *)
(* "body"    response.bytes(), permit released                             *)
(* "backoff" sleeping before the next attempt                              *)
(* "extract" the spawned task: integrity, gunzip, files, index             *)
Phases == {"none", "acquire", "send", "body", "backoff", "extract"}

FetchInit == /\ Init
             /\ flags \in [offline : BOOLEAN, force : BOOLEAN]
             /\ phase = [t \in Tasks |-> "none"]
             /\ attempt = [t \in Tasks |-> 0]
             /\ available = Permits
             /\ indexed \in SUBSET Urls

Enter(t, p) == phase' = [phase EXCEPT ![t] = p]

(* The steps of the cache that do not belong to a download. *)
CacheStep(t) ==
  /\ \/ Lookup(t) \/ Inspect(t) \/ Recheck(t) \/ Wake(t) \/ Reread(t)
     \/ Publish(t)
  /\ UNCHANGED fetchVars

(* cas_paths_from_store_index found the index and every file of it. *)
ReuseIndex(t) ==
  /\ pc[t] = "download" /\ phase[t] = "none"
  /\ ~flags.force
  /\ UrlOf[t] \in indexed
  /\ DownloadOk(t)
  /\ UNCHANGED fetchVars

(* Mutant of MissIndex: --offline is looked at before the store index. *)
MissIndexOfflineFirst(t) ==
  /\ pc[t] = "download" /\ phase[t] = "none"
  /\ flags.offline \/ flags.force \/ UrlOf[t] \notin indexed
  /\ IF flags.offline
     THEN DownloadErr(t) /\ UNCHANGED fetchVars
     ELSE /\ Enter(t, "acquire")
          /\ attempt' = [attempt EXCEPT ![t] = 1]
          /\ UNCHANGED <<vars, flags, available, indexed>>

(* Nothing reusable in the store: an error when offline, else the fetch. *)
MissIndex(t) ==
  /\ pc[t] = "download" /\ phase[t] = "none"
  /\ flags.force \/ UrlOf[t] \notin indexed
  /\ IF flags.offline
     THEN DownloadErr(t) /\ UNCHANGED fetchVars
     ELSE /\ Enter(t, "acquire")
          /\ attempt' = [attempt EXCEPT ![t] = 1]
          /\ UNCHANGED <<vars, flags, available, indexed>>

(* run_with_permit_for_url: a permit is taken for the request... *)
Acquire(t) ==
  /\ phase[t] = "acquire"
  /\ available > 0
  /\ available' = available - 1
  /\ Enter(t, "send")
  /\ UNCHANGED <<vars, flags, attempt, indexed>>

(* Mutant of RetryOrGiveUp: one attempt too many. *)
RetryOnceMore(t) ==
  IF attempt[t] <= MaxAttempts
  THEN /\ Enter(t, "backoff")
       /\ UNCHANGED vars
  ELSE /\ Enter(t, "none")
       /\ DownloadErr(t)

(* An attempt failed: sleep and try again, or give up. *)
RetryOrGiveUp(t) ==
  IF attempt[t] < MaxAttempts
  THEN /\ Enter(t, "backoff")
       /\ UNCHANGED vars
  ELSE /\ Enter(t, "none")
       /\ DownloadErr(t)

(* Mutant of SendDone: an error return keeps the permit. *)
SendDoneLeaksPermit(t) ==
  /\ phase[t] = "send"
  /\ \/ Enter(t, "body") /\ available' = available + 1 /\ UNCHANGED vars
     \/ RetryOrGiveUp(t) /\ UNCHANGED available
  /\ UNCHANGED <<flags, attempt, indexed>>

(* ... and dropped when send() returns, whatever it returns; the status is *)
(* looked at afterwards.                                                   *)
SendDone(t) ==
  /\ phase[t] = "send"
  /\ available' = available + 1
  /\ \/ Enter(t, "body") /\ UNCHANGED vars
     \/ RetryOrGiveUp(t)
  /\ UNCHANGED <<flags, attempt, indexed>>

(* response.bytes(), without a permit. *)
BodyDone(t) ==
  /\ phase[t] = "body"
  /\ \/ Enter(t, "extract") /\ UNCHANGED vars
     \/ RetryOrGiveUp(t)
  /\ UNCHANGED <<flags, attempt, available, indexed>>

BackoffDone(t) ==
  /\ phase[t] = "backoff"
  /\ attempt' = [attempt EXCEPT ![t] = @ + 1]
  /\ Enter(t, "acquire")
  /\ UNCHANGED <<vars, flags, available, indexed>>

(* Mutant of Extract: the index is not written. *)
ExtractWithoutIndex(t) ==
  /\ phase[t] = "extract"
  /\ Enter(t, "none")
  /\ DownloadOk(t) \/ DownloadErr(t)
  /\ UNCHANGED <<flags, attempt, available, indexed>>

(* The spawned extraction writes the files, then the index; a wrong        *)
(* checksum, a bad archive or a write error is final and not retried.      *)
Extract(t) ==
  /\ phase[t] = "extract"
  /\ Enter(t, "none")
  /\ \/ DownloadOk(t) /\ indexed' = indexed \cup {UrlOf[t]}
     \/ DownloadErr(t) /\ UNCHANGED indexed
  /\ UNCHANGED <<flags, attempt, available>>

FetchStep(t) ==
  \/ CacheStep(t) \/ ReuseIndex(t) \/ MissIndex(t) \/ Acquire(t) \/ SendDone(t)
  \/ BodyDone(t) \/ BackoffDone(t) \/ Extract(t)

FetchNext == \E t \in Tasks : FetchStep(t)

(* The executor polls ready futures, requests end (they answer, fail or    *)
(* time out), timers fire, and the extraction task terminates.  A free     *)
(* permit goes to somebody; to whom is left open.                          *)
FetchSpec == /\ FetchInit /\ [][FetchNext]_allVars
             /\ \A t \in Tasks : WF_allVars(FetchStep(t))
-----------------------------------------------------------------------------
Fetching == {t \in Tasks : phase[t] # "none"}

FetchTypeOK == /\ TypeOK
               /\ flags \in [offline : BOOLEAN, force : BOOLEAN]
               /\ phase \in [Tasks -> Phases]
               /\ attempt \in [Tasks -> 0..MaxAttempts]
               /\ available \in 0..Permits
               /\ indexed \subseteq Urls

(* Permits are neither lost nor invented on any path, and none is held     *)
(* while a body is read, a retry is delayed or files are extracted.        *)
PermitsConserved ==
  available + Cardinality({t \in Tasks : phase[t] = "send"}) = Permits

(* Files are handed out only when the store index that later runs rely on  *)
(* is in place.                                                            *)
AvailableMeansIndexed ==
  \A t \in Tasks : value[t] = "Available" => UrlOf[t] \in indexed

(* An offline call fails only for a tarball the store does not hold, and   *)
(* never touches the network.                                              *)
OfflineErrors ==
  flags.offline =>
    /\ Fetching = {}
    /\ \A t \in Tasks : pc[t] = "err" /\ ~flags.force => UrlOf[t] \notin indexed

(* The fetch implements the cache, with the fairness the cache assumes:    *)
(* with Permits shared by all downloads and up to MaxAttempts requests     *)
(* each, no download waits for a permit for ever.                          *)
ImplementsCache == FairSpec
=============================================================================
