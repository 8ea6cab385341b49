---------------------------- MODULE TarballCache ----------------------------
(***************************************************************************)
(* DownloadTarballToStore::run_with_mem_cache: concurrent calls for the    *)
(* same tarball URL share one download through MemCache, a map from URL to *)
(* a lock-protected cell that is InProgress, with a Notify the others wait *)
(* on, or Available, with the extracted files.                             *)
(*                                                                         *)
(* All calls are futures polled by one tokio task (buffer_unordered in     *)
(* install_with_lockfile), so what lies between two .await points is one   *)
(* step.  RwLock::read and RwLock::write are .await points: tokio's        *)
(* cooperative budget makes them yield even when the lock is free.         *)
(*                                                                         *)
(* A call creates at most one cell, in the last round of its loop, so a    *)
(* cell is named by the call that created it.                              *)
(***************************************************************************)
CONSTANTS Tasks,   \* calls of run_with_mem_cache
          Urls,    \* tarball URLs, the keys of MemCache
          UrlOf,   \* the package_url of each call
          NoCell   \* "MemCache has no entry" / "the call holds no cell"

ASSUME CacheAssumption == /\ UrlOf \in [Tasks -> Urls]
                          /\ NoCell \notin Tasks

VARIABLES pc,       \* where each call stands
          memCache, \* MemCache: the cell each URL maps to
          value,    \* CacheValue of each cell
          cell,     \* the cell a call cloned out of the map, or created
          woken     \* calls whose Notified future has been completed

vars == <<pc, memCache, value, cell, woken>>

(* "lookup"   about to run mem_cache.get                                   *)
(* "inspect"  first cache_lock.read().await                                *)
(* "recheck"  `notified` is created; second read                           *)
(* "sleep"    notified.await                                               *)
(* "reread"   woken; third read                                            *)
(* "download" run_without_mem_cache                                        *)
(* "publish"  download succeeded; cache_lock.write().await                 *)
(* "ok","err" returned                                                     *)
PCs == {"lookup", "inspect", "recheck", "sleep", "reread", "download",
        "publish", "ok", "err"}

Init == /\ pc = [t \in Tasks |-> "lookup"]
        /\ memCache = [u \in Urls |-> NoCell]
        /\ value = [t \in Tasks |-> "Absent"]
        /\ cell = [t \in Tasks |-> NoCell]
        /\ woken = {}

Goto(t, l) == pc' = [pc EXCEPT ![t] = l]

(* A new InProgress cell replaces whatever MemCache holds for the URL, and *)
(* the caller becomes its producer.                                        *)
InsertInProgress(t) ==
  /\ memCache' = [memCache EXCEPT ![UrlOf[t]] = t]
  /\ value' = [value EXCEPT ![t] = "InProgress"]
  /\ cell' = [cell EXCEPT ![t] = t]
  /\ Goto(t, "download")

(* Mutant of Lookup: get is forgotten, every call inserts a cell. *)
LookupAlwaysInserts(t) ==
  pc[t] = "lookup" /\ InsertInProgress(t) /\ UNCHANGED woken

(* mem_cache.get: clone the Arc out of the map and drop the guard, or      *)
(* insert an entry of one's own; no .await lies between get and insert.    *)
Lookup(t) ==
  /\ pc[t] = "lookup"
  /\ \/ /\ memCache[UrlOf[t]] = NoCell
        /\ InsertInProgress(t)
     \/ /\ memCache[UrlOf[t]] # NoCell
        /\ cell' = [cell EXCEPT ![t] = memCache[UrlOf[t]]]
        /\ Goto(t, "inspect")
        /\ UNCHANGED <<memCache, value>>
  /\ UNCHANGED woken

(* First read: return the files, or create the Notified future, which from *)
(* then on receives every notify_waiters of this cell.                     *)
Inspect(t) ==
  /\ pc[t] = "inspect"
  /\ Goto(t, IF value[cell[t]] = "Available" THEN "ok" ELSE "recheck")
  /\ UNCHANGED <<memCache, value, cell, woken>>

(* Second read, "the producer may have finished between"; if it has, the   *)
(* notification has come already, which spares the call the sleep.         *)
Recheck(t) ==
  /\ pc[t] = "recheck"
  /\ Goto(t, IF value[cell[t]] = "Available" THEN "ok" ELSE "sleep")
  /\ UNCHANGED <<memCache, value, cell, woken>>

(* notified.await completes once notify_waiters ran after its creation. *)
Wake(t) ==
  /\ pc[t] = "sleep"
  /\ t \in woken
  /\ Goto(t, "reread")
  /\ UNCHANGED <<memCache, value, cell, woken>>

(* Mutant of Reread: whoever is woken takes the files for granted. *)
RereadTrusts(t) ==
  /\ pc[t] = "reread"
  /\ Goto(t, "ok")
  /\ UNCHANGED <<memCache, value, cell, woken>>

(* Third read.  A cell that is still InProgress means that its producer    *)
(* failed: remove the entry of the URL, whosever it is now, and go round   *)
(* the loop; the lookup that follows without an .await finds nothing, so   *)
(* the call inserts a cell of its own.                                     *)
Reread(t) ==
  /\ pc[t] = "reread"
  /\ \/ /\ value[cell[t]] = "Available"
        /\ Goto(t, "ok")
        /\ UNCHANGED <<memCache, value, cell>>
     \/ /\ value[cell[t]] # "Available"
        /\ InsertInProgress(t)
  /\ UNCHANGED woken

(* notify_waiters completes the Notified futures that exist at this point. *)
NotifyWaiters(c) ==
  woken' = woken \cup {t \in Tasks : /\ cell[t] = c
                                     /\ pc[t] \in {"recheck", "sleep"}}

(* run_without_mem_cache returned the extracted files. *)
DownloadOk(t) ==
  /\ pc[t] = "download"
  /\ Goto(t, "publish")
  /\ UNCHANGED <<memCache, value, cell, woken>>

(* Mutant of Publish: the notification is forgotten. *)
PublishSilent(t) ==
  /\ pc[t] = "publish"
  /\ value' = [value EXCEPT ![t] = "Available"]
  /\ Goto(t, "ok")
  /\ UNCHANGED <<memCache, cell, woken>>

(* The cell becomes Available before its waiters are notified. *)
Publish(t) ==
  /\ pc[t] = "publish"
  /\ value' = [value EXCEPT ![t] = "Available"]
  /\ NotifyWaiters(t)
  /\ Goto(t, "ok")
  /\ UNCHANGED <<memCache, cell>>

(* Mutants of DownloadErr: the entry stays; the cell is marked with a      *)
(* value that CacheValue does not have.                                    *)
DownloadErrKeepsEntry(t) ==
  /\ pc[t] = "download"
  /\ NotifyWaiters(t)
  /\ Goto(t, "err")
  /\ UNCHANGED <<memCache, value, cell>>
DownloadErrMarksCell(t) ==
  /\ pc[t] = "download"
  /\ memCache' = [memCache EXCEPT ![UrlOf[t]] = NoCell]
  /\ value' = [value EXCEPT ![t] = "Failed"]
  /\ NotifyWaiters(t)
  /\ Goto(t, "err")
  /\ UNCHANGED cell

(* run_without_mem_cache failed: the entry of the URL is removed and the   *)
(* waiters are notified; the cell itself stays InProgress.                 *)
DownloadErr(t) ==
  /\ pc[t] = "download"
  /\ memCache' = [memCache EXCEPT ![UrlOf[t]] = NoCell]
  /\ NotifyWaiters(t)
  /\ Goto(t, "err")
  /\ UNCHANGED <<value, cell>>

Step(t) == \/ Lookup(t) \/ Inspect(t) \/ Recheck(t) \/ Wake(t) \/ Reread(t)
           \/ DownloadOk(t) \/ Publish(t) \/ DownloadErr(t)

Next == \E t \in Tasks : Step(t)

Spec == Init /\ [][Next]_vars

(* The executor polls every future that is ready, and a download ends:     *)
(* fetch_tarball_with_retry gives up after MAX_ATTEMPTS.                   *)
FairSpec == Spec /\ \A t \in Tasks : WF_vars(Step(t))
-----------------------------------------------------------------------------
Returned(t) == pc[t] \in {"ok", "err"}
InFlight(t) == pc[t] \in {"download", "publish"}

TypeOK == /\ pc \in [Tasks -> PCs]
          /\ memCache \in [Urls -> Tasks \cup {NoCell}]
          /\ value \in [Tasks -> {"Absent", "InProgress", "Available"}]
          /\ cell \in [Tasks -> Tasks \cup {NoCell}]
          /\ woken \subseteq Tasks

(* MemCache never keeps the cell of a download that failed: whoever looks  *)
(* a URL up finds nothing, a download of that URL still running, or its    *)
(* files.  (The failing producer and the waiters it wakes all remove the   *)
(* entry of the URL, each without knowing whose entry it is.)              *)
NoDeadEntry ==
  \A u \in Urls : memCache[u] # NoCell =>
    /\ UrlOf[memCache[u]] = u
    /\ InFlight(memCache[u]) \/ value[memCache[u]] = "Available"

(* A call returns Ok only with the files of a finished download of the URL *)
(* it asked for, through whichever cell it reached them.                   *)
OkMeansDownloaded ==
  \A t \in Tasks : pc[t] = "ok" =>
    /\ cell[t] \in Tasks
    /\ UrlOf[cell[t]] = UrlOf[t]
    /\ value[cell[t]] = "Available"

(* A waiter that no notification has reached still has a producer to send  *)
(* one: between the read that sends it to wait and the creation of its     *)
(* Notified, no producer can finish.  Only a failed one can have gone.     *)
SleeperHasWaker ==
  \A t \in Tasks : pc[t] \in {"recheck", "sleep"} /\ t \notin woken =>
    InFlight(cell[t]) \/ pc[cell[t]] = "err"

(* Every call returns, unless a download of its URL fails; and a waiter    *)
(* that registers while its producer is downloading returns even then: it  *)
(* is woken and tries the download itself.                                 *)
CallsReturn ==
  \A t \in Tasks :
    /\ <>(Returned(t) \/ \E f \in Tasks : UrlOf[f] = UrlOf[t] /\ pc[f] = "err")
    /\ (pc[t] = "recheck" /\ InFlight(cell[t])) ~> Returned(t)

(* "Register the notified future BEFORE awaiting so we never miss a        *)
(* notify_waiters() call (lost-wakeup prevention)": whoever registered     *)
(* returns.  It does not hold: a call that registers on the cell of a      *)
(* producer that has failed already is woken by nobody.                    *)
NeverMissesNotify ==
  \A t \in Tasks : pc[t] = "recheck" ~> Returned(t)

(* The cache implements TarballService: one download per URL until one     *)
(* fails, and no call inherits the failure of another.                     *)
Service == INSTANCE TarballService
  WITH outcome <- [t \in Tasks |-> IF pc[t] \in {"ok", "err"} THEN pc[t]
                                   ELSE "pending"],
       started <- {t \in Tasks : value[t] # "Absent"}
ImplementsService == Service!SSpec
=============================================================================
