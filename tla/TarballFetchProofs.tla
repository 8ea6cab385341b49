-------------------------- MODULE TarballFetchProofs --------------------------
(***************************************************************************)
(* Proofs about TarballCache and TarballFetch, for any number of calls,    *)
(* URLs, permits and attempts: type correctness, the safety invariants of  *)
(* MCTarballCache and MCTarballFetch, that the cache implements            *)
(* TarballService, and that the fetch implements the cache, and with it    *)
(* the service, up to fairness.                                            *)
(***************************************************************************)
EXTENDS TarballFetch, FiniteSetTheorems, TLAPS

-----------------------------------------------------------------------------
(* The cache. *)

Waiting(t) == pc[t] \in {"inspect", "recheck", "sleep", "reread"}

(* A call holds a cell from its lookup on, a cell of its own URL that some *)
(* call created.                                                           *)
CellsExist ==
  \A t \in Tasks :
    /\ pc[t] = "lookup" <=> cell[t] = NoCell
    /\ cell[t] # NoCell => /\ value[cell[t]] # "Absent"
                           /\ UrlOf[cell[t]] = UrlOf[t]

(* What the value of a cell says about the call that created it. *)
ProducerState ==
  \A t \in Tasks :
    /\ value[t] = "InProgress" <=> InFlight(t) \/ pc[t] = "err"
    /\ value[t] = "Available" => pc[t] = "ok"
    /\ value[t] # "Absent" => cell[t] = t

(* A call is woken only when its producer has returned. *)
WokenAfterReturn ==
  \A t \in Tasks :
    /\ pc[t] \in {"lookup", "inspect"} => t \notin woken
    /\ pc[t] = "reread" \/ (pc[t] \in {"recheck", "sleep"} /\ t \in woken)
         => Returned(cell[t])

(* A URL without an entry was never downloaded, or a download failed. *)
NoEntryReason ==
  \A t \in Tasks : value[t] # "Absent" /\ memCache[UrlOf[t]] = NoCell =>
    \E f \in Tasks : UrlOf[f] = UrlOf[t] /\ pc[f] = "err"

IInv == /\ TypeOK
        /\ CellsExist
        /\ ProducerState
        /\ WokenAfterReturn
        /\ NoEntryReason
        /\ NoDeadEntry
        /\ OkMeansDownloaded
        /\ SleeperHasWaker
-----------------------------------------------------------------------------
(* The variables keep their types: in particular the cell a call reads is  *)
(* the cell of some call.                                                  *)
THEOREM TypeCorrect == Spec => []TypeOK
<1>1. Init => TypeOK
  BY CacheAssumption DEF Init, TypeOK, PCs
<1>2. TypeOK /\ [Next]_vars => TypeOK'
  <2> SUFFICES ASSUME TypeOK, [Next]_vars
               PROVE  TypeOK'
    OBVIOUS
  <2> USE CacheAssumption DEF TypeOK, PCs, Goto, InsertInProgress, NotifyWaiters
  <2>1. CASE UNCHANGED vars
    BY <2>1 DEF vars
  <2>2. ASSUME NEW t \in Tasks, Step(t)
        PROVE  TypeOK'
    <3>1. CASE Lookup(t)      BY <3>1 DEF Lookup
    <3>2. CASE Inspect(t)     BY <3>2 DEF Inspect
    <3>3. CASE Recheck(t)     BY <3>3 DEF Recheck
    <3>4. CASE Wake(t)        BY <3>4 DEF Wake
    <3>5. CASE Reread(t)      BY <3>5 DEF Reread
    <3>6. CASE DownloadOk(t)  BY <3>6 DEF DownloadOk
    <3>7. CASE Publish(t)     BY <3>7 DEF Publish
    <3>8. CASE DownloadErr(t) BY <3>8 DEF DownloadErr
    <3> QED BY <2>2, <3>1, <3>2, <3>3, <3>4, <3>5, <3>6, <3>7, <3>8 DEF Step
  <2> QED BY <2>1, <2>2 DEF Next
<1> QED BY <1>1, <1>2, PTL DEF Spec
-----------------------------------------------------------------------------
LEMMA InitInv == Init => IInv
BY CacheAssumption
   DEF Init, IInv, TypeOK, PCs, CellsExist, ProducerState, WokenAfterReturn,
       NoEntryReason, NoDeadEntry, OkMeansDownloaded, SleeperHasWaker,
       InFlight, Returned

(* Creating a cell, by whichever of its two callers: the call has no cell  *)
(* of its own yet, and the entry it replaces may be anybody's.             *)
LEMMA InsertInv ==
  ASSUME IInv, NEW t \in Tasks, pc[t] \in {"lookup", "reread"},
         value[t] = "Absent", InsertInProgress(t), UNCHANGED woken, TypeOK'
  PROVE  IInv'
<1> USE CacheAssumption DEF IInv, TypeOK, PCs, InsertInProgress, Goto,
                            InFlight, Returned
<1>0. \A s \in Tasks : cell[s] # t
  BY DEF CellsExist
<1>1. CellsExist'
  BY <1>0 DEF CellsExist
<1>2. ProducerState'
  BY DEF ProducerState
<1>3. WokenAfterReturn'
  BY <1>0 DEF WokenAfterReturn, CellsExist, ProducerState
<1>4. NoEntryReason'
  BY DEF NoEntryReason
<1>5. NoDeadEntry'
  BY DEF NoDeadEntry
<1>6. OkMeansDownloaded'
  BY <1>0 DEF OkMeansDownloaded
<1>7. SleeperHasWaker'
  BY <1>0 DEF SleeperHasWaker, CellsExist
<1> QED BY <1>1, <1>2, <1>3, <1>4, <1>5, <1>6, <1>7

LEMMA StepInv ==
  ASSUME IInv, TypeOK', NEW t \in Tasks, Step(t)
  PROVE  IInv'
<1> USE CacheAssumption DEF IInv, TypeOK, PCs, Goto, InFlight, Returned
<1>0. Waiting(t) \/ pc[t] = "lookup" => value[t] = "Absent"
  BY DEF ProducerState, Waiting
<1>1. CASE Lookup(t)
  <2>1. CASE memCache[UrlOf[t]] = NoCell
    BY <1>0, <1>1, <2>1, InsertInv DEF Lookup
  <2>2. CASE memCache[UrlOf[t]] # NoCell
    <3> DEFINE c == memCache[UrlOf[t]]
    <3>1. /\ c \in Tasks /\ UrlOf[c] = UrlOf[t] /\ value[c] # "Absent"
      BY <2>2 DEF NoDeadEntry, ProducerState
    <3>2. /\ cell' = [cell EXCEPT ![t] = c]
          /\ pc' = [pc EXCEPT ![t] = "inspect"]
          /\ UNCHANGED <<memCache, value, woken>>
          /\ pc[t] = "lookup"
      BY <1>1, <2>2 DEF Lookup
    <3> HIDE DEF c
    <3>3. t # c
      BY <1>0, <3>1, <3>2
    <3>4. CellsExist'
      BY <3>1, <3>2 DEF CellsExist
    <3>5. ProducerState'
      BY <1>0, <3>2 DEF ProducerState
    <3>6. WokenAfterReturn'
      BY <3>2 DEF WokenAfterReturn, CellsExist
    <3>7. NoEntryReason' /\ NoDeadEntry' /\ OkMeansDownloaded'
      BY <3>2 DEF NoEntryReason, NoDeadEntry, OkMeansDownloaded
    <3>8. SleeperHasWaker'
      BY <3>2 DEF SleeperHasWaker, CellsExist
    <3> QED BY <3>4, <3>5, <3>6, <3>7, <3>8
  <2> QED BY <2>1, <2>2
<1>2. CASE Inspect(t) \/ Recheck(t) \/ Wake(t) \/ (Reread(t) /\ value[cell[t]] = "Available")
  <2>1. /\ Waiting(t)
        /\ UNCHANGED <<memCache, value, cell, woken>>
        /\ \E l \in {"ok", "recheck", "sleep", "reread"} :
             /\ pc' = [pc EXCEPT ![t] = l]
             /\ l = "ok" => value[cell[t]] = "Available"
             /\ l \in {"recheck", "sleep"} => value[cell[t]] # "Available"
             /\ l = "reread" => pc[t] = "sleep" /\ t \in woken
    BY <1>2 DEF Inspect, Recheck, Wake, Reread, Waiting, InsertInProgress
  <2>2. PICK l \in {"ok", "recheck", "sleep", "reread"} :
             /\ pc' = [pc EXCEPT ![t] = l]
             /\ l = "ok" => value[cell[t]] = "Available"
             /\ l \in {"recheck", "sleep"} => value[cell[t]] # "Available"
             /\ l = "reread" => pc[t] = "sleep" /\ t \in woken
    BY <2>1
  <2>3. CellsExist'
    BY <2>1, <2>2 DEF CellsExist, Waiting
  <2>4. ProducerState'
    BY <1>0, <2>1, <2>2 DEF ProducerState
  <2>5. /\ cell[t] \in Tasks
        /\ value[cell[t]] # "Absent"
        /\ UrlOf[cell[t]] = UrlOf[t]
        /\ cell[t] # t
    BY <1>0, <2>1 DEF CellsExist, Waiting
  <2>6. WokenAfterReturn'
    BY <2>1, <2>2, <2>5 DEF WokenAfterReturn, Waiting
  <2>7. NoEntryReason' /\ NoDeadEntry'
    BY <2>1, <2>2 DEF NoEntryReason, NoDeadEntry, Waiting
  <2>8. OkMeansDownloaded'
    BY <2>1, <2>2, <2>5 DEF OkMeansDownloaded
  <2>9. SleeperHasWaker'
    BY <2>1, <2>2, <2>5 DEF SleeperHasWaker, ProducerState, Waiting
  <2> QED BY <2>3, <2>4, <2>6, <2>7, <2>8, <2>9
<1>3. CASE Reread(t) /\ value[cell[t]] # "Available"
  BY <1>0, <1>3, InsertInv DEF Reread, Waiting
<1>4. CASE DownloadOk(t)
  <2> USE <1>4 DEF DownloadOk
  <2>1. CellsExist'          BY DEF CellsExist
  <2>2. ProducerState'       BY DEF ProducerState
  <2>3. WokenAfterReturn'    BY DEF WokenAfterReturn
  <2>4. NoEntryReason'       BY DEF NoEntryReason
  <2>5. NoDeadEntry'         BY DEF NoDeadEntry
  <2>6. OkMeansDownloaded'   BY DEF OkMeansDownloaded
  <2>7. SleeperHasWaker'     BY DEF SleeperHasWaker
  <2> QED BY <2>1, <2>2, <2>3, <2>4, <2>5, <2>6, <2>7
<1>5. CASE Publish(t)
  <2> USE <1>5 DEF Publish, NotifyWaiters
  <2>0. cell[t] = t
    BY DEF ProducerState
  <2>1. CellsExist'          BY DEF CellsExist
  <2>2. ProducerState'       BY <2>0 DEF ProducerState
  <2>3. WokenAfterReturn'    BY <2>0 DEF WokenAfterReturn
  <2>4. NoEntryReason'       BY DEF NoEntryReason, ProducerState
  <2>5. NoDeadEntry'         BY DEF NoDeadEntry
  <2>6. OkMeansDownloaded'   BY <2>0 DEF OkMeansDownloaded
  <2>7. SleeperHasWaker'     BY <2>0 DEF SleeperHasWaker
  <2> QED BY <2>1, <2>2, <2>3, <2>4, <2>5, <2>6, <2>7
<1>6. CASE DownloadErr(t)
  <2> USE <1>6 DEF DownloadErr, NotifyWaiters
  <2>0. cell[t] = t
    BY DEF ProducerState
  <2>1. CellsExist'          BY DEF CellsExist
  <2>2. ProducerState'       BY <2>0 DEF ProducerState
  <2>3. WokenAfterReturn'    BY <2>0 DEF WokenAfterReturn
  <2>4. NoEntryReason'       BY DEF NoEntryReason
  <2>5. NoDeadEntry'         BY DEF NoDeadEntry, ProducerState
  <2>6. OkMeansDownloaded'   BY <2>0 DEF OkMeansDownloaded
  <2>7. SleeperHasWaker'     BY <2>0 DEF SleeperHasWaker
  <2> QED BY <2>1, <2>2, <2>3, <2>4, <2>5, <2>6, <2>7
<1> QED BY <1>1, <1>2, <1>3, <1>4, <1>5, <1>6 DEF Step, Reread

LEMMA StutterInv == IInv /\ UNCHANGED vars => IInv'
BY DEF vars, IInv, TypeOK, CellsExist, ProducerState, WokenAfterReturn,
       NoEntryReason, NoDeadEntry, OkMeansDownloaded, SleeperHasWaker,
       InFlight, Returned

(* The inductive invariant.  It needs what NoDeadEntry and the others do   *)
(* not say by themselves: which call stands behind each cell (CellsExist,  *)
(* ProducerState), and that a wake-up comes only from a producer that has  *)
(* returned (WokenAfterReturn).                                            *)
THEOREM Invariance == Spec => []IInv
<1>1. Init => IInv
  BY InitInv
<1>2. TypeOK /\ TypeOK' /\ IInv /\ [Next]_vars => IInv'
  BY StepInv, StutterInv DEF Next
<1> QED BY <1>1, <1>2, TypeCorrect, PTL DEF Spec

(* A lookup never finds the entry of a download that failed. *)
THEOREM NoDeadEntryHolds == Spec => []NoDeadEntry
<1>1. IInv => NoDeadEntry  BY DEF IInv
<1> QED BY <1>1, Invariance, PTL

(* Ok is returned only with the files of a finished download of the URL. *)
THEOREM OkMeansDownloadedHolds == Spec => []OkMeansDownloaded
<1>1. IInv => OkMeansDownloaded  BY DEF IInv
<1> QED BY <1>1, Invariance, PTL

(* A waiter that nobody has woken has a producer that will, unless that    *)
(* producer has failed.                                                    *)
THEOREM SleeperHasWakerHolds == Spec => []SleeperHasWaker
<1>1. IInv => SleeperHasWaker  BY DEF IInv
<1> QED BY <1>1, Invariance, PTL
-----------------------------------------------------------------------------
(* The refinement mapping of Service, spelled out. *)
Outcome(p) == [t \in Tasks |-> IF p[t] \in {"ok", "err"} THEN p[t] ELSE "pending"]
Started(v) == {t \in Tasks : v[t] # "Absent"}

LEMMA InsertIsStart ==
  ASSUME IInv, NEW t \in Tasks, pc[t] \in {"lookup", "reread"},
         value[t] = "Absent", InsertInProgress(t),
         \A s \in Tasks : value[s] # "Absent" /\ UrlOf[s] = UrlOf[t] =>
           \E f \in Tasks : UrlOf[f] = UrlOf[t] /\ pc[f] = "err"
  PROVE  Service!Start(t)
<1> USE DEF IInv, TypeOK, PCs, InsertInProgress, Goto
<1>1. Outcome(pc') = Outcome(pc)
  BY DEF Outcome
<1>2. Started(value') = Started(value) \cup {t}
  BY DEF Started
<1>3. Outcome(pc)[t] = "pending" /\ t \notin Started(value)
  BY DEF Outcome, Started
<1>4. \/ Service!SameUrl(t) \cap Started(value) = {}
      \/ \E s \in Service!SameUrl(t) \cap Started(value) : Outcome(pc)[s] = "err"
  <2>1. CASE \E s \in Tasks : value[s] # "Absent" /\ UrlOf[s] = UrlOf[t]
    <3>1. PICK f \in Tasks : UrlOf[f] = UrlOf[t] /\ pc[f] = "err"
      BY <2>1
    <3>2. f \in Started(value) /\ Outcome(pc)[f] = "err"
      BY <3>1 DEF ProducerState, Started, Outcome
    <3> QED BY <3>1, <3>2 DEF Service!SameUrl
  <2>2. CASE ~ \E s \in Tasks : value[s] # "Absent" /\ UrlOf[s] = UrlOf[t]
    BY <2>2 DEF Service!SameUrl, Started
  <2> QED BY <2>1, <2>2
<1> QED BY <1>1, <1>2, <1>3, <1>4 DEF Service!Start, Outcome, Started

(* A call that finds the files in the cell of another call shares them. *)
LEMMA ReadIsShare ==
  ASSUME IInv, NEW t \in Tasks, Waiting(t), value[cell[t]] = "Available",
         pc' = [pc EXCEPT ![t] = "ok"], UNCHANGED value
  PROVE  Service!Share(t)
<1> USE DEF IInv, TypeOK, PCs
<1> DEFINE c == cell[t]
<1>1. /\ c \in Tasks /\ UrlOf[c] = UrlOf[t]
      /\ value[t] = "Absent" /\ pc[c] = "ok"
  BY DEF Waiting, CellsExist, ProducerState, InFlight
<1>2. Outcome(pc') = [Outcome(pc) EXCEPT ![t] = "ok"]
  BY DEF Outcome
<1>3. Outcome(pc)[t] = "pending" /\ t \notin Started(value)
  BY <1>1 DEF Outcome, Started, Waiting
<1>4. c \in Service!SameUrl(t) \cap Started(value) /\ Outcome(pc)[c] = "ok"
  BY <1>1 DEF Outcome, Started, Service!SameUrl
<1>5. UNCHANGED Started(value)
  BY DEF Started
<1> QED BY <1>2, <1>3, <1>4, <1>5 DEF Service!Share, Outcome, Started

LEMMA ReturnIsFinish ==
  ASSUME IInv, NEW t \in Tasks, InFlight(t), NEW r \in {"ok", "err"},
         pc' = [pc EXCEPT ![t] = r], Started(value') = Started(value)
  PROVE  Service!Finish(t)
<1> USE DEF IInv, TypeOK, PCs
<1>1. Outcome(pc') = [Outcome(pc) EXCEPT ![t] = r]
  BY DEF Outcome
<1>2. Outcome(pc)[t] = "pending" /\ t \in Started(value)
  BY DEF Outcome, Started, InFlight, ProducerState
<1> QED BY <1>1, <1>2 DEF Service!Finish, Outcome, Started

LEMMA StepRefines ==
  ASSUME IInv, NEW t \in Tasks, Step(t)
  PROVE  Service!SNext \/ UNCHANGED Service!svars
<1> USE DEF IInv, TypeOK, PCs, Goto
<1>0. Waiting(t) \/ pc[t] = "lookup" => value[t] = "Absent"
  BY DEF ProducerState, Waiting, InFlight
<1>a. ASSUME UNCHANGED value,
             pc' = pc \/ \E l \in PCs \ {"ok", "err"} :
                           pc[t] \notin {"ok", "err"} /\ pc' = [pc EXCEPT ![t] = l]
      PROVE  UNCHANGED Service!svars
  <2>1. Outcome(pc') = Outcome(pc) /\ Started(value') = Started(value)
    BY <1>a DEF Outcome, Started
  <2> QED BY <2>1 DEF Service!svars, Outcome, Started
<1>1. CASE Lookup(t)
  <2>1. CASE memCache[UrlOf[t]] = NoCell
    <3>1. \A s \in Tasks : value[s] # "Absent" /\ UrlOf[s] = UrlOf[t] =>
            \E f \in Tasks : UrlOf[f] = UrlOf[t] /\ pc[f] = "err"
      BY <2>1 DEF NoEntryReason
    <3>2. InsertInProgress(t) /\ pc[t] = "lookup"
      BY <1>1, <2>1 DEF Lookup
    <3> QED BY <1>0, <3>1, <3>2, InsertIsStart DEF Service!SNext
  <2>2. CASE memCache[UrlOf[t]] # NoCell
    BY <1>1, <1>a, <2>2 DEF Lookup
  <2> QED BY <2>1, <2>2
<1>2. CASE Inspect(t) \/ Recheck(t) \/ Wake(t)
  <2>1. CASE pc' = [pc EXCEPT ![t] = "ok"]
    <3>1. Waiting(t) /\ value[cell[t]] = "Available" /\ UNCHANGED value
      BY <1>2, <2>1 DEF Inspect, Recheck, Wake, Waiting
    <3> QED BY <2>1, <3>1, ReadIsShare DEF Service!SNext
  <2>2. CASE pc' # [pc EXCEPT ![t] = "ok"]
    BY <1>2, <1>a, <2>2 DEF Inspect, Recheck, Wake
  <2> QED BY <2>1, <2>2
<1>3. CASE Reread(t)
  <2>1. CASE value[cell[t]] = "Available"
    BY <1>3, <2>1, ReadIsShare DEF Reread, Waiting, Service!SNext
  <2>2. CASE value[cell[t]] # "Available"
    <3>1. InsertInProgress(t) /\ pc[t] = "reread"
      BY <1>3, <2>2 DEF Reread
    <3>2. /\ cell[t] \in Tasks
          /\ UrlOf[cell[t]] = UrlOf[t]
          /\ value[cell[t]] = "InProgress"
          /\ Returned(cell[t])
      BY <2>2, <3>1 DEF CellsExist, WokenAfterReturn
    <3>3. pc[cell[t]] = "err"
      BY <3>2 DEF ProducerState, InFlight, Returned
    <3> QED BY <1>0, <3>1, <3>2, <3>3, InsertIsStart DEF Waiting, Service!SNext
  <2> QED BY <2>1, <2>2
<1>4. CASE DownloadOk(t)
  BY <1>4, <1>a DEF DownloadOk
<1>5. CASE Publish(t)
  <2>1. Started(value') = Started(value)
    BY <1>5 DEF Publish, Started, ProducerState, InFlight
  <2> QED BY <1>5, <2>1, ReturnIsFinish DEF Publish, InFlight, Service!SNext
<1>6. CASE DownloadErr(t)
  <2>1. Started(value') = Started(value)
    BY <1>6 DEF DownloadErr, Started
  <2> QED BY <1>6, <2>1, ReturnIsFinish DEF DownloadErr, InFlight, Service!SNext
<1> QED BY <1>1, <1>2, <1>3, <1>4, <1>5, <1>6 DEF Step

(* The cache implements TarballService: a call ends with the outcome of    *)
(* its own download or shares a successful one, and a URL is downloaded    *)
(* again only after a download of it failed.                               *)
THEOREM Refinement == Spec => ImplementsService
<1>1. Init => Service!SInit
  BY DEF Init, Service!SInit
<1>2. IInv /\ [Next]_vars => [Service!SNext]_(Service!svars)
  <2>1. IInv /\ Next => Service!SNext \/ UNCHANGED Service!svars
    BY StepRefines DEF Next
  <2>2. UNCHANGED vars => UNCHANGED Service!svars
    BY DEF vars, Service!svars
  <2> QED BY <2>1, <2>2
<1> QED BY <1>1, <1>2, Invariance, PTL DEF Spec, Service!SSpec, ImplementsService
-----------------------------------------------------------------------------
(* The fetch. *)
Senders == {t \in Tasks : phase[t] = "send"}

(* Attempts are left whenever a call sleeps before the next one. *)
AttemptsLeft == \A t \in Tasks : phase[t] = "backoff" => attempt[t] < MaxAttempts

(* PermitsConserved, with what counting the senders needs. *)
PermitsCounted == /\ IsFiniteSet(Senders)
                  /\ available + Cardinality(Senders) = Permits

(* A call that is about to publish files, or has published them. *)
HasFiles(t) == pc[t] = "publish" \/ value[t] = "Available"
FilesMeanIndexed == \A t \in Tasks : HasFiles(t) => UrlOf[t] \in indexed

FetchInv == /\ FetchTypeOK
            /\ AttemptsLeft
            /\ PermitsCounted
            /\ FilesMeanIndexed
            /\ OfflineErrors
-----------------------------------------------------------------------------
(* Every step of the fetch is a step of the cache or leaves its variables  *)
(* alone.                                                                  *)
LEMMA FetchStepIsCacheStep ==
  ASSUME NEW t \in Tasks, FetchStep(t)
  PROVE  Step(t) \/ UNCHANGED vars
<1>1. CASE CacheStep(t)    BY <1>1 DEF CacheStep, Step
<1>2. CASE ReuseIndex(t)   BY <1>2 DEF ReuseIndex, Step
<1>3. CASE MissIndex(t)    BY <1>3 DEF MissIndex, Step, vars
<1>4. CASE Acquire(t)      BY <1>4 DEF Acquire, vars
<1>5. CASE SendDone(t)     BY <1>5 DEF SendDone, RetryOrGiveUp, Step, vars
<1>6. CASE BodyDone(t)     BY <1>6 DEF BodyDone, RetryOrGiveUp, Step, vars
<1>7. CASE BackoffDone(t)  BY <1>7 DEF BackoffDone, vars
<1>8. CASE Extract(t)      BY <1>8 DEF Extract, Step
<1> QED BY <1>1, <1>2, <1>3, <1>4, <1>5, <1>6, <1>7, <1>8 DEF FetchStep

(* The fetch implements the cache: the safety part of ImplementsCache. *)
THEOREM FetchRefinesCache == FetchSpec => Spec
<1>1. FetchInit => Init
  BY DEF FetchInit
<1>2. [FetchNext]_allVars => [Next]_vars
  BY FetchStepIsCacheStep DEF FetchNext, Next, allVars, vars
<1> QED BY <1>1, <1>2, PTL DEF FetchSpec, Spec

(* With retries, permits and reuse of the store, a call still ends with    *)
(* the outcome of its own download or shares a successful one.             *)
THEOREM FetchRefinesService == FetchSpec => ImplementsService
BY FetchRefinesCache, Refinement, PTL
-----------------------------------------------------------------------------
LEMMA FetchInitInv == FetchInit => FetchInv
<1> SUFFICES ASSUME FetchInit PROVE FetchInv
  OBVIOUS
<1> USE FetchAssumption, CacheAssumption DEF FetchInit
<1>1. FetchTypeOK
  BY DEF FetchTypeOK, TypeOK, PCs, Phases, Init
<1>2. AttemptsLeft /\ FilesMeanIndexed /\ OfflineErrors
  BY DEF AttemptsLeft, FilesMeanIndexed, HasFiles, OfflineErrors, Fetching, Init
<1>3. PermitsCounted
  <2>1. Senders = {}  BY DEF Senders
  <2> QED BY <2>1, FS_EmptySet DEF PermitsCounted
<1> QED BY <1>1, <1>2, <1>3 DEF FetchInv

(* A step that neither starts nor ends a request leaves the permits alone. *)
LEMMA PermitsUntouched ==
  ASSUME PermitsCounted, FetchTypeOK, UNCHANGED available,
         \/ UNCHANGED phase
         \/ \E t \in Tasks, p \in Phases \ {"send"} :
              phase[t] # "send" /\ phase' = [phase EXCEPT ![t] = p]
  PROVE  PermitsCounted'
<1>1. Senders' = Senders
  BY DEF Senders, FetchTypeOK
<1> QED BY <1>1 DEF PermitsCounted

LEMMA PermitTaken ==
  ASSUME PermitsCounted, FetchTypeOK, NEW t \in Tasks, Acquire(t)
  PROVE  PermitsCounted' /\ available' \in 0..Permits
<1> USE FetchAssumption DEF FetchTypeOK, Acquire, Enter
<1>1. Senders' = Senders \cup {t} /\ t \notin Senders
  BY DEF Senders
<1>2. /\ IsFiniteSet(Senders \cup {t})
      /\ Cardinality(Senders \cup {t}) = Cardinality(Senders) + 1
  BY <1>1, FS_AddElement DEF PermitsCounted
<1>3. Cardinality(Senders) \in Nat
  BY FS_CardinalityType DEF PermitsCounted
<1> QED BY <1>1, <1>2, <1>3 DEF PermitsCounted

LEMMA PermitReturned ==
  ASSUME PermitsCounted, FetchTypeOK, NEW t \in Tasks, phase[t] = "send",
         NEW p \in Phases \ {"send"}, phase' = [phase EXCEPT ![t] = p],
         available' = available + 1
  PROVE  PermitsCounted' /\ available' \in 0..Permits
<1> USE FetchAssumption DEF FetchTypeOK
<1>1. Senders' = Senders \ {t} /\ t \in Senders
  BY DEF Senders
<1>2. /\ IsFiniteSet(Senders \ {t})
      /\ Cardinality(Senders \ {t}) = Cardinality(Senders) - 1
  BY <1>1, FS_RemoveElement DEF PermitsCounted
<1>3. Cardinality(Senders) \in Nat /\ Cardinality(Senders \ {t}) \in Nat
  BY <1>2, FS_CardinalityType DEF PermitsCounted
<1> QED BY <1>1, <1>2, <1>3 DEF PermitsCounted
-----------------------------------------------------------------------------
LEMMA FetchStepInv ==
  ASSUME FetchInv, TypeOK', NEW t \in Tasks, FetchStep(t)
  PROVE  FetchInv'
<1> USE FetchAssumption, CacheAssumption
    DEF FetchInv, FetchTypeOK, TypeOK, PCs, Phases, Enter, Goto
<1>1. CASE CacheStep(t)
  <2>1. UNCHANGED <<flags, phase, attempt, available, indexed>>
    BY <1>1 DEF CacheStep, fetchVars
  <2>2. FetchTypeOK' /\ AttemptsLeft' /\ PermitsCounted'
    BY <2>1, PermitsUntouched DEF AttemptsLeft
  <2>3. \A s \in Tasks : /\ HasFiles(s)' => HasFiles(s)
                         /\ pc'[s] = "err" => pc[s] = "err"
    BY <1>1 DEF CacheStep, HasFiles, Lookup, Inspect, Recheck, Wake, Reread,
                Publish, InsertInProgress
  <2>4. FilesMeanIndexed' /\ OfflineErrors'
    BY <2>1, <2>3 DEF FilesMeanIndexed, OfflineErrors, Fetching
  <2> QED BY <2>2, <2>4
<1>2. CASE ReuseIndex(t)
  <2>1. /\ UNCHANGED <<flags, phase, attempt, available, indexed, value>>
        /\ pc' = [pc EXCEPT ![t] = "publish"]
        /\ UrlOf[t] \in indexed
    BY <1>2 DEF ReuseIndex, fetchVars, DownloadOk
  <2>2. FetchTypeOK' /\ AttemptsLeft' /\ PermitsCounted'
    BY <2>1, PermitsUntouched DEF AttemptsLeft
  <2>3. FilesMeanIndexed' /\ OfflineErrors'
    BY <2>1 DEF FilesMeanIndexed, HasFiles, OfflineErrors, Fetching
  <2> QED BY <2>2, <2>3
<1>3. CASE MissIndex(t) /\ flags.offline
  <2>1. /\ UNCHANGED <<flags, phase, attempt, available, indexed, value>>
        /\ pc' = [pc EXCEPT ![t] = "err"]
        /\ flags.force \/ UrlOf[t] \notin indexed
    BY <1>3 DEF MissIndex, fetchVars, DownloadErr
  <2>2. FetchTypeOK' /\ AttemptsLeft' /\ PermitsCounted'
    BY <2>1, PermitsUntouched DEF AttemptsLeft
  <2>3. FilesMeanIndexed' /\ OfflineErrors'
    BY <2>1 DEF FilesMeanIndexed, HasFiles, OfflineErrors, Fetching
  <2> QED BY <2>2, <2>3
<1>4. ASSUME ~flags.offline, UNCHANGED flags
      PROVE  OfflineErrors'
  BY <1>4 DEF OfflineErrors
<1>5. CASE MissIndex(t) /\ ~flags.offline
  <2>1. /\ UNCHANGED <<flags, available, indexed, value, pc>>
        /\ phase[t] = "none" /\ phase' = [phase EXCEPT ![t] = "acquire"]
        /\ attempt' = [attempt EXCEPT ![t] = 1]
    BY <1>5 DEF MissIndex, vars
  <2>2. FetchTypeOK' /\ AttemptsLeft'
    BY <2>1 DEF AttemptsLeft
  <2>3. PermitsCounted'
    BY <2>1, PermitsUntouched
  <2>4. FilesMeanIndexed'
    BY <2>1 DEF FilesMeanIndexed, HasFiles
  <2> QED BY <1>4, <1>5, <2>1, <2>2, <2>3, <2>4
<1>6. ASSUME phase[t] # "none"
      PROVE  ~flags.offline
  BY <1>6 DEF OfflineErrors, Fetching
<1>7. CASE Acquire(t)
  <2>1. /\ UNCHANGED <<flags, attempt, indexed, value, pc>>
        /\ phase[t] = "acquire" /\ phase' = [phase EXCEPT ![t] = "send"]
    BY <1>7 DEF Acquire, vars
  <2>2. PermitsCounted' /\ available' \in 0..Permits
    BY <1>7, PermitTaken
  <2>3. FetchTypeOK' /\ AttemptsLeft'
    BY <2>1, <2>2 DEF AttemptsLeft
  <2>4. FilesMeanIndexed'
    BY <2>1 DEF FilesMeanIndexed, HasFiles
  <2> QED BY <1>4, <1>6, <2>1, <2>2, <2>3, <2>4
<1>8. ASSUME RetryOrGiveUp(t) \/ \E p \in {"body", "extract"} :
                                   Enter(t, p) /\ UNCHANGED vars,
             UNCHANGED <<flags, attempt, indexed>>
      PROVE  /\ \E p \in Phases \ {"send"} : phase' = [phase EXCEPT ![t] = p]
             /\ AttemptsLeft'
             /\ FilesMeanIndexed'
  <2>1. AttemptsLeft' /\ \E p \in Phases \ {"send"} : phase' = [phase EXCEPT ![t] = p]
    BY <1>8 DEF AttemptsLeft, RetryOrGiveUp
  <2>2. \A s \in Tasks : HasFiles(s)' => HasFiles(s)
    BY <1>8 DEF RetryOrGiveUp, HasFiles, DownloadErr, vars
  <2> QED BY <1>8, <2>1, <2>2 DEF FilesMeanIndexed
<1>9. CASE SendDone(t)
  <2>1. /\ UNCHANGED <<flags, attempt, indexed>>
        /\ phase[t] = "send" /\ available' = available + 1
        /\ RetryOrGiveUp(t) \/ \E p \in {"body", "extract"} :
                                 Enter(t, p) /\ UNCHANGED vars
    BY <1>9 DEF SendDone
  <2>2. PICK p \in Phases \ {"send"} : phase' = [phase EXCEPT ![t] = p]
    BY <1>8, <2>1
  <2>3. PermitsCounted' /\ available' \in 0..Permits
    BY <2>1, <2>2, PermitReturned
  <2> QED BY <1>4, <1>6, <1>8, <2>1, <2>2, <2>3
<1>10. CASE BodyDone(t)
  <2>1. /\ UNCHANGED <<flags, attempt, available, indexed>>
        /\ phase[t] = "body"
        /\ RetryOrGiveUp(t) \/ \E p \in {"body", "extract"} :
                                 Enter(t, p) /\ UNCHANGED vars
    BY <1>10 DEF BodyDone
  <2>2. PICK p \in Phases \ {"send"} : phase' = [phase EXCEPT ![t] = p]
    BY <1>8, <2>1
  <2>3. PermitsCounted'
    BY <2>1, <2>2, PermitsUntouched
  <2> QED BY <1>4, <1>6, <1>8, <2>1, <2>2, <2>3
<1>11. CASE BackoffDone(t)
  <2>1. /\ UNCHANGED <<flags, available, indexed, value, pc>>
        /\ phase[t] = "backoff" /\ phase' = [phase EXCEPT ![t] = "acquire"]
        /\ attempt' = [attempt EXCEPT ![t] = @ + 1]
    BY <1>11 DEF BackoffDone, vars
  <2>2. FetchTypeOK' /\ AttemptsLeft'
    BY <2>1 DEF AttemptsLeft
  <2>3. PermitsCounted'
    BY <2>1, PermitsUntouched
  <2>4. FilesMeanIndexed'
    BY <2>1 DEF FilesMeanIndexed, HasFiles
  <2> QED BY <1>4, <1>6, <2>1, <2>2, <2>3, <2>4
<1>12. CASE Extract(t)
  <2>1. /\ UNCHANGED <<flags, attempt, available, value>>
        /\ phase[t] = "extract" /\ phase' = [phase EXCEPT ![t] = "none"]
        /\ \/ /\ pc' = [pc EXCEPT ![t] = "publish"]
              /\ indexed' = indexed \cup {UrlOf[t]}
           \/ /\ pc' = [pc EXCEPT ![t] = "err"]
              /\ UNCHANGED indexed
    BY <1>12 DEF Extract, DownloadOk, DownloadErr
  <2>2. FetchTypeOK' /\ AttemptsLeft'
    BY <2>1 DEF AttemptsLeft
  <2>3. PermitsCounted'
    BY <2>1, PermitsUntouched
  <2>4. FilesMeanIndexed'
    BY <2>1 DEF FilesMeanIndexed, HasFiles
  <2> QED BY <1>4, <1>6, <2>1, <2>2, <2>3, <2>4
<1> QED BY <1>1, <1>2, <1>3, <1>5, <1>7, <1>9, <1>10, <1>11, <1>12 DEF FetchStep

LEMMA FetchStutterInv == FetchInv /\ UNCHANGED allVars => FetchInv'
BY DEF allVars, FetchInv, FetchTypeOK, TypeOK, AttemptsLeft, PermitsCounted,
       Senders, FilesMeanIndexed, HasFiles, OfflineErrors, Fetching

(* The inductive invariant of the fetch.  PermitsConserved by itself does  *)
(* not bound the permits, for which the senders have to be counted, and    *)
(* AvailableMeansIndexed does not say that a call about to publish already *)
(* has the index it needs.                                                 *)
THEOREM FetchInvariance == FetchSpec => []FetchInv
<1>1. FetchInit => FetchInv
  BY FetchInitInv
<1>2. FetchInv /\ TypeOK' /\ [FetchNext]_allVars => FetchInv'
  BY FetchStepInv, FetchStutterInv DEF FetchNext
<1>3. FetchSpec => []TypeOK
  BY FetchRefinesCache, TypeCorrect, PTL
<1> QED BY <1>1, <1>2, <1>3, PTL DEF FetchSpec

(* The variables keep their types: no call starts more than MaxAttempts    *)
(* requests, and the free permits never exceed the configured number.      *)
THEOREM FetchTypeCorrect == FetchSpec => []FetchTypeOK
<1>1. FetchInv => FetchTypeOK  BY DEF FetchInv
<1> QED BY <1>1, FetchInvariance, PTL

(* Free permits and requests in flight add up to the configured number. *)
THEOREM PermitsConservedHolds == FetchSpec => []PermitsConserved
<1>1. FetchInv => PermitsConserved
  BY DEF FetchInv, PermitsCounted, PermitsConserved, Senders
<1> QED BY <1>1, FetchInvariance, PTL

(* Files are handed out only with their store index in place. *)
THEOREM AvailableMeansIndexedHolds == FetchSpec => []AvailableMeansIndexed
<1>1. FetchInv => AvailableMeansIndexed
  BY DEF FetchInv, FilesMeanIndexed, HasFiles, AvailableMeansIndexed
<1> QED BY <1>1, FetchInvariance, PTL

(* Offline, nothing is fetched, and only what the store lacks fails. *)
THEOREM OfflineErrorsHolds == FetchSpec => []OfflineErrors
<1>1. FetchInv => OfflineErrors  BY DEF FetchInv
<1> QED BY <1>1, FetchInvariance, PTL
=============================================================================
