--------------------------- MODULE TarballService ---------------------------
(***************************************************************************)
(* What the in-memory tarball cache promises to its callers: every call of *)
(* run_with_mem_cache ends with the outcome of a download of its own or    *)
(* shares the file map of a download of the same URL that succeeded.       *)
(* TarballCache is shown to implement this specification.                  *)
(***************************************************************************)
CONSTANTS Tasks,   \* calls of run_with_mem_cache
          Urls,    \* tarball URLs, the keys of the cache
          UrlOf    \* the URL each call asks for

VARIABLES outcome, \* what a call has returned: "pending", "ok" or "err"
          started  \* the calls that started a download of their own

svars == <<outcome, started>>

SameUrl(t) == {s \in Tasks : UrlOf[s] = UrlOf[t]}

SInit == /\ outcome = [t \in Tasks |-> "pending"]
         /\ started = {}

(* A download starts when it is the first for its URL, or when one of that *)
(* URL has failed.                                                         *)
Start(t) == /\ outcome[t] = "pending"
            /\ t \notin started
            /\ \/ SameUrl(t) \cap started = {}
               \/ \E s \in SameUrl(t) \cap started : outcome[s] = "err"
            /\ started' = started \cup {t}
            /\ UNCHANGED outcome

(* A call that downloads ends with what its own download gave. *)
Finish(t) == /\ t \in started
             /\ outcome[t] = "pending"
             /\ \E r \in {"ok", "err"} : outcome' = [outcome EXCEPT ![t] = r]
             /\ UNCHANGED started

(* Any other call returns the files of a download that succeeded; it never *)
(* inherits an error.                                                      *)
Share(t) == /\ t \notin started
            /\ outcome[t] = "pending"
            /\ \E s \in SameUrl(t) \cap started : outcome[s] = "ok"
            /\ outcome' = [outcome EXCEPT ![t] = "ok"]
            /\ UNCHANGED started

SNext == \E t \in Tasks : Start(t) \/ Finish(t) \/ Share(t)

SSpec == SInit /\ [][SNext]_svars
=============================================================================
