------------------------------ MODULE QueryCache ------------------------------
(***************************************************************************)
(* The web UI's copy of the server's data: one react-query entry for every *)
(* family of query keys.  The library itself is external; what the code    *)
(* decides is the families and their keys, the retry and refetch options,  *)
(* what each mutation hook and each server event invalidates.              *)
(*                                                                         *)
(* entry[f]  data    the content shown (NoContent before the first answer) *)
(*           fetch   "idle", "sent" (request under way), "served" (answer  *)
(*                   under way)                                            *)
(*           served  what the server answered                              *)
(*           tries   failed attempts of this fetch                         *)
(*           stale   invalidated, to be refetched at the next mount        *)
(***************************************************************************)
EXTENDS FactoryApi

VARIABLE entry

\* The options of createQueryClient.
Retry == 1

NewEntry == [data |-> NoContent, fetch |-> "idle", served |-> NoContent, tries |-> 0,
             stale |-> FALSE]

CacheInit == entry = [f \in Families |-> NewEntry]

Fetching(e) == e.fetch # "idle"

StartFetch(e) == [e EXCEPT !.fetch = "sent", !.served = NoContent, !.tries = 0]

\* An observer mounts, or the window regains focus: the entry is fetched when
\* it has no data or is stale (invalidated, or older than staleTime), unless
\* it is being fetched.
FetchIfStale(e, expired) ==
  IF ~Fetching(e) /\ (e.data = NoContent \/ e.stale \/ expired) THEN StartFetch(e) ELSE e

\* invalidateQueries: the entry is stale; an observed one is fetched again, and
\* a refetch under way is cancelled for the new one.  A first fetch, which has
\* no data to fall back on, is left to finish.
Invalidate(e, mounted) ==
  IF ~mounted \/ (Fetching(e) /\ e.data = NoContent)
    THEN [e EXCEPT !.stale = TRUE]
    ELSE StartFetch([e EXCEPT !.stale = TRUE])

InvalidateAll(families, mounted) ==
  entry' = [f \in Families |->
              IF f \in families THEN Invalidate(entry[f], f \in mounted) ELSE entry[f]]

\* apiFetch: the answer is 2xx, and its body replaces the data.
FetchSucceeds(f) ==
  /\ entry[f].fetch = "served"
  /\ entry' = [entry EXCEPT ![f] = [NewEntry EXCEPT !.data = entry[f].served]]

\* A query that fails is tried once more, then left with the data it had,
\* marked stale.
AfterFailure(e) ==
  IF e.tries < Retry
    THEN [e EXCEPT !.fetch = "sent", !.served = NoContent, !.tries = e.tries + 1]
    ELSE [e EXCEPT !.fetch = "idle", !.served = NoContent, !.tries = 0, !.stale = TRUE]

\* apiFetch throws: the request or its answer is lost.
FetchFails(f) ==
  /\ Fetching(entry[f])
  /\ entry' = [entry EXCEPT ![f] = AfterFailure(entry[f])]

-----------------------------------------------------------------------------
(* What invalidates what.                                                  *)

\* The families an event of a channel concerns.
CHANNEL_INVALIDATION_MAP ==
  [tasks   |-> {"tasks", "reviews", "audit"},
   workers |-> {"pools", "audit"},
   queue   |-> {"tasks", "audit", "mergeQueue", "factoryState"}]

EVENT_TYPE_EXTRA_INVALIDATIONS(type) ==
  CASE type = "task.state_changed"             -> {"pools"}
    [] type = "merge_queue_item.state_changed" -> {"reviews", "mergeQueue"}
    [] OTHER                                   -> {}

GetInvalidationKeys(event) ==
  CHANNEL_INVALIDATION_MAP[event.channel] \cup EVENT_TYPE_EXTRA_INVALIDATIONS(event.type)
=============================================================================
