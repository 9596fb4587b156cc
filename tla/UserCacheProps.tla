--------------------------- MODULE UserCacheProps ---------------------------
(***************************************************************************)
(* How far the cached copies of a user may be behind the users row.        *)
(***************************************************************************)
EXTENDS UserCache

\* The TTL is the safety net under lost invalidations, the writers that have none
\* (although user-cache.ts says of invalidateUser: "Call after any user mutation") and
\* every race of a fill with an invalidation: no stale entry outlives the third tick
\* after the row was last written and a refresh last cached what it found cached,
\* that is one TTL in the hands of a handler and one in Redis
\* (refresh-with-token.service.ts gives a cached copy a new TTL, stale or not).
StaleAtMostTTL ==
    quiet = 3 => \A k \in Keys : entry[k] \in {Accurate, Nothing}
=============================================================================
