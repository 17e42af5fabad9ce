------------------------- MODULE SeatmapCacheProps -------------------------
(***************************************************************************)
(* What SeatmapCache is checked for.                                       *)
(***************************************************************************)
EXTENDS SeatmapCache

\* The value and its expiry come and go together; a reader is in the line of its
\* process exactly between its first miss and its answer, once, and only the
\* head of the line is past the lock (async with, seatmap_service.py:156).
TypeOK ==
  /\ version \in Versions
  /\ old \in [Versions -> 0..TTL + MaxSlow + 1]
  /\ cache \in Versions \union {None} /\ cacheLeft \in 0..TTL
  /\ cache = None <=> cacheLeft = 0
  /\ pc \in [Readers -> PCs]
  /\ got \in [Readers -> Versions \union {None}]
  /\ slow \in [Readers -> 0..MaxSlow]
  /\ faults \in 0..MaxFaults
  /\ \A r \in Readers :
       /\ got[r] # None <=> pc[r] = "write"
       /\ pc[r] \in {"recheck", "read", "write"} =>
            queue[Home[r]] # <<>> /\ Head(queue[Home[r]]) = r
       /\ Cardinality({i \in DOMAIN queue[Home[r]] : queue[Home[r]][i] = r})
            = IF pc[r] \in {"idle", "peek"} THEN 0 ELSE 1

\* What the cache serves was replaced at most TTL plus the time from a database
\* read to its cache write ago (policy.py:36: staleness of the TTL is accepted;
\* a slow writer adds its own delay, also one that overwrites a newer map of
\* another process).
StaleBounded ==
  cache # None /\ cache < version => old[cache] + cacheLeft <= TTL + MaxSlow

\* No stampede: however many readers miss at once, and whoever waited for whom,
\* a process reads the database once, until time passes or a call fails: each
\* tick starts the count again (seatmap_service.py:157-158).
OneReadPerProcess == \A h \in Processes : reads[h] <= 1

\* Every reader is answered: a database error, a Redis error or a client that
\* hangs up never leaves the others waiting at the lock.
EveryReaderAnswered == \A r \in Readers : pc[r] # "idle" ~> pc[r] = "idle"
=============================================================================
