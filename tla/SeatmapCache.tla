---------------------------- MODULE SeatmapCache ----------------------------
(***************************************************************************)
(* The seat map of one schedule and its cache:                             *)
(* app/service/seatmap_service.py over the cache calls of                  *)
(* app/infra/redis/client.py.                                              *)
(*                                                                         *)
(* Several processes share one Redis.  In each of them the readers that    *)
(* miss the cache line up at an asyncio.Lock, look again, and only then    *)
(* read the database and fill the cache.  Every await is a point where     *)
(* others go on, so each is the end of a step.                             *)
(*                                                                         *)
(* The seat map is a version number: nothing here looks inside it.         *)
(***************************************************************************)
EXTENDS Integers, Sequences, FiniteSets, SequencesExt

CONSTANTS
  Readers, Processes,
  Home,         \* the process a reader runs in
  TTL,          \* policy.SEATMAP_CACHE_TTL, in ticks
  MaxSlow,      \* the most ticks between a database read and its cache write
  MaxVersion,   \* bound: changes of the seats
  MaxFaults     \* bound: Redis or database errors, canceled requests

ASSUME HomeOK == Home \in [Readers -> Processes]
ASSUME BoundsOK ==
  TTL \in Nat \ {0} /\ MaxSlow \in Nat /\ MaxVersion \in Nat /\ MaxFaults \in Nat

Versions == 0..MaxVersion
None == -1
PCs == {"idle", "peek", "lock", "recheck", "read", "write"}

VARIABLES
  version,          \* what the database holds now
  old,              \* for each past version: the time since it was replaced
  cache, cacheLeft, \* what Redis holds, and for how long
  queue,            \* _locks: the holder of a process's lock, then its waiters
  pc, got, slow,    \* a reader: its step, what it read, and how long ago
  reads,            \* history: database reads of a process since time or luck
                    \* last changed
  faults

vars == <<version, old, cache, cacheLeft, queue, pc, got, slow, reads, faults>>

Init ==
  /\ version = 0
  /\ old = [v \in Versions |-> 0]
  /\ cache = None /\ cacheLeft = 0
  /\ queue = [h \in Processes |-> <<>>]
  /\ pc = [r \in Readers |-> "idle"]
  /\ got = [r \in Readers |-> None]
  /\ slow = [r \in Readers |-> 0]
  /\ reads = [h \in Processes |-> 0]
  /\ faults = 0

Goto(r, l) == pc' = [pc EXCEPT ![r] = l]

Fault ==
  /\ faults < MaxFaults /\ faults' = faults + 1
  /\ reads' = [h \in Processes |-> 0]
NoFault == UNCHANGED <<faults, reads>>

Places(r) == {i \in DOMAIN queue[Home[r]] : queue[Home[r]][i] = r}

LeaveLine(r) ==
  \/ Places(r) = {} /\ UNCHANGED queue
  \/ \E i \in Places(r) : queue' = [queue EXCEPT ![Home[r]] = RemoveAt(@, i)]

\* The reader has its answer, or its exception: it forgets what it read, and
\* leaves the lock if it was in the line.
\* Mutation: the lock is taken and given back by hand, and an exception skips it.
AnsweredKeepingLock(r) ==
  /\ Goto(r, "idle")
  /\ got' = [got EXCEPT ![r] = None]
  /\ slow' = [slow EXCEPT ![r] = 0]
  /\ IF pc[r] = "read" THEN UNCHANGED queue ELSE LeaveLine(r)
Answered(r) ==
  /\ Goto(r, "idle")
  /\ got' = [got EXCEPT ![r] = None]
  /\ slow' = [slow EXCEPT ![r] = 0]
  /\ LeaveLine(r)

-----------------------------------------------------------------------------
Start(r) ==
  /\ pc[r] = "idle"
  /\ Goto(r, "peek")
  /\ UNCHANGED <<version, old, cache, cacheLeft, queue, got, slow, reads, faults>>

\* cache_get_json: a miss, a broken value and an unreachable Redis are the same.
\* Mutation: a read extends the life of what it found.
HitExtends == cache # None /\ NoFault /\ cacheLeft' = TTL
Hit == cache # None /\ NoFault /\ UNCHANGED cacheLeft
Miss ==
  /\ \/ cache = None /\ NoFault
     \/ cache # None /\ Fault
  /\ UNCHANGED cacheLeft

\* The first look, without the lock.
Peek(r) ==
  /\ pc[r] = "peek"
  /\ \/ Hit /\ Answered(r)
     \/ /\ Miss
        /\ Goto(r, "lock")
        /\ queue' = [queue EXCEPT ![Home[r]] = Append(@, r)]
        /\ UNCHANGED <<got, slow>>
  /\ UNCHANGED <<version, old, cache>>

\* async with _lock_for(schedule_id): first come, first served.
Enter(r) ==
  /\ pc[r] = "lock" /\ Head(queue[Home[r]]) = r
  /\ Goto(r, "recheck")
  /\ UNCHANGED <<version, old, cache, cacheLeft, queue, got, slow, reads, faults>>

\* Mutation: whoever waited for the lock reads the database.
RecheckNot(r) ==
  /\ pc[r] = "recheck"
  /\ Goto(r, "read") /\ NoFault
  /\ UNCHANGED <<cacheLeft, queue, got, slow>>
  /\ UNCHANGED <<version, old, cache>>
\* The second look, under the lock.
Recheck(r) ==
  /\ pc[r] = "recheck"
  /\ \/ Hit /\ Answered(r)
     \/ Miss /\ Goto(r, "read") /\ UNCHANGED <<queue, got, slow>>
  /\ UNCHANGED <<version, old, cache>>

\* _read_db; an error leaves through the lock's exit.
Read(r) ==
  /\ pc[r] = "read"
  /\ \/ /\ Goto(r, "write")
        /\ got' = [got EXCEPT ![r] = version]
        /\ reads' = [reads EXCEPT ![Home[r]] = @ + 1]
        /\ UNCHANGED <<queue, slow, faults>>
     \/ Answered(r) /\ Fault
  /\ UNCHANGED <<version, old, cache, cacheLeft>>

\* SET with PX, whatever is there: another process may have written meanwhile.
Fill(r) ==
  /\ cache' = got[r]
  /\ cacheLeft' = TTL

\* _cache_write, then the answer; an unreachable Redis changes nothing for the
\* reader.
Write(r) ==
  /\ pc[r] = "write"
  /\ \/ Fill(r) /\ NoFault
     \/ UNCHANGED <<cache, cacheLeft>> /\ Fault
  /\ Answered(r)
  /\ UNCHANGED <<version, old>>

\* The client hangs up: CancelledError at whatever the reader awaits.
Cancel(r) ==
  /\ pc[r] # "idle"
  /\ Answered(r) /\ Fault
  /\ UNCHANGED <<version, old, cache, cacheLeft>>

-----------------------------------------------------------------------------
\* A hold, a sale, a release: the seats of the schedule change.
Change ==
  /\ version < MaxVersion
  /\ version' = version + 1
  /\ UNCHANGED <<old, cache, cacheLeft, queue, pc, got, slow, reads, faults>>

\* No write may be later than MaxSlow after its read.
Tick ==
  /\ \A r \in Readers : pc[r] = "write" => slow[r] < MaxSlow
  /\ slow' = [r \in Readers |-> IF pc[r] = "write" THEN slow[r] + 1 ELSE 0]
  /\ old' = [v \in Versions |->
               IF v < version /\ old[v] <= TTL + MaxSlow THEN old[v] + 1 ELSE old[v]]
  /\ cacheLeft' = IF cacheLeft > 0 THEN cacheLeft - 1 ELSE 0
  /\ cache' = IF cacheLeft > 1 THEN cache ELSE None
  /\ reads' = [h \in Processes |-> 0]
  /\ UNCHANGED <<version, queue, pc, got, faults>>

Work(r) == Peek(r) \/ Enter(r) \/ Recheck(r) \/ Read(r) \/ Write(r)

Next ==
  \/ \E r \in Readers : Start(r) \/ Work(r) \/ Cancel(r)
  \/ Change \/ Tick

Spec == Init /\ [][Next]_vars

\* A reader that has started goes on.
FairSpec == Spec /\ \A r \in Readers : WF_vars(Work(r))
=============================================================================
