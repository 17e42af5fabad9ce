------------------------- MODULE SeatmapCacheProofs -------------------------
(***************************************************************************)
(* How old the seat map that is served can be, who stands in the line for  *)
(* it and how often it is read: proved for any number of processes and     *)
(* readers, any TTL and any delay of a writer.                             *)
(***************************************************************************)
EXTENDS SeatmapCacheProps, SequenceTheorems, FiniteSetTheorems, TLAPS

-----------------------------------------------------------------------------
(* The age of what is served.                                              *)

Fields ==
  /\ version \in Versions
  /\ old \in [Versions -> 0..TTL + MaxSlow + 1]
  /\ cache \in Versions \union {None} /\ cacheLeft \in 0..TTL
  /\ cache = None => cacheLeft = 0
  /\ pc \in [Readers -> PCs]
  /\ got \in [Readers -> Versions \union {None}]
  /\ slow \in [Readers -> 0..MaxSlow]

\* Only what was replaced has an age; a map on its way to the cache is not older than
\* the way took, and one in the cache not older than the way and its time there.
AgeInv ==
  /\ Fields
  /\ \A v \in Versions : v >= version => old[v] = 0
  /\ \A r \in Readers : pc[r] = "write" =>
       /\ got[r] \in Versions /\ got[r] <= version
       /\ got[r] < version => old[got[r]] <= slow[r]
  /\ \A r \in Readers : pc[r] # "write" => slow[r] = 0
  /\ cache # None => cache <= version
  /\ StaleBounded

\* At first there is nothing in the cache.
LEMMA AgeStart == Init => AgeInv
BY BoundsOK DEF Init, AgeInv, Fields, StaleBounded, Versions, None, PCs

\* A reader is answered: it forgets what it carried.
LEMMA AnsweredIs ==
  ASSUME AgeInv, NEW r \in Readers, Answered(r)
  PROVE  /\ pc' \in [Readers -> PCs]
         /\ got' \in [Readers -> Versions \union {None}]
         /\ slow' \in [Readers -> 0..MaxSlow]
         /\ pc'[r] = "idle" /\ slow'[r] = 0
         /\ \A q \in Readers \ {r} : pc'[q] = pc[q] /\ got'[q] = got[q] /\ slow'[q] = slow[q]
BY BoundsOK DEF AgeInv, Fields, Answered, Goto, PCs, None

\* Whoever does not carry a map is as good as idle, and nothing else changes here.
LEMMA ReaderStep ==
  ASSUME AgeInv, NEW r \in Readers,
         pc' \in [Readers -> PCs],
         got' \in [Readers -> Versions \union {None}],
         slow' \in [Readers -> 0..MaxSlow],
         pc'[r] # "write" /\ slow'[r] = 0,
         \A q \in Readers \ {r} : pc'[q] = pc[q] /\ got'[q] = got[q] /\ slow'[q] = slow[q],
         UNCHANGED <<version, old>>,
         \/ UNCHANGED <<cache, cacheLeft>>
         \/ pc[r] = "write" /\ cache' = got[r] /\ cacheLeft' = TTL
  PROVE  AgeInv'
<1>1. /\ cache' \in Versions \union {None} /\ cacheLeft' \in 0..TTL
      /\ cache' = None => cacheLeft' = 0
  BY BoundsOK DEF AgeInv, Fields, Versions, None
<1>2. Fields'
  BY <1>1 DEF AgeInv, Fields
<1>3. \A q \in Readers : pc'[q] = "write" =>
        /\ got'[q] \in Versions /\ got'[q] <= version'
        /\ got'[q] < version' => old'[got'[q]] <= slow'[q]
  BY DEF AgeInv
<1>4. cache' # None => cache' <= version'
  BY DEF AgeInv
<1>5. StaleBounded'
  <2>1. CASE UNCHANGED <<cache, cacheLeft>>
    BY <2>1 DEF AgeInv, StaleBounded
  <2>2. CASE pc[r] = "write" /\ cache' = got[r] /\ cacheLeft' = TTL
    <3>1. /\ got[r] < version => old[got[r]] <= slow[r]
          /\ slow[r] \in 0..MaxSlow /\ got[r] \in Versions /\ old[got[r]] \in Nat
      BY <2>2, BoundsOK DEF AgeInv, Fields
    <3> QED  BY <2>2, <3>1, BoundsOK DEF StaleBounded
  <2> QED  BY <2>1, <2>2
<1> QED  BY <1>2, <1>3, <1>4, <1>5 DEF AgeInv

\* A reader that has just read has the newest version.
LEMMA ReadStep ==
  ASSUME AgeInv, NEW r \in Readers, pc[r] # "write",
         pc' = [pc EXCEPT ![r] = "write"],
         got' = [got EXCEPT ![r] = version],
         UNCHANGED <<version, old, cache, cacheLeft, slow>>
  PROVE  AgeInv'
<1>1. Fields'
  BY DEF AgeInv, Fields, PCs
<1>2. \A q \in Readers : pc'[q] = "write" =>
        /\ got'[q] \in Versions /\ got'[q] <= version'
        /\ got'[q] < version' => old'[got'[q]] <= slow'[q]
  BY BoundsOK DEF AgeInv, Fields, Versions
<1>3. \A q \in Readers : pc'[q] # "write" => slow'[q] = 0
  BY DEF AgeInv, Fields
<1> QED  BY <1>1, <1>2, <1>3 DEF AgeInv, StaleBounded

\* Time passes for what is cached and for what is on its way there.
LEMMA TickStep ==
  ASSUME AgeInv, Tick
  PROVE  AgeInv'
<1>1. /\ \A r \in Readers : pc[r] = "write" => slow[r] < MaxSlow
      /\ \A r \in Readers : slow'[r] = IF pc[r] = "write" THEN slow[r] + 1 ELSE 0
      /\ \A v \in Versions : old'[v] = IF v < version /\ old[v] <= TTL + MaxSlow
                                       THEN old[v] + 1 ELSE old[v]
      /\ cacheLeft' = IF cacheLeft > 0 THEN cacheLeft - 1 ELSE 0
      /\ cache' = IF cacheLeft > 1 THEN cache ELSE None
      /\ UNCHANGED <<version, pc, got>>
  BY DEF Tick
<1>2. Fields'
  <2>1. \A r \in Readers : slow'[r] \in 0..MaxSlow
    BY <1>1, BoundsOK DEF AgeInv, Fields
  <2>2. \A v \in Versions : old'[v] \in 0..TTL + MaxSlow + 1
    BY <1>1, BoundsOK DEF AgeInv, Fields
  <2>3. slow' \in [Readers -> 0..MaxSlow] /\ old' \in [Versions -> 0..TTL + MaxSlow + 1]
    BY <2>1, <2>2 DEF Tick
  <2>4. cacheLeft' \in 0..TTL /\ (cache' = None => cacheLeft' = 0)
    BY <1>1, BoundsOK DEF AgeInv, Fields
  <2> QED  BY <1>1, <2>3, <2>4 DEF AgeInv, Fields
<1>3. \A v \in Versions : v >= version' => old'[v] = 0
  BY <1>1, BoundsOK DEF AgeInv, Fields, Versions
<1>4. ASSUME NEW r \in Readers, pc'[r] = "write", got'[r] < version'
      PROVE  old'[got'[r]] <= slow'[r]
  <2>1. got[r] \in Versions /\ old[got[r]] <= slow[r] /\ got[r] < version
    BY <1>1, <1>4 DEF AgeInv
  <2>2. old[got[r]] \in Nat /\ slow[r] \in Nat
    BY <2>1, BoundsOK DEF AgeInv, Fields
  <2> QED  BY <1>1, <1>4, <2>1, <2>2, BoundsOK
<1>5. /\ \A r \in Readers : pc'[r] = "write" => got'[r] \in Versions /\ got'[r] <= version'
      /\ \A r \in Readers : pc'[r] # "write" => slow'[r] = 0
      /\ cache' # None => cache' <= version'
  BY <1>1 DEF AgeInv
<1>6. StaleBounded'
  <2> SUFFICES ASSUME cache' # None, cache' < version'
               PROVE  old'[cache'] + cacheLeft' <= TTL + MaxSlow
    BY DEF StaleBounded
  <2>1. cache' = cache /\ cacheLeft > 1 /\ cache \in Versions /\ cache < version
    BY <1>1 DEF AgeInv, Fields
  <2>2. old[cache] + cacheLeft <= TTL + MaxSlow /\ old[cache] \in Nat /\ cacheLeft \in Nat
    BY <2>1, BoundsOK DEF AgeInv, Fields, StaleBounded
  <2> QED  BY <1>1, <2>1, <2>2, BoundsOK
<1> QED  BY <1>2, <1>3, <1>4, <1>5, <1>6 DEF AgeInv

\* Every step keeps AgeInv.
LEMMA AgeStep ==
  ASSUME AgeInv, [Next]_vars
  PROVE  AgeInv'
<1>1. CASE Tick
  BY <1>1, TickStep
<1>2. CASE Change
  <2>1. /\ version' = version + 1 /\ version' \in Versions
        /\ UNCHANGED <<old, cache, cacheLeft, pc, got, slow>>
    BY <1>2, BoundsOK DEF Change, AgeInv, Fields, Versions
  <2>2. Fields' /\ \A v \in Versions : v >= version' => old[v] = 0
    BY <2>1, BoundsOK DEF AgeInv, Fields, Versions
  <2>3. old[version] = 0 /\ version \in Nat
    BY BoundsOK DEF AgeInv, Fields, Versions
  <2>4. \A r \in Readers : pc[r] = "write" =>
          /\ got[r] \in Versions /\ got[r] <= version'
          /\ got[r] < version' => old[got[r]] <= slow[r]
    <3> SUFFICES ASSUME NEW r \in Readers, pc[r] = "write"
                 PROVE  /\ got[r] \in Versions /\ got[r] <= version'
                        /\ got[r] < version' => old[got[r]] <= slow[r]
      OBVIOUS
    <3>1. got[r] \in Nat /\ got[r] <= version /\ slow[r] \in Nat
      BY BoundsOK DEF AgeInv, Fields, Versions
    <3> QED  BY <2>1, <2>3, <3>1 DEF AgeInv
  <2>5. (cache # None => cache <= version') /\ StaleBounded'
    <3>1. cache # None => cache \in Nat /\ cache <= version
      BY BoundsOK DEF AgeInv, Fields, Versions
    <3>2. cacheLeft \in 0..TTL
      BY DEF AgeInv, Fields
    <3> QED  BY <2>1, <2>3, <3>1, <3>2, BoundsOK DEF AgeInv, StaleBounded
  <2> QED  BY <2>1, <2>2, <2>4, <2>5 DEF AgeInv
<1>3. CASE UNCHANGED vars
  BY <1>3 DEF vars, AgeInv, Fields, StaleBounded
<1>4. CASE \E r \in Readers : Start(r) \/ Work(r) \/ Cancel(r)
  <2>1. PICK r \in Readers : Start(r) \/ Work(r) \/ Cancel(r)
    BY <1>4
  <2>2. CASE Answered(r) /\ UNCHANGED <<version, old, cache, cacheLeft>>
    BY <2>2, AnsweredIs, ReaderStep
  <2>3. CASE /\ \E l \in PCs \ {"write"} : pc' = [pc EXCEPT ![r] = l]
             /\ pc[r] # "write"
             /\ UNCHANGED <<version, old, cache, cacheLeft, got, slow>>
    <3>1. PICK l \in PCs \ {"write"} : pc' = [pc EXCEPT ![r] = l]
      BY <2>3
    <3>2. /\ pc' \in [Readers -> PCs]
          /\ got' \in [Readers -> Versions \union {None}]
          /\ slow' \in [Readers -> 0..MaxSlow]
          /\ pc'[r] # "write" /\ slow'[r] = 0
          /\ \A q \in Readers \ {r} : pc'[q] = pc[q] /\ got'[q] = got[q] /\ slow'[q] = slow[q]
      BY <2>3, <3>1 DEF AgeInv, Fields
    <3> QED  BY <2>3, <3>2, ReaderStep
  <2>4. CASE Start(r) \/ Enter(r)
    BY <2>3, <2>4 DEF Start, Enter, Goto, PCs
  <2>5. CASE Peek(r)
    BY <2>2, <2>3, <2>5 DEF Peek, Hit, Miss, Goto, PCs
  <2>6. CASE Recheck(r)
    BY <2>2, <2>3, <2>6 DEF Recheck, Hit, Miss, Goto, PCs
  <2>7. CASE Read(r)
    BY <2>2, <2>7, ReadStep DEF Read, Goto
  <2>8. CASE Write(r)
    <3>1. /\ Answered(r) /\ UNCHANGED <<version, old>> /\ pc[r] = "write"
          /\ \/ UNCHANGED <<cache, cacheLeft>>
             \/ cache' = got[r] /\ cacheLeft' = TTL
      BY <2>8 DEF Write, Fill
    <3> QED  BY <3>1, AnsweredIs, ReaderStep
  <2>9. CASE Cancel(r)
    BY <2>2, <2>9 DEF Cancel
  <2> QED  BY <2>1, <2>4, <2>5, <2>6, <2>7, <2>8, <2>9 DEF Work
<1> QED  BY <1>1, <1>2, <1>3, <1>4 DEF Next

\* What is served was replaced at most TTL and the time of one write ago, whichever
\* process wrote it, over whatever was there (policy.py:36).
THEOREM NothingOlder == Spec => []StaleBounded
<1>1. AgeInv => StaleBounded
  BY DEF AgeInv
<1> QED  BY <1>1, AgeStart, AgeStep, PTL DEF Spec

-----------------------------------------------------------------------------
(* The line at the lock of a process.                                      *)

Inside == {"recheck", "read", "write"}

\* Whoever missed stands in the line of the process once, until the answer; only
\* the first is past the lock.
LineOK(h) ==
  /\ queue[h] \in Seq({r \in Readers : Home[r] = h})
  /\ \A i, j \in 1..Len(queue[h]) : queue[h][i] = queue[h][j] => i = j
  /\ \A r \in Readers : Home[r] = h =>
       /\ (\E i \in 1..Len(queue[h]) : queue[h][i] = r) <=> pc[r] \notin {"idle", "peek"}
       /\ pc[r] \in Inside => Len(queue[h]) > 0 /\ queue[h][1] = r

LineInv ==
  /\ AgeInv
  /\ DOMAIN queue = Processes
  /\ \A h \in Processes : LineOK(h)
  /\ \A r \in Readers : got[r] # None <=> pc[r] = "write"
  /\ cache = None <=> cacheLeft = 0
  /\ faults \in 0..MaxFaults

\* What RemoveAt leaves: the places before stay, those behind move up.
LEMMA RemoveAtIs ==
  ASSUME NEW S, NEW q \in Seq(S), NEW i \in 1..Len(q)
  PROVE  /\ RemoveAt(q, i) \in Seq(S) /\ Len(RemoveAt(q, i)) = Len(q) - 1
         /\ \A j \in 1..Len(q) - 1 :
              RemoveAt(q, i)[j] = IF j < i THEN q[j] ELSE q[j + 1]
<1> DEFINE a == SubSeq(q, 1, i - 1)
           b == SubSeq(q, i + 1, Len(q))
<1>1. Len(q) \in Nat /\ \A j \in 1..Len(q) : q[j] \in S
  BY LenProperties, ElementOfSeq
<1>2. /\ a \in Seq(S) /\ Len(a) = i - 1
      /\ \A j \in 1..i - 1 : a[j] = q[j]
  <2>1. /\ a \in Seq(S) /\ Len(a) = IF 1 <= i - 1 THEN i - 1 - 1 + 1 ELSE 0
        /\ \A j \in 1..i - 1 - 1 + 1 : a[j] = q[1 + j - 1]
    BY <1>1, SubSeqProperties
  <2> QED  BY <1>1, <2>1
<1>3. /\ b \in Seq(S) /\ Len(b) = Len(q) - i
      /\ \A j \in 1..Len(q) - i : b[j] = q[j + i]
  <2>1. /\ b \in Seq(S) /\ Len(b) = IF i + 1 <= Len(q) THEN Len(q) - (i + 1) + 1 ELSE 0
        /\ \A j \in 1..Len(q) - (i + 1) + 1 : b[j] = q[i + 1 + j - 1]
    BY <1>1, SubSeqProperties
  <2> QED  BY <1>1, <2>1
<1>4. /\ a \o b \in Seq(S) /\ Len(a \o b) = Len(a) + Len(b)
      /\ \A j \in 1..Len(a) + Len(b) : (a \o b)[j] = IF j <= Len(a) THEN a[j] ELSE b[j - Len(a)]
  BY <1>2, <1>3, ConcatProperties
<1>5. RemoveAt(q, i) = a \o b
  BY DEF RemoveAt
<1> HIDE DEF a, b
<1>6. ASSUME NEW j \in 1..Len(q) - 1
      PROVE  (a \o b)[j] = IF j < i THEN q[j] ELSE q[j + 1]
  <2>1. j \in Nat /\ i \in Nat /\ j \in 1..Len(a) + Len(b)
    BY <1>1, <1>2, <1>3
  <2>2. (a \o b)[j] = IF j <= Len(a) THEN a[j] ELSE b[j - Len(a)]
    BY <1>4, <2>1
  <2>3. CASE j < i
    BY <1>2, <2>1, <2>2, <2>3
  <2>4. CASE ~(j < i)
    <3>1. j - Len(a) \in 1..Len(q) - i /\ j - Len(a) + i = j + 1 /\ ~(j <= Len(a))
      BY <1>1, <1>2, <2>1, <2>4
    <3>2. b[j - Len(a)] = q[j - Len(a) + i]
      BY <1>3, <3>1
    <3> QED  BY <2>2, <2>4, <3>1, <3>2
  <2> QED  BY <2>3, <2>4
<1> QED  BY <1>1, <1>2, <1>3, <1>4, <1>5, <1>6

\* A line nobody enters or leaves; whoever passes the lock is its first.
LEMMA SameLine ==
  ASSUME NEW h, LineOK(h), queue'[h] = queue[h],
         \A r \in Readers : Home[r] = h =>
           /\ pc'[r] \in {"idle", "peek"} <=> pc[r] \in {"idle", "peek"}
           /\ pc'[r] \in Inside =>
                pc[r] \in Inside \/ (Len(queue[h]) > 0 /\ queue[h][1] = r)
  PROVE  LineOK(h)'
<1> DEFINE q == queue[h]
           n == Len(q)
           standing(r) == \E i \in 1..n : q[i] = r
<1>1. /\ q \in Seq({r \in Readers : Home[r] = h})
      /\ \A i, j \in 1..n : q[i] = q[j] => i = j
      /\ \A r \in Readers : Home[r] = h =>
           /\ standing(r) <=> pc[r] \notin {"idle", "peek"}
           /\ pc[r] \in Inside => n > 0 /\ q[1] = r
  BY DEF LineOK
<1>2. queue'[h] = q /\ Len(queue'[h]) = n
  OBVIOUS
<1> HIDE DEF q, n, standing
<1>3. \A r \in Readers : Home[r] = h =>
        /\ standing(r) <=> pc'[r] \notin {"idle", "peek"}
        /\ pc'[r] \in Inside => n > 0 /\ q[1] = r
  BY <1>1 DEF q, n
<1> QED  BY <1>1, <1>2, <1>3 DEF LineOK, standing

\* At first nobody stands in a line.
LEMMA LineStart == Init => LineInv
BY AgeStart, BoundsOK, EmptySeq DEF Init, LineInv, LineOK, Inside, None

\* The places of a reader in its line.
LEMMA PlacesAre ==
  ASSUME LineInv, NEW r \in Readers
  PROVE  /\ Home[r] \in Processes /\ Len(queue[Home[r]]) \in Nat
         /\ Places(r) = {i \in 1..Len(queue[Home[r]]) : queue[Home[r]][i] = r}
         /\ Places(r) = {} <=> pc[r] \in {"idle", "peek"}
         /\ pc[r] \notin {"idle", "peek"} => \E i : Places(r) = {i}
<1>1. Home[r] \in Processes /\ LineOK(Home[r])
  BY HomeOK DEF LineInv
<1>2. /\ Len(queue[Home[r]]) \in Nat
      /\ DOMAIN queue[Home[r]] = 1..Len(queue[Home[r]])
  BY <1>1, LenProperties DEF LineOK
<1>3. Places(r) = {i \in 1..Len(queue[Home[r]]) : queue[Home[r]][i] = r}
  BY <1>2 DEF Places
<1>4. Places(r) = {} <=> pc[r] \in {"idle", "peek"}
  BY <1>1, <1>3 DEF LineOK
<1>5. ASSUME pc[r] \notin {"idle", "peek"} PROVE \E i : Places(r) = {i}
  <2>1. PICK i \in Places(r) : TRUE
    BY <1>4, <1>5
  <2>2. \A j \in Places(r) : j = i
    BY <1>1, <1>3, <2>1 DEF LineOK
  <2> QED  BY <2>1, <2>2
<1> QED  BY <1>1, <1>2, <1>3, <1>4, <1>5

\* Whoever is answered leaves the line, and the others keep their order.
LEMMA AnsweredLine ==
  ASSUME LineInv, NEW r \in Readers, Answered(r)
  PROVE  /\ DOMAIN queue' = Processes
         /\ \A h \in Processes : LineOK(h)'
         /\ \A q \in Readers : got'[q] # None <=> pc'[q] = "write"
<1>1. /\ pc'[r] = "idle" /\ got'[r] = None
      /\ \A q \in Readers \ {r} : pc'[q] = pc[q] /\ got'[q] = got[q]
  BY AnsweredIs DEF Answered, LineInv, AgeInv, Fields
<1>2. \A q \in Readers : got'[q] # None <=> pc'[q] = "write"
  BY <1>1 DEF LineInv
<1>3. CASE Places(r) = {} /\ UNCHANGED queue
  <2>1. pc[r] \in {"idle", "peek"}
    BY <1>3, PlacesAre
  <2>2. \A h \in Processes : LineOK(h)'
    BY <1>1, <1>3, <2>1, SameLine DEF LineInv, Inside
  <2> QED  BY <1>2, <1>3, <2>2 DEF LineInv
<1>4. CASE \E i \in Places(r) : queue' = [queue EXCEPT ![Home[r]] = RemoveAt(@, i)]
  <2>0. PICK h \in Processes : h = Home[r]
    BY PlacesAre
  <2>1. PICK i \in 1..Len(queue[h]) :
          /\ h = Home[r] /\ queue[h][i] = r
          /\ queue' = [queue EXCEPT ![h] = RemoveAt(@, i)]
    <3>1. PICK i \in Places(r) : queue' = [queue EXCEPT ![Home[r]] = RemoveAt(@, i)]
      BY <1>4
    <3>2. i \in 1..Len(queue[h]) /\ queue[h][i] = r
      BY <2>0, <3>1, PlacesAre
    <3> QED  BY <2>0, <3>1, <3>2
  <2>2. /\ queue'[h] = RemoveAt(queue[h], i) /\ DOMAIN queue' = Processes
        /\ \A g \in Processes \ {h} : queue'[g] = queue[g]
    BY <2>1 DEF LineInv
  <2>3. LineOK(h) /\ Len(queue[h]) \in Nat
    BY <2>1, LenProperties DEF LineInv, LineOK
  <2>4. /\ queue'[h] \in Seq({q \in Readers : Home[q] = h})
        /\ Len(queue'[h]) = Len(queue[h]) - 1
        /\ \A j \in 1..Len(queue[h]) - 1 :
             queue'[h][j] = IF j < i THEN queue[h][j] ELSE queue[h][j + 1]
    <3>1. queue[h] \in Seq({q \in Readers : Home[q] = h})
      BY <2>3 DEF LineOK
    <3> QED  BY <2>2, <3>1, RemoveAtIs
  <2>5. \A j, k \in 1..Len(queue'[h]) : queue'[h][j] = queue'[h][k] => j = k
    BY <2>1, <2>3, <2>4 DEF LineOK
  <2>6. ASSUME NEW q \in Readers, Home[q] = h
        PROVE  /\ (\E j \in 1..Len(queue'[h]) : queue'[h][j] = q) <=> pc'[q] \notin {"idle", "peek"}
               /\ pc'[q] \in Inside => Len(queue'[h]) > 0 /\ queue'[h][1] = q
    <3>1. CASE q = r
      <4>1. ASSUME NEW j \in 1..Len(queue'[h]) PROVE queue'[h][j] # r
        <5>1. \A k \in 1..Len(queue[h]) : queue[h][k] = r => k = i
          BY <2>1, <2>3 DEF LineOK
        <5>2. j \in 1..Len(queue[h]) /\ j + 1 \in 1..Len(queue[h]) /\ j \in Int /\ i \in Int
          BY <2>3, <2>4
        <5>3. queue'[h][j] = IF j < i THEN queue[h][j] ELSE queue[h][j + 1]
          BY <2>3, <2>4
        <5>4. CASE j < i
          BY <5>1, <5>2, <5>3, <5>4
        <5>5. CASE ~(j < i)
          <6>1. j + 1 # i
            BY <5>2, <5>5
          <6> QED  BY <5>1, <5>2, <5>3, <5>5, <6>1
        <5> QED  BY <5>4, <5>5
      <4> QED  BY <1>1, <3>1, <4>1 DEF Inside
    <3>2. CASE q # r
      <4>1. (\E j \in 1..Len(queue'[h]) : queue'[h][j] = q)
              <=> (\E j \in 1..Len(queue[h]) : queue[h][j] = q)
        <5>1. ASSUME NEW j \in 1..Len(queue[h]), queue[h][j] = q
              PROVE  \E k \in 1..Len(queue'[h]) : queue'[h][k] = q
          <6>1. j # i
            BY <2>1, <3>2, <5>1
          <6>2. CASE j < i
            <7>1. j \in 1..Len(queue'[h])
              BY <2>1, <2>3, <2>4, <6>2
            <7>2. queue'[h][j] = queue[h][j]
              BY <2>3, <2>4, <6>2, <7>1
            <7> QED  BY <5>1, <7>1, <7>2
          <6>3. CASE j > i
            <7>1. j - 1 \in 1..Len(queue'[h]) /\ queue'[h][j - 1] = q
              BY <2>1, <2>3, <2>4, <5>1, <6>3
            <7> QED  BY <7>1
          <6> QED  BY <2>1, <2>3, <6>1, <6>2, <6>3
        <5>2. ASSUME NEW j \in 1..Len(queue'[h]), queue'[h][j] = q
              PROVE  \E k \in 1..Len(queue[h]) : queue[h][k] = q
          <6>1. j \in 1..Len(queue[h]) /\ j + 1 \in 1..Len(queue[h])
            BY <2>3, <2>4
          <6> QED  BY <2>3, <2>4, <5>2, <6>1
        <5> QED  BY <5>1, <5>2
      <4>2. pc'[q] \in Inside => Len(queue'[h]) > 0 /\ queue'[h][1] = q
        <5> SUFFICES ASSUME pc[q] \in Inside
                     PROVE  Len(queue'[h]) > 0 /\ queue'[h][1] = q
          BY <1>1, <3>2
        <5>1. Len(queue[h]) > 0 /\ queue[h][1] = q
          BY <2>3, <2>6 DEF LineOK
        <5>2. i > 1
          BY <2>1, <3>2, <5>1
        <5> QED  BY <2>1, <2>3, <2>4, <5>1, <5>2
      <4> QED  BY <1>1, <2>3, <2>6, <3>2, <4>1, <4>2 DEF LineOK
    <3> QED  BY <3>1, <3>2
  <2>7. LineOK(h)'
    BY <2>4, <2>5, <2>6 DEF LineOK
  <2>8. ASSUME NEW g \in Processes \ {h} PROVE LineOK(g)'
    BY <1>1, <2>1, <2>2, <2>8, SameLine DEF LineInv
  <2> QED  BY <1>2, <2>2, <2>7, <2>8
<1> QED  BY <1>3, <1>4 DEF Answered, LeaveLine

\* A reader that is answered, and a cache that is filled or left alone.
LEMMA AnsweredKeepsLine ==
  ASSUME LineInv, NEW r \in Readers, Answered(r), AgeInv',
         cache' = None <=> cacheLeft' = 0, faults' \in 0..MaxFaults
  PROVE  LineInv'
BY AnsweredLine DEF LineInv

\* A step that moves nobody in the line.
LEMMA QuietLine ==
  ASSUME LineInv, AgeInv', UNCHANGED <<queue, got>>,
         \A r \in Readers :
           /\ pc'[r] \in {"idle", "peek"} <=> pc[r] \in {"idle", "peek"}
           /\ pc'[r] \in Inside =>
                pc[r] \in Inside \/ (Len(queue[Home[r]]) > 0 /\ queue[Home[r]][1] = r)
           /\ pc'[r] = "write" <=> pc[r] = "write",
         cache' = None <=> cacheLeft' = 0, faults' \in 0..MaxFaults
  PROVE  LineInv'
<1>1. \A h \in Processes : LineOK(h)'
  BY SameLine DEF LineInv
<1> QED  BY <1>1 DEF LineInv

\* Whoever misses goes to the end of the line.
LEMMA JoinLine ==
  ASSUME LineInv, NEW r \in Readers, pc[r] = "peek", AgeInv',
         Goto(r, "lock"),
         queue' = [queue EXCEPT ![Home[r]] = Append(@, r)],
         UNCHANGED <<got, cache, cacheLeft>>, faults' \in 0..MaxFaults
  PROVE  LineInv'
<1>1. PICK h \in Processes : h = Home[r]
  BY HomeOK
<1>2. /\ pc'[r] = "lock"
      /\ \A q \in Readers \ {r} : pc'[q] = pc[q]
  BY DEF Goto, LineInv, AgeInv, Fields
<1>3. /\ queue'[h] = Append(queue[h], r) /\ DOMAIN queue' = Processes
      /\ \A g \in Processes \ {h} : queue'[g] = queue[g]
  BY <1>1 DEF LineInv
<1>4. LineOK(h) /\ Len(queue[h]) \in Nat
  BY LenProperties DEF LineInv, LineOK
<1>5. /\ queue'[h] \in Seq({q \in Readers : Home[q] = h})
      /\ Len(queue'[h]) = Len(queue[h]) + 1
      /\ \A j \in 1..Len(queue[h]) : queue'[h][j] = queue[h][j]
      /\ queue'[h][Len(queue[h]) + 1] = r
  BY <1>1, <1>3, <1>4, AppendProperties DEF LineOK
<1>6. \A j \in 1..Len(queue[h]) : queue[h][j] # r
  BY <1>1, <1>4 DEF LineOK
<1>7. \A j, k \in 1..Len(queue'[h]) : queue'[h][j] = queue'[h][k] => j = k
  <2> SUFFICES ASSUME NEW j \in 1..Len(queue'[h]), NEW k \in 1..Len(queue'[h]),
                      queue'[h][j] = queue'[h][k]
               PROVE  j = k
    OBVIOUS
  <2>1. j \in 1..Len(queue[h]) \/ j = Len(queue[h]) + 1
    BY <1>4, <1>5
  <2>2. k \in 1..Len(queue[h]) \/ k = Len(queue[h]) + 1
    BY <1>4, <1>5
  <2> QED  BY <1>4, <1>5, <1>6, <2>1, <2>2 DEF LineOK
<1>8. ASSUME NEW q \in Readers, Home[q] = h
      PROVE  /\ (\E j \in 1..Len(queue'[h]) : queue'[h][j] = q) <=> pc'[q] \notin {"idle", "peek"}
             /\ pc'[q] \in Inside => Len(queue'[h]) > 0 /\ queue'[h][1] = q
  <2>1. CASE q = r
    BY <1>2, <1>4, <1>5, <2>1 DEF Inside
  <2>2. CASE q # r
    <3>1. (\E j \in 1..Len(queue'[h]) : queue'[h][j] = q)
            <=> (\E j \in 1..Len(queue[h]) : queue[h][j] = q)
      <4>1. 1..Len(queue'[h]) = 1..Len(queue[h]) \union {Len(queue[h]) + 1}
        BY <1>4, <1>5
      <4> QED  BY <1>5, <2>2, <4>1
    <3>2. Len(queue[h]) > 0 => queue'[h][1] = queue[h][1]
      BY <1>4, <1>5
    <3> QED  BY <1>2, <1>4, <1>5, <1>8, <2>2, <3>1, <3>2 DEF LineOK
  <2> QED  BY <2>1, <2>2
<1>9. LineOK(h)'
  BY <1>5, <1>7, <1>8 DEF LineOK
<1>10. ASSUME NEW g \in Processes \ {h} PROVE LineOK(g)'
  BY <1>1, <1>2, <1>3, <1>10, SameLine DEF LineInv
<1>11. \A q \in Readers : got'[q] # None <=> pc'[q] = "write"
  BY <1>2 DEF LineInv
<1> QED  BY <1>3, <1>9, <1>10, <1>11 DEF LineInv

\* Every step keeps LineInv.
LEMMA LineStep ==
  ASSUME LineInv, [Next]_vars
  PROVE  LineInv'
<1>1. AgeInv'
  BY AgeStep DEF LineInv
<1>2. faults' \in 0..MaxFaults
  <2>1. faults' = faults \/ (faults < MaxFaults /\ faults' = faults + 1)
    BY DEF Next, vars, Work, Start, Peek, Enter, Recheck, Read, Write, Cancel, Change, Tick,
           Hit, Miss, Fault, NoFault
  <2> QED  BY <2>1, BoundsOK DEF LineInv
<1>3. CASE Tick
  <2>1. cache' = None <=> cacheLeft' = 0
    BY <1>3, BoundsOK DEF Tick, LineInv, AgeInv, Fields
  <2> QED  BY <1>1, <1>2, <1>3, <2>1, QuietLine DEF Tick
<1>4. CASE Change \/ UNCHANGED vars
  BY <1>1, <1>2, <1>4, QuietLine DEF Change, vars, LineInv
<1>5. CASE \E r \in Readers : Start(r) \/ Work(r) \/ Cancel(r)
  <2>1. PICK r \in Readers : Start(r) \/ Work(r) \/ Cancel(r)
    BY <1>5
  <2>2. Home[r] \in Processes /\ LineOK(Home[r])
    BY HomeOK DEF LineInv
  <2>3. CASE Answered(r) /\ UNCHANGED <<cache, cacheLeft>>
    BY <1>1, <1>2, <2>3, AnsweredKeepsLine DEF LineInv
  <2>4. ASSUME NEW l \in {"peek", "recheck", "read"}, Goto(r, l),
               l = "peek" => pc[r] = "idle",
               l = "recheck" => pc[r] = "lock" /\ Head(queue[Home[r]]) = r,
               l = "read" => pc[r] = "recheck",
               UNCHANGED <<queue, got, cache, cacheLeft>>
        PROVE  LineInv'
    <3>1. pc'[r] = l /\ \A q \in Readers \ {r} : pc'[q] = pc[q]
      BY <2>4 DEF Goto, LineInv, AgeInv, Fields
    <3>2. l = "recheck" => Len(queue[Home[r]]) > 0 /\ queue[Home[r]][1] = r
      <4> SUFFICES ASSUME l = "recheck" PROVE Len(queue[Home[r]]) > 0 /\ queue[Home[r]][1] = r
        OBVIOUS
      <4>1. Len(queue[Home[r]]) > 0
        BY <2>2, <2>4, LenProperties DEF LineOK
      <4>2. queue[Home[r]][1] = Head(queue[Home[r]])
        BY <2>2, <4>1 DEF LineOK
      <4> QED  BY <2>4, <4>1, <4>2
    <3> QED  BY <1>1, <1>2, <2>4, <3>1, <3>2, QuietLine DEF LineInv, Inside
  <2>5. CASE Start(r) \/ Enter(r)
    BY <2>4, <2>5 DEF Start, Enter
  <2>6. CASE Peek(r)
    <3>1. CASE Hit /\ Answered(r)
      BY <2>3, <2>6, <3>1 DEF Peek, Hit
    <3>2. CASE ~(Hit /\ Answered(r))
      BY <1>1, <1>2, <2>6, <3>2, JoinLine DEF Peek, Miss
    <3> QED  BY <3>1, <3>2
  <2>7. CASE Recheck(r)
    BY <2>3, <2>4, <2>7 DEF Recheck, Hit, Miss
  <2>8. CASE Read(r)
    <3>1. CASE Answered(r)
      BY <2>3, <2>8, <3>1 DEF Read
    <3>2. CASE Goto(r, "write") /\ got' = [got EXCEPT ![r] = version] /\ UNCHANGED queue
      <4>1. /\ pc[r] = "read" /\ pc'[r] = "write" /\ got'[r] = version
            /\ \A q \in Readers \ {r} : pc'[q] = pc[q] /\ got'[q] = got[q]
        BY <2>8, <3>2 DEF Read, Goto, LineInv, AgeInv, Fields
      <4>2. version # None /\ UNCHANGED <<cache, cacheLeft>>
        BY <2>8, BoundsOK DEF Read, LineInv, AgeInv, Fields, Versions, None
      <4>3. \A h \in Processes : LineOK(h)'
        BY <3>2, <4>1, SameLine DEF LineInv, Inside
      <4> QED  BY <1>1, <1>2, <3>2, <4>1, <4>2, <4>3 DEF LineInv
    <3> QED  BY <2>8, <3>1, <3>2 DEF Read
  <2>9. CASE Write(r)
    <3>1. cache' = None <=> cacheLeft' = 0
      BY <2>9, BoundsOK DEF Write, Fill, LineInv
    <3> QED  BY <1>1, <1>2, <2>9, <3>1, AnsweredKeepsLine DEF Write
  <2>10. CASE Cancel(r)
    BY <2>3, <2>10 DEF Cancel
  <2> QED  BY <2>1, <2>5, <2>6, <2>7, <2>8, <2>9, <2>10 DEF Work
<1> QED  BY <1>3, <1>4, <1>5 DEF Next

\* The value and its expiry come and go together, and a reader stands in the line of
\* its process exactly from its first miss to its answer (seatmap_service.py:156).
THEOREM LineKept == Spec => []TypeOK
<1>1. LineInv => TypeOK
  <2> SUFFICES ASSUME LineInv PROVE TypeOK
    OBVIOUS
  <2>1. ASSUME NEW r \in Readers
        PROVE  /\ pc[r] \in Inside => queue[Home[r]] # <<>> /\ Head(queue[Home[r]]) = r
               /\ Cardinality(Places(r)) = IF pc[r] \in {"idle", "peek"} THEN 0 ELSE 1
    <3>1. Home[r] \in Processes /\ LineOK(Home[r])
      BY HomeOK DEF LineInv
    <3>2. pc[r] \in Inside => queue[Home[r]] # <<>> /\ Head(queue[Home[r]]) = r
      <4> SUFFICES ASSUME pc[r] \in Inside
                   PROVE  queue[Home[r]] # <<>> /\ Head(queue[Home[r]]) = r
        OBVIOUS
      <4>1. Len(queue[Home[r]]) > 0 /\ queue[Home[r]][1] = r
        BY <3>1 DEF LineOK
      <4> QED  BY <3>1, <4>1, EmptySeq DEF LineOK
    <3>3. Cardinality(Places(r)) = IF pc[r] \in {"idle", "peek"} THEN 0 ELSE 1
      BY PlacesAre, FS_EmptySet, FS_Singleton
    <3> QED  BY <3>2, <3>3
  <2> QED  BY <2>1 DEF TypeOK, LineInv, AgeInv, Fields, Places, Inside
<1>2. Init => LineInv
  BY LineStart
<1>3. LineInv /\ [Next]_vars => LineInv'
  BY LineStep
<1> QED  BY <1>1, <1>2, <1>3, PTL DEF Spec

-----------------------------------------------------------------------------
(* How often a process reads the database.                                 *)

\* Once somebody has read, the map is cached or on its way there, and whoever is on
\* the way to the database finds that nobody has.
ReadsInv ==
  /\ LineInv
  /\ reads \in [Processes -> Nat] /\ OneReadPerProcess
  /\ \A r \in Readers : pc[r] = "read" => reads[Home[r]] = 0
  /\ \A h \in Processes : reads[h] # 0 =>
       cache # None \/ \E r \in Readers : Home[r] = h /\ pc[r] = "write"

\* The counter starts again when time passes or a call fails.
LEMMA CountAgain ==
  ASSUME LineInv', reads' = [h \in Processes |-> 0]
  PROVE  ReadsInv'
<1>1. \A r \in Readers : Home[r] \in Processes
  BY HomeOK
<1> QED  BY <1>1 DEF ReadsInv, OneReadPerProcess

\* A step on the way of a reader that writes nothing and does not look behind the lock.
LEMMA QuietReads ==
  ASSUME ReadsInv, LineInv', UNCHANGED reads, cache # None => cache' # None,
         \A r \in Readers :
           /\ pc'[r] = "read" => pc[r] = "read"
           /\ pc[r] = "write" => pc'[r] = "write" \/ cache' # None
  PROVE  ReadsInv'
BY DEF ReadsInv, OneReadPerProcess

\* At first nobody has read.
LEMMA ReadsStart == Init => ReadsInv
<1>1. \A r \in Readers : Home[r] \in Processes
  BY HomeOK
<1> QED  BY <1>1, LineStart DEF Init, ReadsInv, OneReadPerProcess

\* Every step keeps ReadsInv.
LEMMA ReadsStep ==
  ASSUME ReadsInv, [Next]_vars
  PROVE  ReadsInv'
<1>1. LineInv' /\ LineInv
  BY LineStep DEF ReadsInv
<1>2. CASE Tick
  BY <1>1, <1>2, CountAgain DEF Tick
<1>3. CASE Change \/ UNCHANGED vars
  BY <1>1, <1>3, QuietReads DEF Change, vars
<1>4. CASE \E r \in Readers : Start(r) \/ Work(r) \/ Cancel(r)
  <2>1. PICK r \in Readers : Start(r) \/ Work(r) \/ Cancel(r)
    BY <1>4
  <2>2. CASE Fault
    BY <1>1, <2>2, CountAgain DEF Fault
  <2>3. ASSUME Answered(r), UNCHANGED <<cache, reads>>, pc[r] # "write"
        PROVE  ReadsInv'
    <3>1. pc'[r] = "idle" /\ \A q \in Readers \ {r} : pc'[q] = pc[q]
      BY <1>1, <2>3, AnsweredIs DEF LineInv
    <3> QED  BY <1>1, <2>3, <3>1, QuietReads
  <2>4. ASSUME NEW l \in PCs \ {"read"}, Goto(r, l), UNCHANGED <<cache, reads>>,
               pc[r] # "write"
        PROVE  ReadsInv'
    <3>1. pc'[r] = l /\ \A q \in Readers \ {r} : pc'[q] = pc[q]
      BY <1>1, <2>4 DEF Goto, LineInv, AgeInv, Fields
    <3> QED  BY <1>1, <2>4, <3>1, QuietReads
  <2>5. CASE Start(r) \/ Enter(r)
    BY <2>4, <2>5 DEF Start, Enter, PCs
  <2>6. CASE Peek(r)
    BY <2>2, <2>3, <2>4, <2>6 DEF Peek, Hit, Miss, NoFault, PCs
  <2>7. CASE Recheck(r)
    <3>1. CASE cache = None /\ Goto(r, "read") /\ UNCHANGED <<cache, reads>>
      <4>1. pc[r] = "recheck" /\ pc'[r] = "read" /\ \A q \in Readers \ {r} : pc'[q] = pc[q]
        BY <1>1, <2>7, <3>1 DEF Recheck, Goto, LineInv, AgeInv, Fields
      <4>2. Home[r] \in Processes /\ LineOK(Home[r])
        BY <1>1, HomeOK DEF LineInv
      <4>3. ~\E q \in Readers : Home[q] = Home[r] /\ pc[q] = "write"
        BY <4>1, <4>2 DEF LineOK, Inside
      <4>4. reads[Home[r]] = 0
        BY <3>1, <4>2, <4>3 DEF ReadsInv
      <4> QED  BY <1>1, <3>1, <4>1, <4>4 DEF ReadsInv, OneReadPerProcess
    <3> QED  BY <2>2, <2>3, <2>7, <3>1 DEF Recheck, Hit, Miss, NoFault
  <2>8. CASE Read(r)
    <3>1. CASE Goto(r, "write") /\ reads' = [reads EXCEPT ![Home[r]] = @ + 1]
      <4>1. /\ pc[r] = "read" /\ pc'[r] = "write" /\ UNCHANGED cache
            /\ \A q \in Readers \ {r} : pc'[q] = pc[q]
        BY <1>1, <2>8, <3>1 DEF Read, Goto, LineInv, AgeInv, Fields
      <4>2. PICK h \in Processes : h = Home[r]
        BY HomeOK
      <4>3. reads' \in [Processes -> Nat] /\ reads'[h] = 1
            /\ \A g \in Processes \ {h} : reads'[g] = reads[g]
        BY <3>1, <4>1, <4>2 DEF ReadsInv
      <4>4. LineOK(h)
        BY <1>1 DEF LineInv
      <4>5. ASSUME NEW q \in Readers, pc'[q] = "read" PROVE reads'[Home[q]] = 0
        <5>1. q # r /\ pc[q] = "read" /\ Home[q] \in Processes
          BY <4>1, <4>5, HomeOK
        <5>2. Home[q] # h
          BY <4>1, <4>2, <4>4, <5>1 DEF LineOK, Inside
        <5> QED  BY <4>3, <5>1, <5>2 DEF ReadsInv
      <4>6. ASSUME NEW g \in Processes, reads'[g] # 0
            PROVE  cache' # None \/ \E q \in Readers : Home[q] = g /\ pc'[q] = "write"
        <5>1. CASE g = h
          BY <4>1, <4>2, <5>1
        <5>2. CASE g # h
          <6>1. cache # None \/ \E q \in Readers : Home[q] = g /\ pc[q] = "write"
            BY <4>3, <4>6, <5>2 DEF ReadsInv
          <6> QED  BY <4>1, <6>1
        <5> QED  BY <5>1, <5>2
      <4>7. OneReadPerProcess'
        BY <4>3 DEF ReadsInv, OneReadPerProcess
      <4> QED  BY <1>1, <4>3, <4>5, <4>6, <4>7 DEF ReadsInv
    <3> QED  BY <2>2, <2>8, <3>1 DEF Read
  <2>9. CASE Write(r)
    <3>1. CASE Fill(r) /\ NoFault
      <4>1. cache' # None
        BY <1>1, <2>9, <3>1 DEF Write, Fill, LineInv
      <4>2. /\ pc'[r] = "idle" /\ \A q \in Readers \ {r} : pc'[q] = pc[q]
        BY <1>1, <2>9, AnsweredIs DEF Write, LineInv
      <4> QED  BY <1>1, <3>1, <4>1, <4>2, QuietReads DEF NoFault
    <3> QED  BY <2>2, <2>9, <3>1 DEF Write
  <2>10. CASE Cancel(r)
    BY <2>2, <2>10 DEF Cancel
  <2> QED  BY <2>1, <2>5, <2>6, <2>7, <2>8, <2>9, <2>10 DEF Work
<1> QED  BY <1>2, <1>3, <1>4 DEF Next

\* No stampede, however many readers a process has and whatever the other processes
\* write meanwhile (the second look under the lock, seatmap_service.py:157).
THEOREM NoStampede == Spec => []OneReadPerProcess
<1>1. ReadsInv => OneReadPerProcess
  BY DEF ReadsInv
<1>2. Init => ReadsInv
  BY ReadsStart
<1>3. ReadsInv /\ [Next]_vars => ReadsInv'
  BY ReadsStep
<1> QED  BY <1>1, <1>2, <1>3, PTL DEF Spec
=============================================================================
