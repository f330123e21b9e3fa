-------------------------- MODULE RunSummaryProofs --------------------------
(***************************************************************************)
(* The counts of the summary are exact for every number of queries, their  *)
(* sizes, threads, lookups and failing jobs.                               *)
(***************************************************************************)
EXTENDS RunSummary, FiniteSetTheorems, TLAPS

-----------------------------------------------------------------------------
LEMMA OneNumber ==
    ASSUME NEW S, S = {} \/ \E n : S = {n}
    PROVE  Cardinality(S) <= 1
<1>1. CASE S = {}
    BY <1>1, FS_EmptySet
<1>2. CASE \E n : S = {n}
    <2>1. Cardinality(S) = 1
        BY <1>2, FS_Singleton
    <2>. QED BY <2>1
<1>. QED BY <1>1, <1>2

(* What a thread works on.                                                 *)
LEMMA ThreadWork ==
    ASSUME SummaryInv, NEW t \in Thread
    PROVE  /\ work[t].query \in Query
           /\ work[t].old \in Nat /\ work[t].fresh \in Nat
           /\ work[t].after \in BOOLEAN /\ work[t].direct \in BOOLEAN
           /\ work[t].old + work[t].fresh <= Size[work[t].query]
BY DEF SummaryInv, TypeOK, HistoryOK, Work

LEMMA QueryCounts ==
    ASSUME SummaryInv, NEW q \in Query
    PROVE  /\ Size[q] \in Nat \ {0}
           /\ old[q] \in Nat /\ fresh[q] \in Nat /\ old[q] + fresh[q] <= Size[q]
           /\ archived[q] \in Nat /\ before[q] \in Nat
           /\ archived[q] <= Size[q] /\ before[q] <= Size[q]
           /\ start.old[q] \in Nat /\ start.fresh[q] \in Nat
           /\ seen[q] = {} \/ \E n \in 0..Size[q] : seen[q] = {n}
BY SummaryAssumption DEF SummaryInv, TypeOK, HistoryOK

-----------------------------------------------------------------------------
(* The actions one by one.                                                 *)

(* A lookup begins.                                                        *)
LEMMA InspectInv ==
    ASSUME SummaryInv, NEW t \in Thread, NEW q \in Query, Inspect(t, q)
    PROVE  SummaryInv'
<1>. USE DEF SummaryInv
<1>1. /\ pc[t] = "idle" /\ pc' = [pc EXCEPT ![t] = "record"]
      /\ work' = [work EXCEPT ![t] = [query |-> q, old |-> old[q], fresh |-> fresh[q],
                                      after |-> producer[q] # "none", direct |-> FALSE]]
      /\ UNCHANGED <<old, fresh, archived, before, seen, incomplete, direct, plugin>>
      /\ UNCHANGED <<looked, producer, told, outdated, start, failed, foreign>>
    BY DEF Inspect, GoTo, fdbVars, runVars, histVars
<1>2. /\ \A u \in Thread \ {t} : pc'[u] = pc[u] /\ work'[u] = work[u]
      /\ pc'[t] = "record" /\ work'[t].query = q
      /\ work'[t].old = old[q] /\ work'[t].fresh = fresh[q]
      /\ work'[t].after = (producer[q] # "none")
    BY <1>1 DEF TypeOK
<1>3. TypeOK'
    BY <1>1 DEF TypeOK, Work
<1>4. HistoryOK'
    BY <1>1, <1>2, QueryCounts DEF HistoryOK
<1>5. FirstLookup'
    <2>1. ASSUME NEW r \in Query, r \notin looked, NEW u \in Thread, Busy(u, r)'
          PROVE  /\ pc'[u] # "stored" /\ ~ work'[u].after
                 /\ r \notin foreign =>
                        work'[u].old = start.old[r] /\ work'[u].fresh = start.fresh[r]
        <3>1. CASE u = t
            <4>1. r = q
                BY <1>2, <2>1, <3>1 DEF Busy
            <4>2. /\ producer[q] = "none"
                  /\ q \notin foreign => old[q] = start.old[q] /\ fresh[q] = start.fresh[q]
                BY <2>1, <4>1 DEF FirstLookup
            <4>. QED BY <1>2, <3>1, <4>1, <4>2
        <3>2. CASE u # t
            BY <1>1, <1>2, <2>1, <3>2 DEF FirstLookup, Busy
        <3>. QED BY <3>1, <3>2
    <2>. QED BY <1>1, <2>1 DEF FirstLookup
<1>6. OldOnlyMasked'
    BY <1>1, <1>2 DEF OldOnlyMasked, Busy
<1>7. OthersSeenOnce'
    BY <1>1, <1>2 DEF OthersSeenOnce, Busy
<1>8. ProducedWhole'
    <2>1. ASSUME NEW r \in Query, NEW u \in Thread, Busy(u, r)'
          PROVE  /\ work'[u].after =>
                        producer[r] # "none" /\ work'[u].old = 0 /\ work'[u].fresh = Size[r]
                 /\ pc'[u] = "stored" => work'[u].after
        <3>1. CASE u = t
            BY <1>2, <2>1, <3>1 DEF ProducedWhole, Busy
        <3>2. CASE u # t
            BY <1>1, <1>2, <2>1, <3>2 DEF ProducedWhole, Busy
        <3>. QED BY <3>1, <3>2
    <2>. QED BY <1>1, <2>1 DEF ProducedWhole
<1>9. SeenIsCounted'
    BY <1>1, <1>2 DEF SeenIsCounted, Busy
<1>10. StoresRecorded'
    BY <1>1, <1>2 DEF StoresRecorded
<1>. QED BY <1>3, <1>4, <1>5, <1>6, <1>7, <1>8, <1>9, <1>10

(* The locked part of record_lookup.                                       *)
LEMMA RecordLookupInv ==
    ASSUME SummaryInv, NEW t \in Thread, RecordLookup(t)
    PROVE  SummaryInv'
<1>. DEFINE q == work[t].query
            w == work[t]
<1>. USE DEF SummaryInv
<1>1. /\ pc[t] = "record"
      /\ before' = [before EXCEPT ![q] = Greater(@, w.old)]
      /\ seen' = [seen EXCEPT ![q] = {Greater(n, w.fresh) : n \in IF @ = {} THEN {0} ELSE @}]
      /\ pc' = [pc EXCEPT ![t] = IF \E n \in seen[q] : w.fresh > n THEN "transition" ELSE "result"]
      /\ UNCHANGED <<old, fresh, work, archived, incomplete, direct, plugin>>
      /\ UNCHANGED <<looked, producer, told, outdated, start, failed, foreign>>
    BY DEF RecordLookup, GoTo, fdbVars, histVars
<1>2. /\ q \in Query /\ Busy(t, q)
      /\ w.old \in Nat /\ w.fresh \in Nat /\ w.old + w.fresh <= Size[q]
      /\ Size[q] \in Nat /\ before[q] \in Nat /\ before[q] <= Size[q]
    BY <1>1, ThreadWork, QueryCounts DEF Busy
<1>3. /\ \A u \in Thread \ {t} : pc'[u] = pc[u]
      /\ pc'[t] = IF \E n \in seen[q] : w.fresh > n THEN "transition" ELSE "result"
      /\ pc' \in [Thread -> {"idle", "record", "transition", "result", "stored"}]
    BY <1>1 DEF TypeOK
<1>4. /\ \A r \in Query \ {q} : before'[r] = before[r] /\ seen'[r] = seen[r]
      /\ before'[q] = IF before[q] >= w.old THEN before[q] ELSE w.old
    BY <1>1, <1>2 DEF TypeOK, Greater
<1>5. PICK m \in 0..Size[q] :
        /\ seen'[q] = {m}
        /\ seen[q] = {} => m = w.fresh
        /\ \A n \in seen[q] : m = IF n >= w.fresh THEN n ELSE w.fresh
    <2>1. seen'[q] = {Greater(n, w.fresh) : n \in IF seen[q] = {} THEN {0} ELSE seen[q]}
        BY <1>1, <1>2 DEF TypeOK
    <2>2. CASE seen[q] = {}
        <3>1. seen'[q] = {Greater(0, w.fresh)}
            BY <2>1, <2>2
        <3>2. Greater(0, w.fresh) = w.fresh /\ w.fresh \in 0..Size[q]
            BY <1>2 DEF Greater
        <3>. QED BY <2>2, <3>1, <3>2
    <2>3. ASSUME NEW n \in 0..Size[q], seen[q] = {n}
          PROVE  \E k \in 0..Size[q] : /\ seen'[q] = {k}
                                       /\ k = IF n >= w.fresh THEN n ELSE w.fresh
        <3>1. seen'[q] = {Greater(n, w.fresh)}
            BY <2>1, <2>3
        <3>2. Greater(n, w.fresh) \in 0..Size[q]
            BY <1>2 DEF Greater
        <3>. QED BY <3>1, <3>2 DEF Greater
    <2>4. seen[q] = {} \/ \E n \in 0..Size[q] : seen[q] = {n}
        BY <1>2, QueryCounts
    <2>. QED BY <2>2, <2>3, <2>4
<1>6. HistoryOK'
    <2>1. UNCHANGED <<looked, told, producer, start, work>>
        BY <1>1
    <2>2. \A r \in Query : seen'[r] = {} \/ \E n \in 0..Size[r] : seen'[r] = {n}
        BY <1>4, <1>5, QueryCounts
    <2>. QED BY <2>1, <2>2 DEF HistoryOK
<1>7. TypeOK'
    <2>1. before' \in [Query -> Nat] /\ \A r \in Query : before'[r] <= Size[r]
        <3>1. before'[q] \in Nat /\ before'[q] <= Size[q]
            BY <1>2, <1>4
        <3>. QED BY <1>1, <1>4, <3>1 DEF TypeOK
    <2>2. seen' \in [Query -> SUBSET Nat]
        <3>1. seen'[q] \subseteq Nat
            BY <1>2, <1>5
        <3>2. DOMAIN seen' = Query /\ seen' = [r \in Query |-> seen'[r]]
            BY <1>1 DEF TypeOK
        <3>. QED BY <1>4, <3>1, <3>2 DEF TypeOK
    <2>3. \A r \in Query : Cardinality(seen'[r]) <= 1
        BY <1>6, OneNumber DEF HistoryOK
    <2>. QED BY <1>1, <1>3, <2>1, <2>2, <2>3 DEF TypeOK
<1>8. FirstLookup'
    <2>1. ASSUME NEW r \in Query
          PROVE  /\ r \in looked => seen'[r] # {}
                 /\ r \in looked /\ r \notin foreign => before'[r] = start.old[r]
                 /\ r \notin looked /\ r \notin foreign =>
                     /\ seen'[r] \subseteq {start.fresh[r]}
                     /\ seen'[r] # {} => before'[r] = start.old[r]
        <3>1. CASE r = q
            <4>1. CASE q \in looked
                BY <1>2, <1>4, <1>5, <3>1, <4>1 DEF FirstLookup, OldOnlyMasked
            <4>3. CASE q \notin looked /\ q \in foreign
                BY <3>1, <4>3
            <4>2. CASE q \notin looked /\ q \notin foreign
                <5>1. w.old = start.old[q] /\ w.fresh = start.fresh[q] /\ seen[q] \subseteq {start.fresh[q]}
                    BY <1>2, <4>2 DEF FirstLookup
                <5>2. before[q] <= start.old[q] /\ start.old[q] \in Nat
                    BY <1>2, QueryCounts DEF OldOnlyMasked
                <5>3. seen'[q] = {start.fresh[q]}
                    BY <1>2, <1>5, <5>1
                <5>4. before'[q] = start.old[q]
                    BY <1>2, <1>4, <5>1, <5>2
                <5>. QED BY <3>1, <4>2, <5>3, <5>4
            <4>. QED BY <4>1, <4>2, <4>3
        <3>2. CASE r # q
            BY <1>4, <3>2 DEF FirstLookup
        <3>. QED BY <3>1, <3>2
    <2>2. ASSUME NEW r \in Query, r \notin looked, NEW u \in Thread, Busy(u, r)'
          PROVE  /\ pc'[u] # "stored" /\ ~ work[u].after
                 /\ r \notin foreign =>
                        work[u].old = start.old[r] /\ work[u].fresh = start.fresh[r]
        BY <1>1, <1>2, <1>3, <2>2 DEF FirstLookup, Busy
    <2>3. ASSUME NEW r \in Query, r \notin looked
          PROVE  /\ producer[r] = "none"
                 /\ r \notin foreign => old[r] = start.old[r] /\ fresh[r] = start.fresh[r]
        BY <2>3 DEF FirstLookup
    <2>4. UNCHANGED <<old, fresh, work, looked, producer, start, foreign>>
        BY <1>1
    <2>. QED BY <2>1, <2>2, <2>3, <2>4 DEF FirstLookup, Busy
<1>9. OldOnlyMasked'
    <2>1. \A r \in Query : before'[r] <= start.old[r]
        BY <1>2, <1>4 DEF OldOnlyMasked
    <2>5. UNCHANGED <<start, looked, foreign>>
        BY <1>1
    <2>2. ASSUME NEW u \in Thread, Busy(u, q)', pc'[u] \in {"transition", "result"}
          PROVE  seen'[q] # {} /\ (q \notin foreign => before'[q] = start.old[q])
        <3>1. seen'[q] # {}
            BY <1>5
        <3>2. CASE q \in looked
            BY <1>2, <1>8, <2>5, <3>2 DEF FirstLookup
        <3>3. CASE q \notin looked
            BY <1>2, <1>8, <2>5, <3>1, <3>3 DEF FirstLookup
        <3>. QED BY <3>1, <3>2, <3>3
    <2>3. ASSUME NEW r \in Query, r # q, NEW u \in Thread, Busy(u, r)', pc'[u] \in {"transition", "result"}
          PROVE  seen'[r] # {} /\ (r \notin foreign => before'[r] = start.old[r])
        BY <1>1, <1>2, <1>3, <1>4, <2>3 DEF OldOnlyMasked, Busy
    <2>4. ASSUME NEW r \in Query, NEW u \in Thread, Busy(u, r)'
          PROVE  work[u].old <= start.old[r]
        BY <1>1, <1>2, <1>3, <2>4 DEF OldOnlyMasked, Busy
    <2>. QED BY <1>1, <2>1, <2>2, <2>3, <2>4 DEF OldOnlyMasked
<1>10. OthersSeenOnce'
    <2>1. ASSUME NEW r \in Query, producer[r] = "none", r \notin failed, r \notin foreign
          PROVE  /\ seen'[r] \subseteq {start.fresh[r]}
                 /\ \A u \in Thread : Busy(u, r)' => pc'[u] \in {"record", "result"}
        <3>1. CASE r = q
            <4>1. w.fresh = start.fresh[q] /\ seen[q] \subseteq {start.fresh[q]}
                BY <1>2, <2>1, <3>1 DEF OthersSeenOnce
            <4>2. seen'[q] = {start.fresh[q]}
                BY <1>2, <1>5, <4>1
            <4>3. pc'[t] = "result"
                BY <1>2, <1>3, <4>1
            <4>. QED BY <1>1, <1>3, <2>1, <3>1, <4>2, <4>3 DEF OthersSeenOnce, Busy
        <3>2. CASE r # q
            BY <1>1, <1>3, <1>4, <2>1, <3>2 DEF OthersSeenOnce, Busy
        <3>. QED BY <3>1, <3>2
    <2>2. ASSUME NEW r \in Query, producer[r] = "none", r \notin failed, r \notin foreign, NEW u \in Thread, Busy(u, r)'
          PROVE  work[u].fresh = start.fresh[r]
        BY <1>1, <1>2, <1>3, <2>2 DEF OthersSeenOnce, Busy
    <2>. QED BY <1>1, <2>1, <2>2 DEF OthersSeenOnce
<1>11. ProducedWhole'
    BY <1>1, <1>2, <1>3 DEF ProducedWhole, Busy
<1>12. SeenIsCounted'
    <2>1. ASSUME NEW r \in Query, r \notin foreign, NEW n \in seen'[r], n > start.fresh[r]
          PROVE  \/ archived[r] >= n
                 \/ \E u \in Thread : pc'[u] = "transition" /\ work[u].query = r /\ work[u].fresh = n
        <3>1. CASE n \in seen[r]
            BY <1>1, <1>3, <2>1, <3>1 DEF SeenIsCounted
        <3>2. CASE n \notin seen[r]
            <4>1. r = q /\ n = m
                BY <1>4, <1>5, <2>1, <3>2
            <4>2. CASE seen[q] = {}
                <5>1. q \notin looked
                    BY <1>2, <4>2 DEF FirstLookup
                <5>2. n = start.fresh[q] /\ start.fresh[q] \in Nat
                    BY <1>2, <1>5, <2>1, <4>1, <4>2, <5>1, QueryCounts DEF FirstLookup
                <5>. QED BY <2>1, <4>1, <5>2
            <4>3. CASE seen[q] # {}
                <5>1. PICK k \in 0..Size[q] : seen[q] = {k}
                    BY <1>2, <4>3, QueryCounts
                <5>2. m = w.fresh /\ w.fresh > k
                    BY <1>2, <1>5, <3>2, <4>1, <5>1
                <5>3. pc'[t] = "transition"
                    BY <1>3, <5>1, <5>2
                <5>. QED BY <4>1, <5>2, <5>3
            <4>. QED BY <4>2, <4>3
        <3>. QED BY <3>1, <3>2
    <2>2. ASSUME NEW r \in Query, Size[r] \in seen[r] PROVE Size[r] \in seen'[r]
        <3>1. CASE r = q
            BY <1>2, <1>5, <2>2, <3>1
        <3>2. CASE r # q
            BY <1>4, <2>2, <3>2
        <3>. QED BY <3>1, <3>2
    <2>3. ASSUME NEW r \in Query, NEW u \in Thread, Busy(u, r)', work[u].after,
                 pc'[u] \in {"transition", "result"}
          PROVE  Size[r] \in seen'[r]
        <3>1. CASE u = t
            <4>1. r = q /\ w.fresh = Size[q]
                BY <1>1, <1>2, <2>3, <3>1 DEF ProducedWhole, Busy
            <4>2. m = Size[q]
                <5>1. \A n \in seen[q] : n \in 0..Size[q]
                    BY <1>2, QueryCounts
                <5>2. seen[q] = {} \/ \E n \in seen[q] : TRUE
                    OBVIOUS
                <5>. QED BY <1>2, <1>5, <4>1, <5>1, <5>2
            <4>. QED BY <1>5, <4>1, <4>2
        <3>2. CASE u # t
            <4>1. Busy(u, r) /\ pc[u] \in {"transition", "result"}
                BY <1>1, <1>3, <2>3, <3>2 DEF Busy
            <4>2. Size[r] \in seen[r]
                BY <2>3, <4>1 DEF SeenIsCounted
            <4>. QED BY <2>2, <4>2
        <3>. QED BY <3>1, <3>2
    <2>4. ASSUME NEW r \in told, r \in Query
          PROVE  archived[r] = Size[r] \/ Size[r] \in seen'[r]
        BY <2>2, <2>4 DEF SeenIsCounted
    <2>5. UNCHANGED <<archived, work, told, start, foreign>>
        BY <1>1
    <2>. QED BY <2>1, <2>3, <2>4, <2>5 DEF SeenIsCounted, Busy
<1>13. StoresRecorded'
    BY <1>1, <1>3 DEF StoresRecorded
<1>. QED BY <1>6, <1>7, <1>8, <1>9, <1>10, <1>11, <1>12, <1>13

(* The unlocked end of record_lookup counts what the lookup saw.           *)
LEMMA RecordTransitionInv ==
    ASSUME SummaryInv, NEW t \in Thread, RecordTransition(t)
    PROVE  SummaryInv'
<1>. DEFINE q == work[t].query
            w == work[t]
<1>. USE DEF SummaryInv
<1>1. /\ pc[t] = "transition" /\ pc' = [pc EXCEPT ![t] = "result"]
      /\ archived' = [archived EXCEPT ![q] = Greater(@, w.fresh)]
      /\ direct' = IF q \in plugin THEN direct ELSE direct \cup {q}
      /\ UNCHANGED <<old, fresh, work, before, seen, incomplete, plugin>>
      /\ UNCHANGED <<looked, producer, told, outdated, start, failed, foreign>>
    BY DEF RecordTransition, RecordArchive, GoTo, fdbVars, histVars
<1>2. /\ q \in Query /\ Busy(t, q)
      /\ w.old \in Nat /\ w.fresh \in Nat /\ w.old + w.fresh <= Size[q]
      /\ Size[q] \in Nat /\ archived[q] \in Nat /\ archived[q] <= Size[q]
    BY <1>1, ThreadWork, QueryCounts DEF Busy
<1>3. /\ \A u \in Thread \ {t} : pc'[u] = pc[u]
      /\ pc'[t] = "result"
      /\ pc' \in [Thread -> {"idle", "record", "transition", "result", "stored"}]
    BY <1>1 DEF TypeOK
<1>4. /\ \A r \in Query \ {q} : archived'[r] = archived[r]
      /\ archived'[q] = IF archived[q] >= w.fresh THEN archived[q] ELSE w.fresh
    BY <1>1, <1>2 DEF TypeOK, Greater
<1>5. /\ archived'[q] \in Nat /\ archived'[q] <= Size[q]
      /\ archived'[q] >= w.fresh /\ archived'[q] >= archived[q]
    BY <1>2, <1>4
<1>6. TypeOK'
    <2>1. archived' \in [Query -> Nat] /\ \A r \in Query : archived'[r] <= Size[r]
        BY <1>1, <1>4, <1>5 DEF TypeOK
    <2>. QED BY <1>1, <1>2, <1>3, <2>1 DEF TypeOK
<1>7. HistoryOK'
    BY <1>1 DEF HistoryOK
<1>8. FirstLookup'
    BY <1>1, <1>3 DEF FirstLookup, Busy
<1>9. OldOnlyMasked'
    BY <1>1, <1>3 DEF OldOnlyMasked, Busy
<1>10. OthersSeenOnce'
    BY <1>1, <1>2, <1>3, <1>4 DEF OthersSeenOnce, Busy
<1>11. ProducedWhole'
    BY <1>1, <1>3 DEF ProducedWhole, Busy
<1>12. SeenIsCounted'
    <2>1. ASSUME NEW r \in Query, r \notin foreign, NEW n \in seen[r], n > start.fresh[r]
          PROVE  \/ archived'[r] >= n
                 \/ \E u \in Thread : pc'[u] = "transition" /\ work[u].query = r /\ work[u].fresh = n
        <3>1. CASE archived[r] >= n
            <4>1. archived'[r] >= archived[r] /\ archived[r] \in Nat /\ archived'[r] \in Nat
                BY <1>4, <1>5, QueryCounts
            <4>2. n \in Nat
                BY <2>1 DEF TypeOK
            <4>. QED BY <3>1, <4>1, <4>2
        <3>2. ASSUME NEW u \in Thread, pc[u] = "transition", work[u].query = r, work[u].fresh = n
              PROVE  archived'[r] >= n \/ pc'[u] = "transition"
            BY <1>3, <1>5, <3>2
        <3>. QED BY <2>1, <3>1, <3>2 DEF SeenIsCounted
    <2>2. ASSUME NEW r \in Query, r \in told
          PROVE  archived'[r] = Size[r] \/ Size[r] \in seen[r]
        BY <1>2, <1>4, <1>5, <2>2 DEF SeenIsCounted
    <2>3. ASSUME NEW r \in Query, NEW u \in Thread, Busy(u, r)', work[u].after,
                 pc'[u] \in {"transition", "result"}
          PROVE  Size[r] \in seen[r]
        BY <1>1, <1>3, <2>3 DEF SeenIsCounted, Busy
    <2>4. UNCHANGED <<seen, work, told, start, foreign>>
        BY <1>1
    <2>. QED BY <2>1, <2>2, <2>3, <2>4 DEF SeenIsCounted, Busy
<1>13. StoresRecorded'
    BY <1>1, <1>3 DEF StoresRecorded
<1>. QED BY <1>6, <1>7, <1>8, <1>9, <1>10, <1>11, <1>12, <1>13

(* The lookup's answer is recorded.                                        *)
LEMMA RecordResultInv ==
    ASSUME SummaryInv, NEW t \in Thread, RecordResult(t)
    PROVE  SummaryInv'
<1>. DEFINE q == work[t].query
            w == work[t]
<1>. USE DEF SummaryInv
<1>1. /\ pc[t] = "result" /\ pc' = [pc EXCEPT ![t] = "idle"]
      /\ incomplete' = IF w.old + w.fresh = Size[q] THEN incomplete \ {q} ELSE incomplete \cup {q}
      /\ looked' = looked \cup {q}
      /\ told' = IF w.after THEN told \cup {q} ELSE told
      /\ UNCHANGED <<old, fresh, work, archived, before, seen, direct, plugin>>
      /\ outdated' = IF w.after \/ producer[q] = "none"
                     THEN outdated \ {q} ELSE outdated \cup {q}
      /\ UNCHANGED <<producer, start, failed, foreign>>
    BY DEF RecordResult, GoTo, fdbVars
<1>2. /\ q \in Query /\ Busy(t, q) /\ Size[q] \in Nat
      /\ w.old \in Nat /\ w.fresh \in Nat
    BY <1>1, ThreadWork, QueryCounts DEF Busy
<1>3. /\ \A u \in Thread \ {t} : pc'[u] = pc[u]
      /\ pc'[t] = "idle"
      /\ pc' \in [Thread -> {"idle", "record", "transition", "result", "stored"}]
    BY <1>1 DEF TypeOK
<1>4. TypeOK'
    BY <1>1, <1>2, <1>3 DEF TypeOK
<1>5. HistoryOK'
    BY <1>1, <1>2 DEF HistoryOK
<1>6. FirstLookup'
    BY <1>1, <1>2, <1>3 DEF FirstLookup, OldOnlyMasked, Busy
<1>7. OldOnlyMasked'
    BY <1>1, <1>3 DEF OldOnlyMasked, Busy
<1>8. OthersSeenOnce'
    BY <1>1, <1>3 DEF OthersSeenOnce, Busy
<1>9. ProducedWhole'
    <2>1. w.after => producer[q] # "none" /\ w.old = 0 /\ w.fresh = Size[q]
        BY <1>2 DEF ProducedWhole
    <2>2. ASSUME NEW r \in Query, r \in told' \cap incomplete' PROVE r \in outdated'
        <3>1. CASE r = q
            <4>1. w.old + w.fresh # Size[q]
                BY <1>1, <2>2, <3>1
            <4>2. ~ w.after
                BY <1>2, <2>1, <4>1
            <4>3. q \in told
                BY <1>1, <2>2, <3>1, <4>2
            <4>4. producer[q] # "none"
                BY <1>2, <4>3 DEF ProducedWhole
            <4>. QED BY <1>1, <3>1, <4>2, <4>4
        <3>2. CASE r # q
            BY <1>1, <2>2, <3>2 DEF ProducedWhole
        <3>. QED BY <3>1, <3>2
    <2>3. ASSUME NEW r \in Query, r \in told' PROVE producer[r] # "none"
        BY <1>1, <2>1, <2>3 DEF ProducedWhole
    <2>. QED BY <1>1, <1>3, <2>2, <2>3 DEF ProducedWhole, Busy
<1>10. SeenIsCounted'
    <2>1. ASSUME NEW r \in Query, r \in told'
          PROVE  archived[r] = Size[r] \/ Size[r] \in seen[r]
        BY <1>1, <1>2, <2>1 DEF SeenIsCounted
    <2>. QED BY <1>1, <1>3, <2>1 DEF SeenIsCounted, Busy
<1>11. StoresRecorded'
    BY <1>1, <1>3 DEF StoresRecorded
<1>. QED BY <1>4, <1>5, <1>6, <1>7, <1>8, <1>9, <1>10, <1>11

(* What a job's archiving of a query's fields means for the invariants     *)
(* about FDB and about threads that work on it.                            *)
LEMMA ProducesInv ==
    ASSUME SummaryInv, NEW q \in Query, NEW by \in {"store", "job"}, Produces(q, by)
    PROVE  /\ q \in looked /\ producer[q] = "none" /\ q \notin told
           /\ producer' \in [Query -> {"none", "store", "job"}]
           /\ producer'[q] = by /\ old'[q] = 0 /\ fresh'[q] = Size[q]
           /\ \A r \in Query \ {q} :
                producer'[r] = producer[r] /\ old'[r] = old[r] /\ fresh'[r] = fresh[r]
           /\ old' \in [Query -> Nat] /\ fresh' \in [Query -> Nat]
           /\ \A r \in Query : old'[r] + fresh'[r] <= Size[r]
           /\ \A t \in Thread : Busy(t, q) => pc[t] # "stored" /\ ~ work[t].after
<1>1. /\ q \in looked /\ producer[q] = "none"
      /\ producer' = [producer EXCEPT ![q] = by]
      /\ old' = [old EXCEPT ![q] = 0] /\ fresh' = [fresh EXCEPT ![q] = Size[q]]
    BY DEF Produces
<1>2. producer \in [Query -> {"none", "store", "job"}] /\ old \in [Query -> Nat] /\ fresh \in [Query -> Nat]
    BY DEF SummaryInv, TypeOK, HistoryOK
<1>3. q \notin told /\ \A t \in Thread : Busy(t, q) => pc[t] # "stored" /\ ~ work[t].after
    BY <1>1 DEF SummaryInv, ProducedWhole
<1>4. Size[q] \in Nat
    BY QueryCounts
<1>5. /\ producer'[q] = by /\ old'[q] = 0 /\ fresh'[q] = Size[q]
      /\ \A r \in Query \ {q} :
            producer'[r] = producer[r] /\ old'[r] = old[r] /\ fresh'[r] = fresh[r]
    BY <1>1, <1>2
<1>6. /\ producer' \in [Query -> {"none", "store", "job"}]
      /\ old' \in [Query -> Nat] /\ fresh' \in [Query -> Nat]
    BY <1>1, <1>2, <1>4
<1>7. \A r \in Query : old'[r] + fresh'[r] <= Size[r]
    BY <1>4, <1>5 DEF SummaryInv, TypeOK
<1>. QED BY <1>1, <1>3, <1>5, <1>6, <1>7

(* A store step of this process archives.                                  *)
LEMMA StoreInv ==
    ASSUME SummaryInv, NEW t \in Thread, NEW q \in Query, Store(t, q)
    PROVE  SummaryInv'
<1>. USE DEF SummaryInv
<1>1. PICK by \in {"store", "job"} :
        /\ Produces(q, by)
        /\ work' = [work EXCEPT ![t] = [query |-> q, old |-> 0, fresh |-> Size[q],
                                        after |-> TRUE, direct |-> by = "job"]]
    BY DEF Store
<1>2. /\ pc[t] = "idle" /\ pc' = [pc EXCEPT ![t] = "stored"]
      /\ UNCHANGED <<archived, before, seen, incomplete, direct, plugin>>
      /\ UNCHANGED <<looked, told, outdated, start, failed, foreign>>
    BY DEF Store, GoTo, runVars
<1>3. /\ \A u \in Thread \ {t} : pc'[u] = pc[u] /\ work'[u] = work[u]
      /\ pc'[t] = "stored" /\ work'[t].query = q
      /\ work'[t].old = 0 /\ work'[t].fresh = Size[q]
      /\ work'[t].after /\ (work'[t].direct <=> by = "job")
    BY <1>1, <1>2 DEF TypeOK
<1>4. Size[q] \in Nat /\ ~ Busy(t, q)
    BY <1>2, QueryCounts DEF Busy
<1>5. /\ q \in looked /\ producer[q] = "none" /\ q \notin told
      /\ producer' \in [Query -> {"none", "store", "job"}]
      /\ producer'[q] = by /\ old'[q] = 0 /\ fresh'[q] = Size[q]
      /\ \A r \in Query \ {q} :
            producer'[r] = producer[r] /\ old'[r] = old[r] /\ fresh'[r] = fresh[r]
    BY <1>1, ProducesInv
<1>6. /\ old' \in [Query -> Nat] /\ fresh' \in [Query -> Nat]
      /\ \A r \in Query : old'[r] + fresh'[r] <= Size[r]
      /\ \A u \in Thread : Busy(u, q) => ~ work[u].after /\ pc[u] # "stored"
    BY <1>1, ProducesInv
<1>7. TypeOK'
    <2>1. work' \in [Thread -> Work]
        BY <1>1, <1>4 DEF TypeOK, Work
    <2>2. pc' \in [Thread -> {"idle", "record", "transition", "result", "stored"}]
        BY <1>2 DEF TypeOK
    <2>. QED BY <1>2, <1>6, <2>1, <2>2 DEF TypeOK
<1>8. HistoryOK'
    <2>1. ASSUME NEW u \in Thread
          PROVE  work'[u].old + work'[u].fresh <= Size[work'[u].query]
        BY <1>3, <1>4, ThreadWork
    <2>. QED BY <1>2, <1>5, <2>1 DEF HistoryOK
<1>9. FirstLookup'
    BY <1>2, <1>3, <1>5 DEF FirstLookup, Busy
<1>10. OldOnlyMasked'
    <2>1. \A r \in Query : old'[r] <= start.old[r] /\ start.old[r] \in Nat
        BY <1>5, QueryCounts DEF OldOnlyMasked
    <2>2. ASSUME NEW r \in Query, NEW u \in Thread, Busy(u, r)'
          PROVE  /\ work'[u].old <= start.old[r]
                 /\ pc'[u] \in {"transition", "result"} =>
                        seen[r] # {} /\ (r \notin foreign => before[r] = start.old[r])
        BY <1>3, <2>1, <2>2 DEF OldOnlyMasked, Busy
    <2>. QED BY <1>2, <2>1, <2>2 DEF OldOnlyMasked, Busy
<1>11. OthersSeenOnce'
    BY <1>2, <1>3, <1>5 DEF OthersSeenOnce, Busy
<1>12. ProducedWhole'
    <2>1. ASSUME NEW r \in Query, NEW u \in Thread, Busy(u, r)'
          PROVE  /\ work'[u].after =>
                        producer'[r] # "none" /\ work'[u].old = 0 /\ work'[u].fresh = Size[r]
                 /\ pc'[u] = "stored" => work'[u].after
        <3>1. CASE u = t
            BY <1>3, <1>5, <2>1, <3>1 DEF Busy
        <3>2. CASE u # t
            BY <1>3, <1>5, <1>6, <2>1, <3>2 DEF ProducedWhole, Busy
        <3>. QED BY <3>1, <3>2
    <2>2. ASSUME NEW r \in Query
          PROVE  /\ producer'[r] # "none" => old'[r] = 0 /\ fresh'[r] = Size[r]
                 /\ r \in told => producer'[r] # "none"
                 /\ r \in told \cap incomplete => r \in outdated
        BY <1>5, <1>6 DEF ProducedWhole
    <2>. QED BY <1>2, <2>1, <2>2 DEF ProducedWhole
<1>13. SeenIsCounted'
    BY <1>2, <1>3 DEF SeenIsCounted, Busy
<1>14. StoresRecorded'
    <2>1. ASSUME StoresHere, NEW r \in Query, producer'[r] = "store"
          PROVE  \/ r \in plugin
                 \/ \E u \in Thread : pc'[u] = "stored" /\ work'[u].query = r /\ ~ work'[u].direct
        <3>1. CASE r = q
            BY <1>3, <1>5, <2>1, <3>1
        <3>2. CASE r # q
            <4>1. producer[r] = "store"
                BY <1>5, <2>1, <3>2
            <4>. QED BY <1>2, <1>3, <2>1, <4>1 DEF StoresRecorded
        <3>. QED BY <3>1, <3>2
    <2>. QED BY <1>2, <2>1 DEF StoresRecorded
<1>. QED BY <1>7, <1>8, <1>9, <1>10, <1>11, <1>12, <1>13, <1>14

(* Its post-check records the query.                                       *)
LEMMA RecordStoreInv ==
    ASSUME SummaryInv, NEW t \in Thread, RecordStore(t)
    PROVE  SummaryInv'
<1>. DEFINE q == work[t].query
            w == work[t]
<1>. USE DEF SummaryInv
<1>1. /\ pc[t] = "stored" /\ pc' = [pc EXCEPT ![t] = "idle"]
      /\ archived' = [archived EXCEPT ![q] = Greater(@, w.fresh)]
      /\ incomplete' = incomplete \ {q}
      /\ direct' = IF w.direct THEN direct \cup {q} ELSE direct
      /\ plugin' = IF w.direct THEN plugin ELSE plugin \cup {q}
      /\ told' = told \cup {q}
      /\ UNCHANGED <<old, fresh, work, before, seen>>
      /\ outdated' = outdated \ {q}
      /\ UNCHANGED <<looked, producer, start, failed, foreign>>
    <2>1. w.direct \in BOOLEAN
        BY ThreadWork
    <2>. QED BY <2>1 DEF RecordStore, RecordArchive, GoTo, fdbVars
<1>2. /\ q \in Query /\ Busy(t, q)
      /\ Size[q] \in Nat /\ archived[q] \in Nat /\ archived[q] <= Size[q]
    BY <1>1, ThreadWork, QueryCounts DEF Busy
<1>3. producer[q] # "none" /\ w.fresh = Size[q]
    BY <1>1, <1>2 DEF ProducedWhole
<1>4. /\ \A u \in Thread \ {t} : pc'[u] = pc[u]
      /\ pc'[t] = "idle"
      /\ pc' \in [Thread -> {"idle", "record", "transition", "result", "stored"}]
    BY <1>1 DEF TypeOK
<1>5. /\ \A r \in Query \ {q} : archived'[r] = archived[r]
      /\ archived'[q] = Size[q]
    <2>1. archived' = [archived EXCEPT ![q] = Greater(archived[q], w.fresh)]
        BY <1>1
    <2>2. Greater(archived[q], w.fresh) = Size[q]
        BY <1>2, <1>3 DEF Greater
    <2>. QED BY <1>2, <2>1, <2>2 DEF TypeOK
<1>6. TypeOK'
    <2>1. archived' \in [Query -> Nat] /\ \A r \in Query : archived'[r] <= Size[r]
        BY <1>1, <1>2, <1>5 DEF TypeOK
    <2>2. incomplete' \subseteq Query /\ direct' \subseteq Query /\ plugin' \subseteq Query
        BY <1>1, <1>2 DEF TypeOK
    <2>. QED BY <1>1, <1>4, <2>1, <2>2 DEF TypeOK
<1>7. HistoryOK'
    BY <1>1, <1>2 DEF HistoryOK
<1>8. FirstLookup'
    BY <1>1, <1>4 DEF FirstLookup, Busy
<1>9. OldOnlyMasked'
    BY <1>1, <1>4 DEF OldOnlyMasked, Busy
<1>10. OthersSeenOnce'
    BY <1>1, <1>3, <1>4, <1>5 DEF OthersSeenOnce, Busy
<1>11. ProducedWhole'
    <2>1. ASSUME NEW r \in Query
          PROVE  /\ r \in told' => producer[r] # "none"
                 /\ r \in told' \cap incomplete' => r \in outdated'
        BY <1>1, <1>3 DEF ProducedWhole
    <2>2. UNCHANGED <<old, fresh, work, producer>>
        BY <1>1
    <2>. QED BY <1>4, <2>1, <2>2 DEF ProducedWhole, Busy
<1>12. SeenIsCounted'
    <2>1. ASSUME NEW r \in Query, r \notin foreign, NEW n \in seen[r], n > start.fresh[r]
          PROVE  \/ archived'[r] >= n
                 \/ \E u \in Thread : pc'[u] = "transition" /\ work[u].query = r /\ work[u].fresh = n
        <3>1. CASE r = q
            <4>1. n \in 0..Size[q]
                BY <2>1, <3>1, QueryCounts
            <4>. QED BY <1>2, <1>5, <3>1, <4>1
        <3>2. CASE r # q
            BY <1>1, <1>4, <1>5, <2>1, <3>2 DEF SeenIsCounted
        <3>. QED BY <3>1, <3>2
    <2>2. ASSUME NEW r \in Query, r \in told'
          PROVE  archived'[r] = Size[r] \/ Size[r] \in seen[r]
        BY <1>1, <1>5, <2>2 DEF SeenIsCounted
    <2>3. UNCHANGED <<seen, work, start, foreign>>
        BY <1>1
    <2>. QED BY <1>4, <2>1, <2>2, <2>3 DEF SeenIsCounted, Busy
<1>13. StoresRecorded'
    <2>1. ASSUME StoresHere, NEW r \in Query, producer[r] = "store"
          PROVE  \/ r \in plugin'
                 \/ \E u \in Thread : pc'[u] = "stored" /\ work[u].query = r /\ ~ work[u].direct
        <3>1. CASE r \in plugin
            BY <1>1, <3>1
        <3>2. ASSUME NEW u \in Thread, pc[u] = "stored", work[u].query = r, ~ work[u].direct
              PROVE  r \in plugin' \/ pc'[u] = "stored"
            BY <1>1, <1>4, <3>2
        <3>. QED BY <2>1, <3>1, <3>2 DEF StoresRecorded
    <2>. QED BY <1>1, <2>1 DEF StoresRecorded
<1>. QED BY <1>6, <1>7, <1>8, <1>9, <1>10, <1>11, <1>12, <1>13

(* A job archives in another process.                                      *)
LEMMA JobElsewhereInv ==
    ASSUME SummaryInv, NEW q \in Query, JobElsewhere(q)
    PROVE  SummaryInv'
<1>. USE DEF SummaryInv
<1>1. PICK by \in {"store", "job"} : Produces(q, by) /\ (StoresHere => by = "job")
    BY DEF JobElsewhere
<1>2. /\ UNCHANGED <<archived, before, seen, incomplete, direct, plugin>>
      /\ UNCHANGED <<looked, told, outdated, start, failed, foreign, pc, work>>
    BY DEF JobElsewhere, runVars
<1>3. /\ q \in looked /\ producer[q] = "none" /\ q \notin told
      /\ producer' \in [Query -> {"none", "store", "job"}]
      /\ producer'[q] = by /\ old'[q] = 0 /\ fresh'[q] = Size[q]
      /\ \A r \in Query \ {q} :
            producer'[r] = producer[r] /\ old'[r] = old[r] /\ fresh'[r] = fresh[r]
    BY <1>1, ProducesInv
<1>4. /\ old' \in [Query -> Nat] /\ fresh' \in [Query -> Nat]
      /\ \A r \in Query : old'[r] + fresh'[r] <= Size[r]
      /\ \A u \in Thread : Busy(u, q) => ~ work[u].after /\ pc[u] # "stored"
    BY <1>1, ProducesInv
<1>5. TypeOK'
    BY <1>2, <1>4 DEF TypeOK
<1>6. HistoryOK'
    BY <1>2, <1>3 DEF HistoryOK
<1>7. FirstLookup'
    BY <1>2, <1>3 DEF FirstLookup, Busy
<1>8. OldOnlyMasked'
    <2>1. \A r \in Query : old'[r] <= start.old[r]
        BY <1>3, QueryCounts DEF OldOnlyMasked
    <2>. QED BY <1>2, <2>1 DEF OldOnlyMasked, Busy
<1>9. OthersSeenOnce'
    BY <1>2, <1>3 DEF OthersSeenOnce, Busy
<1>10. ProducedWhole'
    BY <1>2, <1>3, <1>4 DEF ProducedWhole, Busy
<1>11. SeenIsCounted'
    BY <1>2 DEF SeenIsCounted, Busy
<1>12. StoresRecorded'
    BY <1>1, <1>2, <1>3 DEF StoresRecorded
<1>. QED BY <1>5, <1>6, <1>7, <1>8, <1>9, <1>10, <1>11, <1>12

(* What archiving some fields of a query means for FDB.                    *)
LEMMA ArchivesTyped ==
    ASSUME SummaryInv, NEW q \in Query, Archives(q)
    PROVE  /\ old' \in [Query -> Nat] /\ fresh' \in [Query -> Nat]
           /\ \A r \in Query : old'[r] + fresh'[r] <= Size[r] /\ old'[r] <= old[r]
           /\ \A r \in Query \ {q} : old'[r] = old[r] /\ fresh'[r] = fresh[r]
           /\ old[q] = 0 /\ fresh[q] = Size[q] => FALSE
<1>1. PICK masks \in 0..old[q], adds \in 0..(Size[q] - old[q] - fresh[q]) :
        /\ masks + adds > 0
        /\ old' = [old EXCEPT ![q] = @ - masks]
        /\ fresh' = [fresh EXCEPT ![q] = @ + masks + adds]
    BY DEF Archives
<1>2. /\ old[q] \in Nat /\ fresh[q] \in Nat /\ Size[q] \in Nat
      /\ old[q] + fresh[q] <= Size[q]
    BY QueryCounts
<1>3. /\ old'[q] = old[q] - masks /\ fresh'[q] = fresh[q] + masks + adds
      /\ \A r \in Query \ {q} : old'[r] = old[r] /\ fresh'[r] = fresh[r]
    BY <1>1 DEF SummaryInv, TypeOK
<1>4. /\ old'[q] \in Nat /\ old'[q] <= old[q] /\ fresh'[q] \in Nat
      /\ old'[q] + fresh'[q] <= Size[q]
    BY <1>2, <1>3
<1>5. old' \in [Query -> Nat] /\ fresh' \in [Query -> Nat]
    BY <1>1, <1>3, <1>4 DEF SummaryInv, TypeOK
<1>6. ASSUME NEW r \in Query
      PROVE  old'[r] + fresh'[r] <= Size[r] /\ old'[r] <= old[r]
    <2>1. CASE r = q
        BY <1>4, <2>1
    <2>2. CASE r # q
        <3>1. old'[r] = old[r] /\ fresh'[r] = fresh[r]
            BY <1>3, <2>2
        <3>2. old[r] \in Nat /\ old[r] + fresh[r] <= Size[r]
            BY QueryCounts
        <3>. QED BY <3>1, <3>2
    <2>. QED BY <2>1, <2>2
<1>7. old[q] = 0 /\ fresh[q] = Size[q] => FALSE
    BY <1>1, <1>2
<1>. QED BY <1>3, <1>5, <1>6, <1>7

(* A job fails after it archived some fields.                              *)
LEMMA JobFailsInv ==
    ASSUME SummaryInv, NEW q \in Query, JobFails(q)
    PROVE  SummaryInv'
<1>. USE DEF SummaryInv
<1>1. /\ q \in looked /\ producer[q] = "none" /\ failed' = failed \cup {q} /\ Archives(q)
      /\ UNCHANGED <<archived, before, seen, incomplete, direct, plugin>>
      /\ UNCHANGED <<looked, told, start, producer, outdated, foreign, pc, work>>
    BY DEF JobFails, runVars
<1>2. /\ old' \in [Query -> Nat] /\ fresh' \in [Query -> Nat]
      /\ \A r \in Query : old'[r] + fresh'[r] <= Size[r] /\ old'[r] <= old[r]
      /\ \A r \in Query \ {q} : old'[r] = old[r] /\ fresh'[r] = fresh[r]
    BY <1>1, ArchivesTyped
<1>3. TypeOK'
    BY <1>1, <1>2 DEF TypeOK
<1>4. HistoryOK'
    BY <1>1 DEF HistoryOK
<1>5. FirstLookup'
    BY <1>1, <1>2 DEF FirstLookup, Busy
<1>6. OldOnlyMasked'
    <2>1. \A r \in Query : old'[r] <= start.old[r]
        BY <1>2, QueryCounts DEF OldOnlyMasked
    <2>. QED BY <1>1, <2>1 DEF OldOnlyMasked, Busy
<1>7. OthersSeenOnce'
    BY <1>1, <1>2 DEF OthersSeenOnce, Busy
<1>8. ProducedWhole'
    BY <1>1, <1>2 DEF ProducedWhole, Busy
<1>9. SeenIsCounted'
    BY <1>1 DEF SeenIsCounted, Busy
<1>10. StoresRecorded'
    BY <1>1 DEF StoresRecorded
<1>. QED BY <1>3, <1>4, <1>5, <1>6, <1>7, <1>8, <1>9, <1>10

(* Others archive fields of a query.                                       *)
LEMMA ForeignArchivesInv ==
    ASSUME SummaryInv, NEW q \in Query, ForeignArchives(q)
    PROVE  SummaryInv'
<1>. USE DEF SummaryInv
<1>1. /\ foreign' = foreign \cup {q} /\ Archives(q)
      /\ UNCHANGED <<archived, before, seen, incomplete, direct, plugin>>
      /\ UNCHANGED <<looked, told, start, producer, outdated, failed, pc, work>>
    BY DEF ForeignArchives, runVars
<1>2. /\ old' \in [Query -> Nat] /\ fresh' \in [Query -> Nat]
      /\ \A r \in Query : old'[r] + fresh'[r] <= Size[r] /\ old'[r] <= old[r]
      /\ \A r \in Query \ {q} : old'[r] = old[r] /\ fresh'[r] = fresh[r]
      /\ producer[q] = "none"
    BY <1>1, ArchivesTyped DEF ProducedWhole
<1>3. TypeOK'
    BY <1>1, <1>2 DEF TypeOK
<1>4. HistoryOK'
    BY <1>1 DEF HistoryOK
<1>5. FirstLookup'
    BY <1>1, <1>2 DEF FirstLookup, Busy
<1>6. OldOnlyMasked'
    <2>1. \A r \in Query : old'[r] <= start.old[r]
        BY <1>2, QueryCounts DEF OldOnlyMasked
    <2>. QED BY <1>1, <2>1 DEF OldOnlyMasked, Busy
<1>7. OthersSeenOnce'
    BY <1>1, <1>2 DEF OthersSeenOnce, Busy
<1>8. ProducedWhole'
    BY <1>1, <1>2 DEF ProducedWhole, Busy
<1>9. SeenIsCounted'
    BY <1>1 DEF SeenIsCounted, Busy
<1>10. StoresRecorded'
    BY <1>1 DEF StoresRecorded
<1>. QED BY <1>3, <1>4, <1>5, <1>6, <1>7, <1>8, <1>9, <1>10

-----------------------------------------------------------------------------
LEMMA InitSummaryInv == Init => SummaryInv
<1>. SUFFICES ASSUME Init PROVE SummaryInv
    OBVIOUS
<1>1. (CHOOSE q \in Query : TRUE) \in Query /\ Size \in [Query -> Nat \ {0}]
    BY SummaryAssumption DEF SummaryAssumption
<1>2. Amount \subseteq Nat
    BY <1>1 DEF Amount
<1>3. old \in [Query -> Nat] /\ fresh \in [Query -> Nat]
    BY <1>2 DEF Init
<1>4. work \in [Thread -> Work] /\ \A t \in Thread : work[t].old + work[t].fresh <= Size[work[t].query]
    BY <1>1 DEF Init, Work
<1>5. TypeOK
    <2>1. \A q \in Query : Cardinality(seen[q]) <= 1
        BY OneNumber DEF Init
    <2>2. archived \in [Query -> Nat] /\ before \in [Query -> Nat]
        BY DEF Init
    <2>3. \A q \in Query : archived[q] <= Size[q] /\ before[q] <= Size[q]
        BY <1>1 DEF Init
    <2>. QED BY <1>3, <1>4, <2>1, <2>2, <2>3 DEF Init, TypeOK
<1>6. HistoryOK
    BY <1>3, <1>4 DEF Init, HistoryOK
<1>. QED BY <1>3, <1>5, <1>6
         DEF Init, SummaryInv, FirstLookup, OldOnlyMasked, OthersSeenOnce, ProducedWhole,
             SeenIsCounted, StoresRecorded, Busy

LEMMA NextSummaryInv == SummaryInv /\ [Next]_vars => SummaryInv'
<1>. SUFFICES ASSUME SummaryInv, [Next]_vars PROVE SummaryInv'
    OBVIOUS
<1>1. CASE UNCHANGED vars
    <2>1. /\ UNCHANGED <<old, fresh, archived, before, seen, incomplete, direct, plugin>>
          /\ UNCHANGED <<looked, producer, told, outdated, start, failed, foreign, pc, work>>
        BY <1>1 DEF vars, fdbVars, runVars, histVars
    <2>2. TypeOK' /\ HistoryOK'
        BY <2>1 DEF SummaryInv, TypeOK, HistoryOK
    <2>3. FirstLookup' /\ OldOnlyMasked' /\ OthersSeenOnce'
        BY <2>1 DEF SummaryInv, FirstLookup, OldOnlyMasked, OthersSeenOnce, Busy
    <2>4. ProducedWhole' /\ SeenIsCounted' /\ StoresRecorded'
        BY <2>1 DEF SummaryInv, ProducedWhole, SeenIsCounted, StoresRecorded, Busy
    <2>. QED BY <2>2, <2>3, <2>4 DEF SummaryInv
<1>. QED BY <1>1, InspectInv, RecordLookupInv, RecordTransitionInv, RecordResultInv,
            StoreInv, RecordStoreInv, JobElsewhereInv, JobFailsInv, ForeignArchivesInv DEF Next

LEMMA SummaryInvariant == Spec => []SummaryInv
BY InitSummaryInv, NextSummaryInv, PTL DEF Spec

-----------------------------------------------------------------------------
(* Every variable of the summary has its type, and counts are bounded.     *)
THEOREM SummaryTypeCorrect == Spec => []TypeOK
<1>1. SummaryInv => TypeOK
    BY DEF SummaryInv
<1>. QED BY <1>1, SummaryInvariant, PTL

(* For a query produced after a lookup that did not see all its fields     *)
(* fresh, and that nobody else archived fields of since, the block counts  *)
(* every field as archived, and as masked those the run found.             *)
THEOREM CountsExact == Spec => []CountsAreExact
<1>1. ASSUME SummaryInv, Quiet, NEW q \in told \ foreign, start.fresh[q] < Size[q]
      PROVE  archived[q] = Size[q] /\ Masked(q) = start.old[q]
    <2>. USE DEF SummaryInv
    <2>1. q \in Query /\ producer[q] # "none"
        BY <1>1 DEF HistoryOK, ProducedWhole
    <2>2. q \in looked /\ before[q] = start.old[q]
        BY <1>1, <2>1 DEF FirstLookup
    <2>3. /\ archived[q] \in Nat /\ archived[q] <= Size[q] /\ Size[q] \in Nat
          /\ before[q] \in Nat /\ before[q] <= Size[q]
        BY <1>1, <2>1, QueryCounts
    <2>4. CASE Size[q] \in seen[q]
        <3>1. archived[q] >= Size[q]
            BY <1>1, <2>1, <2>4 DEF SeenIsCounted, Quiet
        <3>. QED BY <2>2, <2>3, <3>1 DEF Masked, Smaller
    <2>5. CASE archived[q] = Size[q]
        BY <2>2, <2>3, <2>5 DEF Masked, Smaller
    <2>. QED BY <1>1, <2>1, <2>4, <2>5 DEF SeenIsCounted
<1>2. SummaryInv => CountsAreExact
    BY <1>1 DEF CountsAreExact
<1>. QED BY <1>2, SummaryInvariant, PTL

(* A query a job produced is not listed as incomplete once this process    *)
(* has seen it, until an answer comes that was read before the job.        *)
THEOREM ProducedAreComplete == Spec => []ProducedNotIncomplete
<1>1. SummaryInv => ProducedNotIncomplete
    BY DEF SummaryInv, HistoryOK, ProducedWhole, ProducedNotIncomplete
<1>. QED BY <1>1, SummaryInvariant, PTL

(* A query is counted only if a job of this run archived fields of it, or  *)
(* others did after a lookup of it had begun.                              *)
THEOREM OnlyOwnCounted == Spec => []OthersNotCounted
<1>1. ASSUME SummaryInv, NEW q \in Query, archived[q] > 0, producer[q] = "none"
      PROVE  q \in failed \/ q \in foreign
    BY <1>1 DEF SummaryInv, OthersSeenOnce
<1>2. SummaryInv => OthersNotCounted
    BY <1>1 DEF OthersNotCounted
<1>. QED BY <1>2, SummaryInvariant, PTL

(* The line of an archive mode without effect is logged only when it is    *)
(* so, if the store steps run in the main process.                         *)
THEOREM ArchiveModeLine == Spec => []ArchiveModeLineTrue
<1>1. SummaryInv => ArchiveModeLineTrue
    BY DEF SummaryInv, HistoryOK, StoresRecorded, ArchiveModeLineTrue, Quiet
<1>. QED BY <1>1, SummaryInvariant, PTL
=============================================================================
