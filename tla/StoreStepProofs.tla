-------------------------- MODULE StoreStepProofs ---------------------------
(***************************************************************************)
(* Theorems about the write path, for every FDB schema, every set of       *)
(* queries, files and threads, and every combination of faults.            *)
(***************************************************************************)
EXTENDS StoreStep, RequestsProofs

(* What the post-check counts, if it is enough, is all its query names.    *)
LEMMA EnoughIsAll ==
    ASSUME SchemaReadable, NEW q, IsQuery(q), Expandable(q), NEW s \in Nat,
           stamp \in [FieldKey -> Nat], NEW fields \in SUBSET Fields(q),
           Cardinality(Fresh(fields, s)) >= Expected(q)
    PROVE  /\ Fresh(fields, s) = Named(q)
           /\ Cardinality(Named(q)) = Expected(q)
           /\ \A f \in Named(q) : f \in FieldKey /\ stamp[f] > 0 /\ stamp[f] >= s
<1>1. /\ Fresh(fields, s) \subseteq FieldKey
      /\ \A f \in Fresh(fields, s) : Counted(q, f)
    BY DEF Fresh, Fields
<1>2. Fresh(fields, s) = Named(q) /\ Cardinality(Named(q)) = Expected(q)
    BY <1>1, CountingSuffices
<1>. QED BY <1>2 DEF Fresh, Fields

(* What FDB is told to archive is a field of its schema.                   *)
LEMMA AcceptedIsField ==
    ASSUME NEW keys, SchemaAccepts(keys), keys \in [DOMAIN keys -> Spelling],
           \A k \in DOMAIN keys :
              Canonical[keys[k]] \in {Canonical[v] : v \in ValuesOf[k]}
    PROVE  AsField(keys) \in FieldKey
<1>1. AsField(keys) \in [DOMAIN keys \cap IndexedKey -> Spelling]
    BY RequestsAssumption DEF AsField
<1>2. AsField(keys) \in Labels(IndexedKey)
    BY <1>1 DEF Labels
<1>3. MandatoryKey \subseteq DOMAIN keys \cap IndexedKey
    BY DEF SchemaAccepts, MandatoryKey
<1>. QED BY <1>2, <1>3 DEF AsField, FieldKey

(* Identifiers take their values from the message and from the query.      *)
LEMMA KeyedType ==
    ASSUME NEW q, IsQuery(q), NEW m \in Message
    PROVE  /\ Keyed(q, m) \in [DOMAIN Keyed(q, m) -> Spelling]
           /\ \A k \in DOMAIN Keyed(q, m) :
                 Canonical[Keyed(q, m)[k]] \in {Canonical[v] : v \in ValuesOf[k]}
<1>1. /\ m \in [DOMAIN m -> Spelling]
      /\ \A k \in DOMAIN m : m[k] \in ValuesOf[k]
    BY DEF Message, Labels
<1>2. ASSUME NEW k \in SingleKeys(q)
      PROVE  /\ SingleValue(q, k) \in Spelling
             /\ Canonical[SingleValue(q, k)] \in {Canonical[v] : v \in ValuesOf[k]}
    <2>1. k \in DOMAIN q.vals /\ q.vals[k] # {} /\ q.vals[k] \subseteq ValuesOf[k]
          /\ ValuesOf[k] \subseteq Spelling
        BY RequestsAssumption DEF SingleKeys, IsQuery
    <2>2. Expanded(q)[k] \in {q.vals[k], {Canonical[v] : v \in q.vals[k]}}
          /\ Expanded(q)[k] # {}
        BY <2>1 DEF Expanded, Expansion, SingleKeys, IsQuery
    <2>3. SingleValue(q, k) \in Expanded(q)[k]
        BY <2>2 DEF SingleValue
    <2>4. PICK v \in q.vals[k] : SingleValue(q, k) \in {v, Canonical[v]}
        BY <2>1, <2>2, <2>3
    <2>. QED BY <2>1, <2>4, RequestsAssumption
<1>3. CASE ArchiveMode = "identifier"
    BY <1>1, <1>2, <1>3 DEF Keyed, Identifier
<1>4. CASE ArchiveMode # "identifier"
    BY <1>1, <1>4 DEF Keyed
<1>. QED BY <1>3, <1>4

(* The checks before the first archive fail.                               *)
Declined(t) == Len(Msgs(t)) # Expects(t) \/ Misfits(Asked(t), Msgs(t))

(* Whatever post-check inspects is part of what FDB has of the query.      *)
LEMMA InspectedFields ==
    ASSUME NEW t, NEW fields \in Inspected(t)
    PROVE  fields \in SUBSET Fields(Asked(t))
BY DEF Inspected

(* What a thread works on: a query of the grammar and a file of messages.  *)
LEMMA TaskTyped ==
    ASSUME TypeOK, NEW t \in Thread
    PROVE  /\ task[t] \in Task
           /\ IsQuery(Asked(t))
           /\ Len(Msgs(t)) \in Nat
           /\ \A i \in 1..Len(Msgs(t)) : Msgs(t)[i] \in Message
BY StoreAssumption DEF TypeOK, Task, Asked, Msgs

(* The message a thread archives next becomes a field of the schema.       *)
LEMMA NextIsField ==
    ASSUME TypeOK, NEW t \in Thread, sent[t] < Len(Msgs(t)),
           SchemaAccepts(KeysOfMsg(t, sent[t] + 1))
    PROVE  /\ AsField(KeysOfMsg(t, sent[t] + 1)) \in FieldKey
           /\ [job |-> task[t].job, msg |-> sent[t] + 1] \in Origin
<1> DEFINE keys == KeysOfMsg(t, sent[t] + 1)
<1>1. /\ IsQuery(Asked(t))
      /\ Msgs(t)[sent[t] + 1] \in Message
      /\ task[t].job \in Nat /\ sent[t] \in Nat
    <2>1. sent[t] \in Nat
        BY DEF TypeOK
    <2>2. /\ task[t] \in Task
          /\ IsQuery(Asked(t))
          /\ Len(Msgs(t)) \in Nat
          /\ \A i \in 1..Len(Msgs(t)) : Msgs(t)[i] \in Message
        BY TaskTyped
    <2>3. sent[t] + 1 \in 1..Len(Msgs(t))
        BY <2>1, <2>2
    <2>4. Msgs(t)[sent[t] + 1] \in Message
        BY <2>2, <2>3
    <2>5. task[t].job \in Nat
        BY <2>2 DEF Task
    <2>. QED BY <2>1, <2>2, <2>4, <2>5
<1>2. /\ keys \in [DOMAIN keys -> Spelling]
      /\ \A k \in DOMAIN keys :
            Canonical[keys[k]] \in {Canonical[v] : v \in ValuesOf[k]}
    <2>1. CASE task[t].kind = "plain"
        BY <1>1, <2>1 DEF KeysOfMsg, Message, Labels
    <2>2. CASE task[t].kind # "plain"
        BY <1>1, <2>2, KeyedType DEF KeysOfMsg
    <2>. QED BY <2>1, <2>2
<1>. QED BY <1>1, <1>2, AcceptedIsField DEF Origin

(* A flush leaves FDB's maps of the right type.                            *)
LEMMA PublishTyped ==
    ASSUME TypeOK, NEW new \in [FieldKey -> Origin], Publish(new)
    PROVE  stamp' \in [FieldKey -> Nat] /\ holds' \in [FieldKey -> Origin]
BY DEF TypeOK, Publish

(* An empty handle, and one with a single field, hold messages or nobody's.*)
LEMMA NothingTyped ==
    /\ Nothing \in [FieldKey -> Origin]
    /\ \A f \in FieldKey, from \in Origin : Only(f, from) \in [FieldKey -> Origin]
BY DEF Nothing, Only, Nobody, Origin

(* A lookup begins with no failed attempt.                                 *)
LEMMA BeginLookupTyped ==
    ASSUME TypeOK, NEW t \in Thread, NEW s \in Nat, BeginLookup(t, s)
    PROVE  /\ pc' \in [Thread -> PC]
           /\ since' \in [Thread -> Nat]
           /\ tries' \in [Thread -> 0..(MaxAttempts - 1)]
<1>1. 0 \in 0..(MaxAttempts - 1)
    BY StoreAssumption
<1>. QED BY <1>1 DEF BeginLookup, GoTo, TypeOK, PC

(* An error is one of the outcomes, and where it was raised is kept.        *)
LEMMA RaiseTyped ==
    ASSUME TypeOK, NEW t \in Thread, NEW in, NEW kind \in Outcome, Raise(t, in, kind)
    PROVE  /\ pc' \in [Thread -> PC]
           /\ outcome' \in [Thread -> Outcome]
           /\ denied' \subseteq [job : Nat, at : PC]
<1>1. task[t].job \in Nat /\ pc[t] \in PC
    BY DEF TypeOK, Task
<1>2. [job |-> task[t].job, at |-> pc[t]] \in [job : Nat, at : PC]
    BY <1>1
<1>3. denied' \subseteq denied \cup {[job |-> task[t].job, at |-> pc[t]]}
    BY DEF Raise
<1>4. denied' \subseteq [job : Nat, at : PC]
    BY <1>2, <1>3 DEF TypeOK
<1>5. pc' \in [Thread -> PC]
    BY DEF Raise, GoTo, TypeOK, PC
<1>6. outcome' \in [Thread -> Outcome]
    BY DEF Raise, TypeOK
<1>. QED BY <1>4, <1>5, <1>6

(* Initially every variable has its type.                                  *)
LEMMA InitTypeOK ==
    ASSUME Init PROVE TypeOK
BY NothingTyped, StoreAssumption
   DEF Init, TypeOK, Task, Side, PC, Outcome, Nobody, Origin

(* No step of a thread, of the clock or of a foreign writer disturbs a     *)
(* type.                                                                   *)
LEMMA NextTypeOK ==
    ASSUME TypeOK, [Next]_vars PROVE TypeOK'
<1>1. CASE Tick
    BY <1>1 DEF Tick, TypeOK, fdbVars
<1>2. CASE ForeignWrite
    <2>1. PICK f \in FieldKey : Publish(Only(f, Foreigner))
        BY <1>2 DEF ForeignWrite
    <2>2. stamp' \in [FieldKey -> Nat] /\ holds' \in [FieldKey -> Origin]
        BY <2>1, NothingTyped, PublishTyped DEF Foreigner, Origin
    <2>. QED BY <1>2, <2>2 DEF ForeignWrite, TypeOK
<1>3. ASSUME NEW t \in Thread, StartJob(t) PROVE TypeOK'
    <2>2. task' \in [Thread -> Task] /\ side' \in [Thread -> Side] /\ pc' \in [Thread -> PC]
        BY <1>3, StoreAssumption DEF StartJob, TypeOK, Task, Side, PC, GoTo
    <2>3. /\ ran' \in Nat /\ sent' \in [Thread -> Nat]
          /\ runTime' \in [Thread -> Nat \ {0}]
        BY <1>3 DEF StartJob, TypeOK
    <2>4. outcome' \in [Thread -> Outcome]
        BY <1>3 DEF StartJob, TypeOK, Outcome
    <2>5. UNCHANGED <<clock, fdbVars, since, tries, accepted, denied, foreign>>
        BY <1>3 DEF StartJob
    <2>. QED BY <2>2, <2>3, <2>4, <2>5 DEF TypeOK, fdbVars
<1>4. ASSUME NEW t \in Thread, Check(t) PROVE TypeOK'
    <2>1. CASE Declined(t)
        <3>1. Raise(t, side[t], "refused") /\ UNCHANGED since
            BY <1>4, <2>1 DEF Check, Declined
        <3>2. /\ pc' \in [Thread -> PC]
              /\ outcome' \in [Thread -> Outcome]
              /\ denied' \subseteq [job : Nat, at : PC]
            BY <3>1, RaiseTyped DEF Outcome
        <3>. QED BY <1>4, <3>1, <3>2 DEF Check, TypeOK, fdbVars, runVars
    <2>2. CASE ~ Declined(t)
        BY <1>4, <2>2 DEF Check, Declined, GoTo, TypeOK, PC, fdbVars, runVars
    <2>. QED BY <2>1, <2>2
<1>5. ASSUME NEW t \in Thread, ArchiveMessage(t) PROVE TypeOK'
    <2>1. Handle(t) \in Thread \X Side
        BY DEF TypeOK, Handle
    <2>2. buffer' \in [Thread \X Side -> [FieldKey -> Origin]]
        BY <1>5, <2>1, NextIsField DEF ArchiveMessage, Archive, TypeOK
    <2>3. sent' \in [Thread -> Nat]
        BY <1>5 DEF ArchiveMessage, TypeOK
    <2>. QED BY <1>5, <2>2, <2>3 DEF ArchiveMessage, TypeOK, runVars
<1>6. ASSUME NEW t \in Thread, ArchiveFails(t) PROVE TypeOK'
    <2>1. \/ Raise(t, side[t], "error")
          \/ GoTo(t, "rescue") /\ UNCHANGED <<outcome, denied>>
        BY <1>6 DEF ArchiveFails
    <2>2. /\ pc' \in [Thread -> PC]
          /\ outcome' \in [Thread -> Outcome]
          /\ denied' \subseteq [job : Nat, at : PC]
        BY <2>1, RaiseTyped DEF GoTo, TypeOK, PC, Outcome
    <2>. QED BY <1>6, <2>2 DEF ArchiveFails, TypeOK, fdbVars, runVars
<1>7. ASSUME NEW t \in Thread, Publish(buffer[Handle(t)])
      PROVE  stamp' \in [FieldKey -> Nat] /\ holds' \in [FieldKey -> Origin]
    BY <1>7, PublishTyped DEF TypeOK, Handle
<1>8. ASSUME NEW t \in Thread, Emptied(Handle(t))
      PROVE  buffer' \in [Thread \X Side -> [FieldKey -> Origin]]
    BY <1>8, NothingTyped DEF Emptied, TypeOK
<1>9. ASSUME NEW t \in Thread, Flush(t) PROVE TypeOK'
    <2>1. /\ pc' \in [Thread -> PC]
          /\ since' \in [Thread -> Nat]
          /\ tries' \in [Thread -> 0..(MaxAttempts - 1)]
        BY <1>9, BeginLookupTyped DEF Flush, TypeOK
    <2>. QED BY <1>7, <1>8, <1>9, <2>1 DEF Flush, TypeOK, runVars
<1>10. ASSUME NEW t \in Thread, FlushFails(t) PROVE TypeOK'
    BY <1>10 DEF FlushFails, GoTo, TypeOK, PC, fdbVars, runVars
<1>11. ASSUME NEW t \in Thread, Rescue(t) PROVE TypeOK'
    <2>1. /\ stamp' \in [FieldKey -> Nat] /\ holds' \in [FieldKey -> Origin]
          /\ buffer' \in [Thread \X Side -> [FieldKey -> Origin]]
        <3>1. (Publish(buffer[Handle(t)]) /\ Emptied(Handle(t))) \/ UNCHANGED fdbVars
            BY <1>11 DEF Rescue
        <3>2. CASE Publish(buffer[Handle(t)]) /\ Emptied(Handle(t))
            BY <3>2, <1>7, <1>8
        <3>3. CASE UNCHANGED fdbVars
            BY <3>3 DEF TypeOK, fdbVars
        <3>. QED BY <3>1, <3>2, <3>3
    <2>2. /\ pc' \in [Thread -> PC]
          /\ outcome' \in [Thread -> Outcome]
          /\ denied' \subseteq [job : Nat, at : PC]
        BY <1>11, RaiseTyped DEF Rescue, Outcome
    <2>. QED BY <1>11, <2>1, <2>2 DEF Rescue, TypeOK, runVars
<1>12. ASSUME NEW t \in Thread, InspectRetried(t) PROVE TypeOK'
    BY <1>12, StoreAssumption DEF InspectRetried, TypeOK, fdbVars, runVars
<1>13. ASSUME NEW t \in Thread, LookupFails(t) PROVE TypeOK'
    <2>1. /\ pc' \in [Thread -> PC]
          /\ outcome' \in [Thread -> Outcome]
          /\ denied' \subseteq [job : Nat, at : PC]
        BY <1>13, RaiseTyped DEF LookupFails, Outcome
    <2>. QED BY <1>13, <2>1 DEF LookupFails, TypeOK, fdbVars, runVars
<1>14. ASSUME NEW t \in Thread, PostCheckPasses(t) PROVE TypeOK'
    <2>1. accepted' \subseteq [query : Output, since : Nat, job : Nat]
        BY <1>14 DEF PostCheckPasses, TypeOK, Task
    <2>. QED BY <1>14, <2>1
             DEF PostCheckPasses, GoTo, TypeOK, PC, Outcome, fdbVars, runVars
<1>15. ASSUME NEW t \in Thread, PostCheckRejects(t) PROVE TypeOK'
    <2>1. /\ pc' \in [Thread -> PC]
          /\ outcome' \in [Thread -> Outcome]
          /\ denied' \subseteq [job : Nat, at : PC]
        BY <1>15, RaiseTyped DEF PostCheckRejects, Outcome
    <2>. QED BY <1>15, <2>1 DEF PostCheckRejects, TypeOK, fdbVars, runVars
<1>16. ASSUME NEW t \in Thread, CheckMarker(t) PROVE TypeOK'
    <2>1. \/ Raise(t, "store", "stay") /\ UNCHANGED <<since, tries>>
          \/ Raise(t, "store", "error") /\ UNCHANGED <<since, tries>>
          \/ BeginLookup(t, since[t]) /\ UNCHANGED <<outcome, denied>>
        BY <1>16 DEF CheckMarker
    <2>2. /\ pc' \in [Thread -> PC]
          /\ outcome' \in [Thread -> Outcome]
          /\ denied' \subseteq [job : Nat, at : PC]
          /\ since' \in [Thread -> Nat]
          /\ tries' \in [Thread -> 0..(MaxAttempts - 1)]
        <3>1. CASE BeginLookup(t, since[t]) /\ UNCHANGED <<outcome, denied>>
            <4>1. since[t] \in Nat
                BY DEF TypeOK
            <4>. QED BY <3>1, <4>1, BeginLookupTyped DEF TypeOK
        <3>2. CASE Raise(t, "store", "stay") /\ UNCHANGED <<since, tries>>
            BY <3>2, RaiseTyped DEF Outcome, TypeOK
        <3>3. CASE Raise(t, "store", "error") /\ UNCHANGED <<since, tries>>
            BY <3>3, RaiseTyped DEF Outcome, TypeOK
        <3>. QED BY <2>1, <3>1, <3>2, <3>3
    <2>3. /\ side' \in [Thread -> Side]
          /\ UNCHANGED <<fdbVars, runVars, task, sent, accepted>>
        BY <1>16 DEF CheckMarker, TypeOK, Side
    <2>. QED BY <2>2, <2>3 DEF TypeOK, fdbVars, runVars
<1>17. ASSUME NEW t \in Thread, PlainArchive(t) PROVE TypeOK'
    <2>1. stamp' \in [FieldKey -> Nat] /\ holds' \in [FieldKey -> Origin]
        BY <1>17, NextIsField, NothingTyped, PublishTyped DEF PlainArchive
    <2>. QED BY <1>17, <2>1 DEF PlainArchive, TypeOK, runVars
<1>18. ASSUME NEW t \in Thread, PlainDone(t) PROVE TypeOK'
    <2>1. /\ pc' \in [Thread -> PC]
          /\ since' \in [Thread -> Nat]
          /\ tries' \in [Thread -> 0..(MaxAttempts - 1)]
        BY <1>18, BeginLookupTyped DEF PlainDone, TypeOK
    <2>. QED BY <1>18, <2>1 DEF PlainDone, TypeOK, Side, fdbVars, runVars
<1>19. ASSUME NEW t \in Thread, JobExits(t) PROVE TypeOK'
    <2>1. stamp' \in [FieldKey -> Nat] /\ holds' \in [FieldKey -> Origin]
        BY <1>7, <1>19 DEF JobExits, TypeOK
    <2>. QED BY <1>8, <1>19, <2>1 DEF JobExits, GoTo, TypeOK, PC, runVars
<1>20. CASE UNCHANGED vars
    BY <1>20 DEF vars, TypeOK
<1>. QED
    BY <1>1, <1>2, <1>3, <1>4, <1>5, <1>6, <1>9, <1>10, <1>11, <1>12, <1>13, <1>14,
       <1>15, <1>16, <1>17, <1>18, <1>19, <1>20 DEF Next, ThreadStep

(* Type correctness of the write path.                                     *)
THEOREM TypeCorrect == Spec => []TypeOK
<1>1. Init => TypeOK
    BY InitTypeOK
<1>2. TypeOK /\ [Next]_vars => TypeOK'
    BY NextTypeOK
<1>. QED BY <1>1, <1>2, PTL DEF Spec

-----------------------------------------------------------------------------
(* FDB never forgets and its clock never runs back: a step leaves every    *)
(* field at least as recent as it was, and none is from the future.        *)
LEMMA StampsGrow ==
    ASSUME TypeOK, StampsNotAhead, [Next]_vars
    PROVE  /\ StampsNotAhead'
           /\ \A f \in FieldKey : stamp'[f] >= stamp[f]
<1> USE DEF TypeOK, StampsNotAhead
<1>1. ASSUME UNCHANGED stamp, clock' \in {clock, clock + 1}
      PROVE  /\ \A f \in FieldKey : stamp'[f] <= clock'
             /\ \A f \in FieldKey : stamp'[f] >= stamp[f]
    BY <1>1
<1>2. ASSUME NEW new, Publish(new), UNCHANGED clock
      PROVE  /\ \A f \in FieldKey : stamp'[f] <= clock'
             /\ \A f \in FieldKey : stamp'[f] >= stamp[f]
    BY <1>2 DEF Publish
<1>3. CASE Tick \/ UNCHANGED vars
    BY <1>1, <1>3 DEF Tick, fdbVars, vars
<1>4. CASE ForeignWrite
    BY <1>2, <1>4 DEF ForeignWrite
<1>5. ASSUME NEW t \in Thread, Flush(t) \/ Rescue(t) \/ PlainArchive(t) \/ JobExits(t)
      PROVE  /\ StampsNotAhead'
             /\ \A f \in FieldKey : stamp'[f] >= stamp[f]
    <2>1. UNCHANGED clock
        BY <1>5 DEF Flush, Rescue, PlainArchive, JobExits, runVars
    <2>2. UNCHANGED stamp \/ \E new : Publish(new)
        BY <1>5 DEF Flush, Rescue, PlainArchive, JobExits, fdbVars
    <2>. QED BY <1>1, <1>2, <2>1, <2>2
<1>6. ASSUME NEW t \in Thread,
             \/ StartJob(t) \/ Check(t) \/ ArchiveMessage(t) \/ ArchiveFails(t)
             \/ FlushFails(t) \/ InspectRetried(t) \/ LookupFails(t)
             \/ PostCheckPasses(t) \/ PostCheckRejects(t) \/ CheckMarker(t)
             \/ PlainDone(t)
      PROVE  UNCHANGED <<stamp, clock>>
    BY <1>6 DEF StartJob, Check, ArchiveMessage, ArchiveFails, FlushFails,
       InspectRetried, LookupFails, PostCheckPasses, PostCheckRejects, CheckMarker,
       PlainDone, fdbVars, runVars
<1>. QED BY <1>1, <1>3, <1>4, <1>5, <1>6 DEF Next, ThreadStep

(* The count of the messages is compared with the expansion before the     *)
(* first archive, and of a marker again in the store step.                 *)
LEMMA CountsStayMatched ==
    ASSUME TypeOK, CountsMatch, [Next]_vars
    PROVE  CountsMatch'
<1> USE DEF TypeOK, CountsMatch, Msgs
<1>1. CASE Tick \/ ForeignWrite \/ UNCHANGED vars
    BY <1>1 DEF Tick, ForeignWrite, vars
<1>2. ASSUME NEW t \in Thread, StartJob(t) PROVE CountsMatch'
    BY <1>2 DEF StartJob, GoTo
<1>3. ASSUME NEW t \in Thread, Check(t) PROVE CountsMatch'
    <2>1. UNCHANGED <<side, task>> /\ Asked(t) \in {task[t].query, task[t].under}
        BY <1>3 DEF Check, Asked
    <2>2. CASE Declined(t)
        BY <1>3, <2>1, <2>2 DEF Check, Declined, Raise, GoTo
    <2>3. CASE ~ Declined(t)
        <3>1. side[t] = "store" => Len(task[t].msgs) = Expected(task[t].query)
            BY <2>3 DEF Declined, Expects, Asked
        <3>. QED BY <1>3, <2>1, <2>3, <3>1 DEF Check, Declined, GoTo
    <2>. QED BY <2>2, <2>3
<1>4. ASSUME NEW t \in Thread, ArchiveMessage(t) \/ InspectRetried(t) \/ PlainArchive(t)
      PROVE  CountsMatch'
    BY <1>4 DEF ArchiveMessage, InspectRetried, PlainArchive
<1>5. ASSUME NEW t \in Thread,
             \/ ArchiveFails(t) \/ Rescue(t) \/ LookupFails(t) \/ PostCheckPasses(t)
             \/ PostCheckRejects(t) \/ JobExits(t)
      PROVE  CountsMatch'
    BY <1>5 DEF ArchiveFails, Rescue, LookupFails, PostCheckPasses, PostCheckRejects,
       JobExits, Raise, GoTo
<1>6. ASSUME NEW t \in Thread, Flush(t) \/ FlushFails(t) PROVE CountsMatch'
    BY <1>6 DEF Flush, FlushFails, BeginLookup, GoTo
<1>7. ASSUME NEW t \in Thread, CheckMarker(t) PROVE CountsMatch'
    BY <1>7 DEF CheckMarker, Raise, BeginLookup, GoTo
<1>8. ASSUME NEW t \in Thread, PlainDone(t) PROVE CountsMatch'
    BY <1>8 DEF PlainDone, BeginLookup, GoTo
<1>. QED BY <1>1, <1>2, <1>3, <1>4, <1>5, <1>6, <1>7, <1>8 DEF Next, ThreadStep

(* A store step is recorded as accepted only by its post-check, which then *)
(* saw every field of its query; later steps only make fields more recent. *)
LEMMA AcceptedStayComplete ==
    ASSUME StoreInv, [Next]_vars
    PROVE  StoredIsComplete'
<1> SUFFICES ASSUME SchemaReadable, NEW a \in accepted', Expandable(a.query),
                    NEW f \in Named(a.query)
             PROVE  f \in FieldKey /\ stamp'[f] > 0 /\ stamp'[f] >= a.since
    BY DEF StoredIsComplete
<1>1. /\ \A g \in FieldKey : stamp'[g] >= stamp[g]
      /\ stamp \in [FieldKey -> Nat] /\ stamp' \in [FieldKey -> Nat]
    BY StampsGrow, NextTypeOK DEF StoreInv, TypeOK
<1>2. SUFFICES f \in FieldKey /\ stamp[f] > 0 /\ stamp[f] >= a.since /\ a.since \in Nat
    BY <1>1
<1>3. CASE a \in accepted
    BY <1>3 DEF StoreInv, StoredIsComplete, TypeOK
<1>4. CASE a \notin accepted
    <2>1. \E t \in Thread : PostCheckPasses(t)
        BY <1>4 DEF Next, ThreadStep, Tick, ForeignWrite, StartJob, Check,
           ArchiveMessage, ArchiveFails, Flush, FlushFails, Rescue, InspectRetried,
           LookupFails, PostCheckRejects, CheckMarker, PlainArchive, PlainDone,
           JobExits, vars
    <2>2. PICK t \in Thread :
            /\ PostCheckPasses(t)
            /\ side[t] # "job"
            /\ a = [query |-> task[t].query, since |-> since[t], job |-> task[t].job]
        BY <1>4, <2>1 DEF PostCheckPasses
    <2>3. /\ side[t] = "store" /\ since[t] \in Nat /\ task[t] \in Task
          /\ IsQuery(task[t].query) /\ Asked(t) = task[t].query
        BY <2>2, StoreAssumption DEF StoreInv, TypeOK, Side, Task, Asked
    <2>4. Wanted(t) = Expected(task[t].query)
        BY <2>2, <2>3 DEF PostCheckPasses, Wanted, StoreInv, CountsMatch
    <2>5. PICK fields \in SUBSET Fields(task[t].query) :
            Cardinality(Fresh(fields, since[t])) >= Expected(task[t].query)
        BY <2>2, <2>3, <2>4, InspectedFields DEF PostCheckPasses, Enough
    <2>. QED BY <1>1, <2>2, <2>3, <2>5, EnoughIsAll
<1>. QED BY <1>3, <1>4

(* The seconds the checks ask for are taken from FDB's clock.              *)
LEMMA SinceStaysReached ==
    ASSUME TypeOK, SinceReached, [Next]_vars
    PROVE  SinceReached'
<1> USE DEF TypeOK, SinceReached
<1>1. CASE Tick \/ ForeignWrite \/ UNCHANGED vars
    BY <1>1 DEF Tick, ForeignWrite, vars
<1>2. ASSUME NEW t \in Thread, StartJob(t) PROVE SinceReached'
    <2>1. \A u \in Thread : pc'[u] = pc[u] \/ pc'[u] \in {"plain", "check"}
        BY <1>2 DEF StartJob, GoTo
    <2>2. UNCHANGED <<since, clock>>
        BY <1>2 DEF StartJob
    <2>3. \A u \in Thread : runTime'[u] <= clock
        BY <1>2 DEF StartJob
    <2>. QED BY <2>1, <2>2, <2>3
<1>3. ASSUME NEW t \in Thread, Check(t) PROVE SinceReached'
    <2>1. CASE Declined(t)
        BY <1>3, <2>1 DEF Check, Declined, Raise, GoTo, runVars
    <2>2. CASE ~ Declined(t)
        <3>1. /\ UNCHANGED <<clock, runTime>> /\ since' = [since EXCEPT ![t] = clock]
              /\ pc' = [pc EXCEPT ![t] = "archive"]
            BY <1>3, <2>2 DEF Check, Declined, GoTo, runVars
        <3>. QED BY <3>1
    <2>. QED BY <2>1, <2>2
<1>4. ASSUME NEW t \in Thread, ArchiveMessage(t) \/ InspectRetried(t) \/ PlainArchive(t)
      PROVE  SinceReached'
    BY <1>4 DEF ArchiveMessage, InspectRetried, PlainArchive, runVars
<1>5. ASSUME NEW t \in Thread,
             \/ ArchiveFails(t) \/ Rescue(t) \/ LookupFails(t) \/ PostCheckPasses(t)
             \/ PostCheckRejects(t) \/ JobExits(t)
      PROVE  SinceReached'
    <2>1. UNCHANGED <<since, clock, runTime>>
        BY <1>5 DEF ArchiveFails, Rescue, LookupFails, PostCheckPasses, PostCheckRejects,
           JobExits, runVars
    <2>2. pc[t] \in {"archive", "rescue", "inspect", "exit"}
        BY <1>5 DEF ArchiveFails, Rescue, LookupFails, PostCheckPasses, PostCheckRejects,
           JobExits
    <2>3. pc'[t] \in {"archive", "rescue", "inspect", "marker"} => pc[t] # "exit"
        BY <1>5 DEF ArchiveFails, Rescue, LookupFails, PostCheckPasses, PostCheckRejects,
           JobExits, Raise, GoTo
    <2>4. \A u \in Thread : u # t => pc'[u] = pc[u]
        BY <1>5 DEF ArchiveFails, Rescue, LookupFails, PostCheckPasses, PostCheckRejects,
           JobExits, Raise, GoTo
    <2>. QED BY <2>1, <2>2, <2>3, <2>4
<1>6. ASSUME NEW t \in Thread, Flush(t) \/ FlushFails(t) PROVE SinceReached'
    BY <1>6 DEF Flush, FlushFails, BeginLookup, GoTo, runVars
<1>7. ASSUME NEW t \in Thread, CheckMarker(t) PROVE SinceReached'
    BY <1>7 DEF CheckMarker, Raise, BeginLookup, GoTo, runVars
<1>8. ASSUME NEW t \in Thread, PlainDone(t) PROVE SinceReached'
    BY <1>8 DEF PlainDone, BeginLookup, GoTo, runVars
<1>. QED BY <1>1, <1>2, <1>3, <1>4, <1>5, <1>6, <1>7, <1>8 DEF Next, ThreadStep

(* The inductive invariant holds initially and is kept by every step.      *)
LEMMA StoreInvHolds ==
    /\ Init => StoreInv
    /\ StoreInv /\ [Next]_vars => StoreInv'
<1>1. Init => StoreInv
    <2> SUFFICES ASSUME Init PROVE StoreInv
        OBVIOUS
    <2>1. StampsNotAhead /\ CountsMatch /\ SinceReached /\ StoredIsComplete
        BY DEF Init, StampsNotAhead, CountsMatch, SinceReached, StoredIsComplete
    <2>. QED BY <2>1, InitTypeOK DEF StoreInv
<1>2. StoreInv /\ [Next]_vars => StoreInv'
    BY NextTypeOK, StampsGrow, CountsStayMatched, SinceStaysReached,
       AcceptedStayComplete DEF StoreInv
<1>. QED BY <1>1, <1>2

(* What a store step reports as stored is in FDB, complete and not older   *)
(* than the check asks for, from then on.                                  *)
THEOREM StoredStaysComplete == Spec => []StoredIsComplete
<1>1. StoreInv => StoredIsComplete
    BY DEF StoreInv
<1>. QED BY <1>1, StoreInvHolds, PTL DEF Spec

-----------------------------------------------------------------------------
(* The abstract store's copies of the definitions mean the same.           *)
LEMMA MaskingMeaning ==
    /\ \A S : Masking!Cardinality(S) = Cardinality(S)
    /\ Masking!FieldKey = FieldKey
    /\ \A q : Masking!Named(q) = Named(q)
    /\ \A q : Masking!Expected(q) = Expected(q)
<1>0. \A S : Masking!Cardinality(S) = Cardinality(S)
    BY DEF Masking!Cardinality, Cardinality
<1>1. Masking!FieldKey = FieldKey
    BY DEF Masking!FieldKey, FieldKey, Masking!Labels, Labels, Masking!IndexedKey,
       IndexedKey, Masking!MandatoryKey, MandatoryKey
<1>2. \A q : Masking!Named(q) = Named(q)
    BY DEF Masking!Named, Named, Masking!IndexedKey, IndexedKey
<1>3. \A q : Masking!Expanded(q) = Expanded(q)
    BY DEF Masking!Expanded, Expanded, Masking!Expansion, Expansion
<1>4. \A q : Masking!Expected(q) = Expected(q)
    BY <1>0, <1>3 DEF Masking!Expected, Expected, Masking!Combinations, Combinations
<1>. QED BY <1>0, <1>1, <1>2, <1>4

(* Whatever a flush publishes, the abstract store writes some fields.      *)
LEMMA PublishMasks ==
    ASSUME NEW new, Publish(new), UNCHANGED <<clock, accepted>>
    PROVE  Masking!MaskWrite
<1> DEFINE F == {f \in FieldKey : new[f] # Nobody}
<1>1. stamp' = [f \in FieldKey |-> IF f \in F THEN clock ELSE stamp[f]]
    BY DEF Publish
<1>2. UNCHANGED Checked
    BY DEF Checked
<1>. QED BY <1>1, <1>2, MaskingMeaning DEF Masking!MaskWrite, Masking!Masks

(* A post-check that passes is the abstract store's acceptance, if the     *)
(* plugin can check the output at all.                                     *)
LEMMA PassingAccepts ==
    ASSUME StoreInv, NEW t \in Thread, PostCheckPasses(t)
    PROVE  [Masking!MaskNext]_(Masking!maskVars)
<1> DEFINE q == task[t].query
           new == [query |-> q, since |-> since[t], job |-> task[t].job]
<1>1. UNCHANGED <<clock, stamp>>
    BY DEF PostCheckPasses, fdbVars, runVars
<1>2. CASE side[t] = "job" \/ ~ (SchemaReadable /\ Expandable(q))
    <2>1. UNCHANGED Checked
        BY <1>2 DEF PostCheckPasses, Checked
    <2>. QED BY <1>1, <2>1 DEF Masking!maskVars
<1>3. CASE side[t] # "job" /\ SchemaReadable /\ Expandable(q)
    <2>1. /\ since[t] \in 1..clock /\ since[t] \in Nat /\ clock \in Nat
          /\ q \in Output /\ IsQuery(q) /\ Asked(t) = q
          /\ stamp \in [FieldKey -> Nat]
        BY <1>3, StoreAssumption
           DEF StoreInv, TypeOK, SinceReached, Side, Task, Asked, PostCheckPasses
    <2>2. PICK fields \in SUBSET Fields(q) :
            Cardinality(Fresh(fields, since[t])) >= Expected(q)
        <3>1. Wanted(t) = Expected(q)
            BY <1>3 DEF PostCheckPasses, Wanted, StoreInv, CountsMatch, TypeOK, Side
        <3>. QED BY <2>1, <3>1, InspectedFields DEF PostCheckPasses, Enough
    <2>3. /\ Cardinality(Named(q)) = Expected(q)
          /\ \A f \in Named(q) : f \in FieldKey /\ stamp[f] >= since[t]
        BY <1>3, <2>1, <2>2, EnoughIsAll
    <2>4. Masking!Stored(q, since[t])
        BY <2>3, MaskingMeaning DEF Masking!Stored
    <2>5. Checked' = Checked \cup {new}
        BY <1>3 DEF PostCheckPasses, Checked
    <2>6. {[query |-> a.query, since |-> a.since] : a \in Checked'}
            = {[query |-> a.query, since |-> a.since] : a \in Checked}
                \cup {[query |-> q, since |-> since[t]]}
        <3>1. \A a : a \in Checked' <=> a \in Checked \/ a = new
            BY <2>5
        <3>2. new.query = q /\ new.since = since[t]
            OBVIOUS
        <3>. HIDE DEF new
        <3>. QED BY <3>1, <3>2
    <2>7. \E p \in Output, s \in 1..clock : Masking!MaskAccept(p, s)
        BY <1>1, <2>1, <2>4, <2>6 DEF Masking!MaskAccept
    <2>. QED BY <2>7, Zenon DEF Masking!MaskNext
<1>. QED BY <1>2, <1>3

(* Every step of the write path is one of the abstract store, or none.     *)
LEMMA StepImplementsMasking ==
    ASSUME StoreInv, [Next]_vars
    PROVE  [Masking!MaskNext]_(Masking!maskVars)
<1>1. ASSUME UNCHANGED <<clock, stamp, accepted>>
      PROVE  UNCHANGED Masking!maskVars
    BY <1>1 DEF Masking!maskVars, Checked
<1>2. CASE Tick
    <2>1. UNCHANGED <<stamp, Checked>> /\ clock' = clock + 1
        BY <1>2 DEF Tick, fdbVars, Checked
    <2>. QED BY <2>1 DEF Masking!MaskNext, Masking!MaskTick
<1>3. CASE ForeignWrite
    BY <1>3, PublishMasks DEF ForeignWrite, Masking!MaskNext
<1>4. ASSUME NEW t \in Thread, Flush(t) \/ Rescue(t) \/ PlainArchive(t) \/ JobExits(t)
      PROVE  [Masking!MaskNext]_(Masking!maskVars)
    <2>1. UNCHANGED <<clock, accepted>>
        BY <1>4 DEF Flush, Rescue, PlainArchive, JobExits, runVars
    <2>2. UNCHANGED stamp \/ \E new : Publish(new)
        BY <1>4 DEF Flush, Rescue, PlainArchive, JobExits, fdbVars
    <2>. QED BY <1>1, <2>1, <2>2, PublishMasks DEF Masking!MaskNext
<1>5. ASSUME NEW t \in Thread, PostCheckPasses(t)
      PROVE  [Masking!MaskNext]_(Masking!maskVars)
    BY <1>5, PassingAccepts
<1>6. ASSUME NEW t \in Thread,
             \/ StartJob(t) \/ Check(t) \/ ArchiveMessage(t) \/ ArchiveFails(t)
             \/ FlushFails(t) \/ InspectRetried(t) \/ LookupFails(t)
             \/ PostCheckRejects(t) \/ CheckMarker(t) \/ PlainDone(t)
      PROVE  UNCHANGED <<clock, stamp, accepted>>
    BY <1>6 DEF StartJob, Check, ArchiveMessage, ArchiveFails, FlushFails,
       InspectRetried, LookupFails, PostCheckRejects, CheckMarker, PlainDone,
       fdbVars, runVars
<1>7. CASE UNCHANGED vars
    BY <1>1, <1>7 DEF vars
<1>. QED BY <1>1, <1>2, <1>3, <1>4, <1>5, <1>6, <1>7 DEF Next, ThreadStep

(* The write path implements the abstract store, for every schema, every   *)
(* set of outputs and files, any number of threads and all faults.         *)
THEOREM StoreRefines == Spec => ImplementsMasking
<1>1. Init => Masking!MaskInit
    BY MaskingMeaning DEF Init, Masking!MaskInit, Checked
<1>2. StoreInv /\ [Next]_vars => [Masking!MaskNext]_(Masking!maskVars)
    BY StepImplementsMasking
<1>. QED BY <1>1, <1>2, StoreInvHolds, PTL
         DEF Spec, ImplementsMasking, Masking!MaskSpec
-----------------------------------------------------------------------------
(* A flush or an exit empties the handle in use; a spawned process starts  *)
(* with empty ones.  Nothing else touches a handle but archiving.          *)
LEMMA HandlesStayHeld ==
    ASSUME ArchiveMode = "identifier", "flush" \notin Faults,
           TypeOK, HandlesHold, [Next]_vars
    PROVE  HandlesHold'
<1> USE DEF TypeOK, HandlesHold
<1>1. CASE Tick \/ ForeignWrite \/ UNCHANGED vars
    BY <1>1 DEF Tick, ForeignWrite, vars, fdbVars
<1>2. ASSUME NEW t \in Thread,
             \/ StartJob(t) \/ Check(t) \/ InspectRetried(t) \/ LookupFails(t)
             \/ PostCheckPasses(t) \/ PostCheckRejects(t) \/ CheckMarker(t)
             \/ PlainArchive(t) \/ PlainDone(t)
      PROVE  HandlesHold'
    <2>1. \A s \in Side : buffer[<<t, s>>] = Nothing
        BY <1>2 DEF StartJob, Check, InspectRetried, LookupFails, PostCheckPasses,
           PostCheckRejects, CheckMarker, PlainArchive, PlainDone
    <2>2. buffer' = buffer
        BY <1>2 DEF StartJob, Check, InspectRetried, LookupFails, PostCheckPasses,
           PostCheckRejects, CheckMarker, PlainArchive, PlainDone, fdbVars
    <2>3. \A u \in Thread, s \in Side :
            /\ u # t => buffer'[<<u, s>>] = buffer[<<u, s>>]
            /\ buffer'[<<t, s>>] = Nothing
        BY <2>1, <2>2
    <2>4. \A u \in Thread : u # t => pc'[u] = pc[u] /\ side'[u] = side[u] /\ sent'[u] = sent[u]
        BY <1>2 DEF StartJob, Check, InspectRetried, LookupFails, PostCheckPasses,
           PostCheckRejects, CheckMarker, PlainArchive, PlainDone, Raise, BeginLookup, GoTo
    <2>. QED BY <2>3, <2>4
<1>3. ASSUME NEW t \in Thread, Flush(t) \/ Rescue(t) \/ JobExits(t)
      PROVE  HandlesHold'
    <2>1. Emptied(Handle(t))
        BY <1>3 DEF Flush, Rescue, JobExits
    <2>2. \A u \in Thread, s \in Side :
            /\ <<u, s>> # <<t, side[t]>> => buffer'[<<u, s>>] = buffer[<<u, s>>]
            /\ buffer'[<<t, side[t]>>] = Nothing
        BY <2>1 DEF Emptied, Handle
    <2>3. \A u \in Thread : u # t => pc'[u] = pc[u]
        BY <1>3 DEF Flush, Rescue, JobExits, Raise, BeginLookup, GoTo
    <2>4. UNCHANGED <<side, sent>>
        BY <1>3 DEF Flush, Rescue, JobExits
    <2>. QED BY <2>2, <2>3, <2>4
<1>4. ASSUME NEW t \in Thread, ArchiveMessage(t) PROVE HandlesHold'
    <2>1. \A u \in Thread, s \in Side :
            <<u, s>> # <<t, side[t]>> => buffer'[<<u, s>>] = buffer[<<u, s>>]
        BY <1>4 DEF ArchiveMessage, Archive, Handle
    <2>2. pc[t] = "archive" /\ sent'[t] > 0 /\ UNCHANGED <<pc, side>>
        BY <1>4 DEF ArchiveMessage
    <2>3. \A u \in Thread : u # t => sent'[u] = sent[u]
        BY <1>4 DEF ArchiveMessage
    <2>4. ASSUME NEW u \in Thread, NEW s \in Side, buffer'[<<u, s>>] # Nothing
          PROVE  /\ s = side'[u]
                 /\ \/ pc'[u] \in {"rescue", "exit"}
                    \/ pc'[u] = "archive" /\ sent'[u] > 0
        <3>1. CASE u = t /\ s = side[t]
            BY <2>2, <3>1
        <3>2. CASE u = t /\ s # side[t]
            BY <2>1, <2>4, <3>2
        <3>3. CASE u # t
            BY <2>1, <2>2, <2>3, <2>4, <3>3
        <3>. QED BY <3>1, <3>2, <3>3
    <2>. QED BY <2>4
<1>5. ASSUME NEW t \in Thread, ArchiveFails(t) PROVE HandlesHold'
    <2>0. pc[t] = "archive" /\ sent[t] \in Nat
        BY <1>5 DEF ArchiveFails
    <2>1. sent[t] > 0 => pc'[t] = "rescue"
        BY <1>5 DEF ArchiveFails, Archived, GoTo
    <2>2. ~ sent[t] > 0 => \A s \in Side : buffer[<<t, s>>] = Nothing
        BY <2>0
    <2>3. \A u \in Thread : u # t => pc'[u] = pc[u]
        BY <1>5 DEF ArchiveFails, Raise, GoTo
    <2>4. UNCHANGED <<buffer, side, sent>>
        BY <1>5 DEF ArchiveFails, fdbVars
    <2>5. ASSUME NEW u \in Thread, NEW s \in Side, buffer'[<<u, s>>] # Nothing
          PROVE  /\ s = side'[u]
                 /\ \/ pc'[u] \in {"rescue", "exit"}
                    \/ pc'[u] = "archive" /\ sent'[u] > 0
        <3>1. CASE u = t
            BY <2>0, <2>1, <2>2, <2>4, <2>5, <3>1
        <3>2. CASE u # t
            BY <2>3, <2>4, <2>5, <3>2
        <3>. QED BY <3>1, <3>2
    <2>. QED BY <2>5
<1>6. ASSUME NEW t \in Thread, FlushFails(t) PROVE HandlesHold'
    BY <1>6 DEF FlushFails
<1>. QED BY <1>1, <1>2, <1>3, <1>4, <1>5, <1>6 DEF Next, ThreadStep

(* With identifiers, and as long as flushes succeed, a thread never leaves *)
(* messages of a job in the handle its next job uses.                      *)
THEOREM HandlesAreFlushed ==
    ASSUME ArchiveMode = "identifier", "flush" \notin Faults
    PROVE  Spec => []HandlesFlushed
<1>1. Init => TypeOK /\ HandlesHold
    BY InitTypeOK DEF Init, HandlesHold
<1>2. TypeOK /\ HandlesHold /\ [Next]_vars => TypeOK' /\ HandlesHold'
    BY NextTypeOK, HandlesStayHeld
<1>3. HandlesHold => HandlesFlushed
    BY DEF HandlesHold, HandlesFlushed, Side
<1>. QED BY <1>1, <1>2, <1>3, PTL DEF Spec
-----------------------------------------------------------------------------
(* Every place in the code follows from the kind of the job.               *)
LEMMA PlacesStayKnown ==
    ASSUME TypeOK, PlacesKnown, [Next]_vars
    PROVE  PlacesKnown'
<1> USE DEF TypeOK, PlacesKnown
<1>1. CASE Tick \/ ForeignWrite \/ UNCHANGED vars
    BY <1>1 DEF Tick, ForeignWrite, vars
<1>2. ASSUME NEW t \in Thread, StartJob(t) PROVE PlacesKnown'
    BY <1>2 DEF StartJob, GoTo
<1>3. ASSUME NEW t \in Thread, Check(t) PROVE PlacesKnown'
    BY <1>3 DEF Check, Raise, GoTo, Side
<1>4. ASSUME NEW t \in Thread, ArchiveMessage(t) \/ InspectRetried(t) \/ PlainArchive(t)
      PROVE  PlacesKnown'
    BY <1>4 DEF ArchiveMessage, InspectRetried, PlainArchive
<1>5. ASSUME NEW t \in Thread,
             ArchiveFails(t) \/ Rescue(t) \/ LookupFails(t) \/ PostCheckRejects(t)
      PROVE  PlacesKnown'
    BY <1>5 DEF ArchiveFails, Rescue, LookupFails, PostCheckRejects, Raise, GoTo, Side
<1>6. ASSUME NEW t \in Thread, Flush(t) \/ FlushFails(t) \/ PlainDone(t)
      PROVE  PlacesKnown'
    BY <1>6 DEF Flush, FlushFails, PlainDone, BeginLookup, GoTo
<1>7. ASSUME NEW t \in Thread, PostCheckPasses(t) PROVE PlacesKnown'
    BY <1>7 DEF PostCheckPasses, GoTo
<1>8. ASSUME NEW t \in Thread, CheckMarker(t) PROVE PlacesKnown'
    BY <1>8 DEF CheckMarker, Raise, BeginLookup, GoTo
<1>9. ASSUME NEW t \in Thread, JobExits(t) PROVE PlacesKnown'
    BY <1>9 DEF JobExits, GoTo
<1>. QED BY <1>1, <1>2, <1>3, <1>4, <1>5, <1>6, <1>7, <1>8, <1>9 DEF Next, ThreadStep

(* A message FDB newly returns comes from a foreign writer, from the       *)
(* handle of the thread that flushed, or from a job with plain pyfdb.      *)
LEMMA PublishedFrom ==
    ASSUME TypeOK, PlacesKnown, [Next]_vars, NEW f \in FieldKey, holds'[f] # holds[f]
    PROVE  \/ ForeignWrite /\ holds'[f] = Foreigner
           \/ \E t \in Thread :
                \/ /\ Flush(t) \/ Rescue(t) \/ JobExits(t)
                   /\ holds'[f] = buffer[Handle(t)][f]
                \/ /\ PlainArchive(t) /\ f = AsField(KeysOfMsg(t, sent[t] + 1))
                   /\ holds'[f] = [job |-> task[t].job, msg |-> sent[t] + 1]
                   /\ holds'[f].job = task[t].job
<1>1. ASSUME NEW new, Publish(new) PROVE holds'[f] = new[f] /\ new[f] # Nobody
    BY <1>1 DEF Publish
<1>2. CASE ForeignWrite
    <2>1. PICK g \in FieldKey : Publish(Only(g, Foreigner))
        BY <1>2 DEF ForeignWrite
    <2>. QED BY <1>1, <1>2, <2>1 DEF Only, Nothing
<1>3. ASSUME NEW t \in Thread, Flush(t) \/ Rescue(t) \/ JobExits(t)
      PROVE  holds'[f] = buffer[Handle(t)][f]
    <2>1. UNCHANGED holds \/ Publish(buffer[Handle(t)])
        BY <1>3 DEF Flush, Rescue, JobExits, fdbVars
    <2>. QED BY <1>1, <2>1
<1>4. ASSUME NEW t \in Thread, PlainArchive(t)
      PROVE  /\ f = AsField(KeysOfMsg(t, sent[t] + 1))
             /\ holds'[f] = [job |-> task[t].job, msg |-> sent[t] + 1]
             /\ holds'[f].job = task[t].job
    <2> DEFINE g == AsField(KeysOfMsg(t, sent[t] + 1))
               own == [job |-> task[t].job, msg |-> sent[t] + 1]
    <2>1. Publish(Only(g, own))
        BY <1>4 DEF PlainArchive
    <2>2. g \in FieldKey
        BY <1>4, NextIsField DEF PlainArchive
    <2>. QED BY <1>1, <2>1, <2>2 DEF Only, Nothing
<1>5. ASSUME NEW t \in Thread,
             \/ StartJob(t) \/ Check(t) \/ ArchiveMessage(t) \/ ArchiveFails(t)
             \/ FlushFails(t) \/ InspectRetried(t) \/ LookupFails(t)
             \/ PostCheckPasses(t) \/ PostCheckRejects(t) \/ CheckMarker(t)
             \/ PlainDone(t)
      PROVE  UNCHANGED holds
    BY <1>5 DEF StartJob, Check, ArchiveMessage, ArchiveFails, FlushFails,
       InspectRetried, LookupFails, PostCheckPasses, PostCheckRejects, CheckMarker,
       PlainDone, fdbVars
<1>6. CASE Tick \/ UNCHANGED vars
    BY <1>6 DEF Tick, fdbVars, vars
<1>. QED BY <1>2, <1>3, <1>4, <1>5, <1>6 DEF Next, ThreadStep

(* Only archiving puts a message into a handle: one of the thread's job.   *)
LEMMA HandlesFrom ==
    ASSUME TypeOK, [Next]_vars, NEW h \in Thread \X Side, NEW f \in FieldKey,
           buffer'[h][f] # buffer[h][f]
    PROVE  \/ buffer'[h][f] = Nobody
           \/ /\ ArchiveMessage(h[1]) /\ f = AsField(KeysOfMsg(h[1], sent[h[1]] + 1))
              /\ buffer'[h][f] = [job |-> task[h[1]].job, msg |-> sent[h[1]] + 1]
<1>1. ASSUME NEW g, Emptied(g) PROVE buffer'[h][f] = Nobody
    BY <1>1 DEF Emptied, TypeOK, Nothing
<1>2. ASSUME NEW t \in Thread, ArchiveMessage(t)
      PROVE  /\ h[1] = t /\ f = AsField(KeysOfMsg(t, sent[t] + 1))
             /\ buffer'[h][f] = [job |-> task[t].job, msg |-> sent[t] + 1]
    <2>1. /\ h = Handle(t) /\ f = AsField(KeysOfMsg(t, sent[t] + 1))
          /\ buffer'[h][f] = [job |-> task[t].job, msg |-> sent[t] + 1]
        BY <1>2 DEF ArchiveMessage, Archive, TypeOK, Handle
    <2>. QED BY <2>1 DEF Handle
<1>3. ASSUME NEW t \in Thread,
             StartJob(t) \/ Flush(t) \/ Rescue(t) \/ JobExits(t)
      PROVE  UNCHANGED buffer \/ \E g : Emptied(g)
    BY <1>3 DEF StartJob, Flush, Rescue, JobExits, fdbVars
<1>4. ASSUME NEW t \in Thread,
             \/ Check(t) \/ ArchiveFails(t) \/ FlushFails(t) \/ InspectRetried(t)
             \/ LookupFails(t) \/ PostCheckPasses(t) \/ PostCheckRejects(t)
             \/ CheckMarker(t) \/ PlainArchive(t) \/ PlainDone(t)
      PROVE  UNCHANGED buffer
    BY <1>4 DEF Check, ArchiveFails, FlushFails, InspectRetried, LookupFails,
       PostCheckPasses, PostCheckRejects, CheckMarker, PlainArchive, PlainDone, fdbVars
<1>5. CASE Tick \/ ForeignWrite \/ UNCHANGED vars
    BY <1>5 DEF Tick, ForeignWrite, fdbVars, vars
<1>. QED BY <1>1, <1>2, <1>3, <1>4, <1>5 DEF Next, ThreadStep

(* Only the start of a job changes what a thread works on.                 *)
LEMMA TasksStay ==
    ASSUME TypeOK, [Next]_vars
    PROVE  \/ UNCHANGED <<task, ran>>
           \/ \E t \in Thread :
                /\ StartJob(t)
                /\ ran' = ran + 1 /\ task'[t].job = ran + 1
                /\ \A u \in Thread : u # t => task'[u] = task[u]
<1>1. ASSUME NEW t \in Thread, StartJob(t)
      PROVE  /\ ran' = ran + 1 /\ task'[t].job = ran + 1
             /\ \A u \in Thread : u # t => task'[u] = task[u]
    <2>1. PICK kind \in JobKinds, q \in Output, p \in Output : \E msgs \in FilesOf[p] :
            task' = [task EXCEPT ![t] = [job |-> ran + 1, kind |-> kind, query |-> q,
                                         under |-> p, msgs |-> msgs]]
        BY <1>1 DEF StartJob
    <2>2. task'[t].job = ran + 1 /\ \A u \in Thread : u # t => task'[u] = task[u]
        BY <2>1 DEF TypeOK
    <2>. QED BY <1>1, <2>2 DEF StartJob
<1>2. ASSUME NEW t \in Thread, ThreadStep(t)
      PROVE  UNCHANGED <<task, ran>>
    BY <1>2 DEF ThreadStep, Check, ArchiveMessage, ArchiveFails, Flush, FlushFails,
       Rescue, InspectRetried, LookupFails, PostCheckPasses, PostCheckRejects,
       CheckMarker, PlainArchive, PlainDone, JobExits, runVars
<1>3. CASE Tick \/ ForeignWrite \/ UNCHANGED vars
    BY <1>3 DEF Tick, ForeignWrite, vars
<1>. QED BY <1>1, <1>2, <1>3 DEF Next

(* Jobs are numbered as they start, so that nothing of a new one is        *)
(* anywhere yet.                                                           *)
LEMMA JobsStayApart ==
    ASSUME TypeOK, PlacesKnown, JobsApart, [Next]_vars
    PROVE  JobsApart'
<1> USE DEF JobsApart
<1>1. /\ ran \in Nat /\ ran' \in Nat /\ ran' >= ran
      /\ \A t \in Thread : task[t].job \in Nat
    BY TasksStay DEF TypeOK, Task
<1>2. \A t \in Thread : task'[t].job = task[t].job \/ (task'[t].job = ran + 1 /\ ran' = ran + 1)
    BY TasksStay
<1>3. \A t, u \in Thread : t # u => task'[t] = task[t] \/ task'[u] = task[u]
    BY TasksStay
<1>4. \A t, u \in Thread : task'[t].job = task'[u].job /\ task'[t].job > 0 => t = u
    BY <1>1, <1>2, <1>3
<1>5. ASSUME NEW f \in FieldKey PROVE holds'[f].job <= ran
    <2>1. Foreigner.job <= ran
        BY <1>1 DEF Foreigner
    <2>2. \A t \in Thread : Handle(t) \in Thread \X Side
        BY DEF TypeOK, Handle
    <2>3. \/ holds'[f] \in {holds[f], Foreigner}
          \/ \E t \in Thread :
               holds'[f] = buffer[Handle(t)][f] \/ holds'[f].job = task[t].job
        BY PublishedFrom
    <2>. QED BY <2>1, <2>2, <2>3
<1>6. ASSUME NEW h \in Thread \X Side, NEW f \in FieldKey
      PROVE  /\ buffer'[h][f].job <= ran
             /\ \A t \in Thread :
                  buffer'[h][f].job = task'[t].job /\ task'[t].job > 0 => h[1] = t
    <2>1. CASE buffer'[h][f] = buffer[h][f]
        BY <1>1, <1>2, <2>1
    <2>2. CASE buffer'[h][f] = Nobody
        BY <1>1, <2>2 DEF Nobody
    <2>3. CASE /\ ArchiveMessage(h[1])
               /\ buffer'[h][f] = [job |-> task[h[1]].job, msg |-> sent[h[1]] + 1]
        <3>1. h[1] \in Thread /\ task' = task
            BY <2>3 DEF ArchiveMessage
        <3>. QED BY <2>3, <3>1
    <2>. QED BY <2>1, <2>2, <2>3, HandlesFrom
<1>7. \A t \in Thread : task'[t].job <= ran'
    BY <1>1, <1>2
<1>8. /\ \A f \in FieldKey : holds'[f].job \in Nat
      /\ \A h \in Thread \X Side, f \in FieldKey : buffer'[h][f].job \in Nat
    BY NextTypeOK DEF TypeOK, Origin
<1>9. /\ \A f \in FieldKey : holds'[f].job <= ran'
      /\ \A h \in Thread \X Side, f \in FieldKey : buffer'[h][f].job <= ran'
    BY <1>1, <1>5, <1>6, <1>8
<1>. QED BY <1>4, <1>6, <1>7, <1>9

-----------------------------------------------------------------------------
(* The files of the write path: where their messages are at every step,    *)
(* that a file whose fields the post-check counted is in FDB message for   *)
(* message, and that only bad files are rejected.                          *)

(* A thread that does not move keeps its place and its handles.            *)
LEMMA OthersStay ==
    ASSUME TypeOK, [Next]_vars, NEW t \in Thread, ~ StartJob(t), ~ ThreadStep(t)
    PROVE  /\ pc'[t] = pc[t] /\ side'[t] = side[t] /\ task'[t] = task[t]
           /\ sent'[t] = sent[t] /\ since'[t] = since[t]
           /\ \A s \in Side : buffer'[<<t, s>>] = buffer[<<t, s>>]
<1>1. CASE Tick \/ ForeignWrite \/ UNCHANGED vars
    BY <1>1 DEF Tick, ForeignWrite, vars, fdbVars
<1>2. ASSUME NEW u \in Thread, u # t, StartJob(u) \/ ThreadStep(u)
      PROVE  /\ pc'[t] = pc[t] /\ side'[t] = side[t]
             /\ sent'[t] = sent[t] /\ since'[t] = since[t]
    BY <1>2 DEF ThreadStep, StartJob, Check, ArchiveMessage, ArchiveFails, Flush,
       FlushFails, Rescue, InspectRetried, LookupFails, PostCheckPasses,
       PostCheckRejects, CheckMarker, PlainArchive, PlainDone, JobExits,
       Raise, BeginLookup, GoTo, TypeOK
<1>3. task'[t] = task[t]
    BY TasksStay
<1>4. ASSUME NEW u \in Thread, u # t, StartJob(u) \/ ThreadStep(u), NEW s \in Side
      PROVE  buffer'[<<t, s>>] = buffer[<<t, s>>]
    <2>1. \/ UNCHANGED buffer
          \/ \E r : Emptied(<<u, r>>)
          \/ Archive(u, sent[u] + 1)
        BY <1>4 DEF ThreadStep, StartJob, Check, ArchiveMessage, ArchiveFails, Flush,
           FlushFails, Rescue, InspectRetried, LookupFails, PostCheckPasses,
           PostCheckRejects, CheckMarker, PlainArchive, PlainDone, JobExits,
           Handle, fdbVars
    <2>. QED BY <1>4, <2>1 DEF Emptied, Archive, Handle, TypeOK
<1>. QED BY <1>1, <1>2, <1>3, <1>4 DEF Next

-----------------------------------------------------------------------------
(* The query a job archives under is the one its store step asks about.    *)
LEMMA StaysAskedUnder ==
    ASSUME TypeOK, PlacesKnown, AskedUnder, [Next]_vars
    PROVE  AskedUnder'
<1> SUFFICES ASSUME NEW t \in Thread
             PROVE  /\ task'[t].kind # "direct" => task'[t].under = task'[t].query
                    /\ pc'[t] \notin {"idle", "exit"} =>
                        task'[t].under = IF side'[t] = "job" THEN task'[t].under
                                         ELSE task'[t].query
    BY DEF AskedUnder, Asked
<1> USE DEF AskedUnder, Asked
<1>1. CASE ~ StartJob(t) /\ ~ ThreadStep(t)
    BY <1>1, OthersStay
<1>2. CASE StartJob(t)
    <2>1. PICK kind \in JobKinds, q \in Output, u \in Output : \E msgs \in FilesOf[u] :
            /\ kind # "direct" => u = q
            /\ task' = [task EXCEPT ![t] = [job |-> ran + 1, kind |-> kind, query |-> q,
                                            under |-> u, msgs |-> msgs]]
            /\ side' = [side EXCEPT ![t] = IF kind = "file" THEN "store" ELSE "job"]
        BY <1>2 DEF StartJob
    <2>. QED BY <2>1 DEF TypeOK
<1>3. CASE CheckMarker(t)
    <2>1. task'[t] = task[t]
        BY <1>3 DEF CheckMarker
    <2>2. task[t].under = task[t].query \/ pc'[t] \in {"idle", "exit"}
        BY <1>3 DEF CheckMarker, Raise, GoTo, TypeOK
    <2>. QED BY <2>1, <2>2
<1>4. CASE PlainDone(t)
    BY <1>4 DEF PlainDone, PlacesKnown, TypeOK
<1>5. CASE \/ Check(t) \/ ArchiveMessage(t) \/ ArchiveFails(t) \/ Flush(t)
           \/ FlushFails(t) \/ Rescue(t) \/ InspectRetried(t) \/ LookupFails(t)
           \/ PostCheckPasses(t) \/ PostCheckRejects(t) \/ PlainArchive(t)
    <2>1. UNCHANGED <<side, task>> /\ pc[t] \notin {"idle", "exit"}
        BY <1>5 DEF Check, ArchiveMessage, ArchiveFails, Flush, FlushFails, Rescue,
           InspectRetried, LookupFails, PostCheckPasses, PostCheckRejects,
           PlainArchive
    <2>. QED BY <2>1
<1>6. CASE JobExits(t)
    BY <1>6 DEF JobExits, GoTo, TypeOK
<1>. QED BY <1>1, <1>2, <1>3, <1>4, <1>5, <1>6 DEF ThreadStep

(* What is archived next is where it lands.                                *)
LEMMA NextLands ==
    ASSUME AskedUnder, NEW t \in Thread, pc[t] \notin {"idle", "exit"}, NEW i
    PROVE  AsField(KeysOfMsg(t, i)) = Lands(task[t], i)
BY DEF AskedUnder, KeysOfMsg, Lands, Msgs

(* FDB takes one message after the other, and a task stays what it is.     *)
LEMMA SentGrows ==
    ASSUME TypeOK, [Next]_vars, NEW t \in Thread, ~ StartJob(t)
    PROVE  /\ task'[t] = task[t]
           /\ \/ sent'[t] = sent[t]
              \/ /\ ArchiveMessage(t) \/ PlainArchive(t)
                 /\ sent'[t] = sent[t] + 1 /\ sent[t] < Len(Msgs(t))
<1>1. task'[t] = task[t]
    BY TasksStay
<1>2. CASE ~ ThreadStep(t)
    BY <1>1, <1>2, OthersStay
<1>3. CASE ArchiveMessage(t) \/ PlainArchive(t)
    BY <1>1, <1>3 DEF ArchiveMessage, PlainArchive, TypeOK
<1>4. CASE ThreadStep(t) /\ ~ ArchiveMessage(t) /\ ~ PlainArchive(t)
    BY <1>1, <1>4 DEF ThreadStep, Check, ArchiveFails, Flush, FlushFails, Rescue,
       InspectRetried, LookupFails, PostCheckPasses, PostCheckRejects, CheckMarker,
       PlainDone, JobExits
<1>. QED BY <1>2, <1>3, <1>4

(* Messages stay where they were put, and go where they land.              *)
LEMMA MessagesStayPlaced ==
    ASSUME TypeOK, PlacesKnown, JobsApart, AskedUnder, MessagesPlaced, [Next]_vars
    PROVE  MessagesPlaced'
<1> SUFFICES ASSUME NEW t \in Thread
             PROVE  /\ sent'[t] <= Len(task'[t].msgs)
                    /\ \A f \in FieldKey :
                        /\ holds'[f].job = task'[t].job /\ task'[t].job > 0
                            => Placed(holds'[f], task'[t], sent'[t], f)
                        /\ \A h \in Thread \X Side :
                            buffer'[h][f].job = task'[t].job /\ task'[t].job > 0
                                => Placed(buffer'[h][f], task'[t], sent'[t], f)
    BY DEF MessagesPlaced, Msgs
<1>1. CASE StartJob(t)
    <2>1. /\ task'[t].job = ran + 1 /\ sent'[t] = 0 /\ UNCHANGED holds
          /\ ran \in Nat /\ Len(task'[t].msgs) \in Nat
        <3>1. task'[t] \in Task
            BY NextTypeOK DEF TypeOK
        <3>2. Len(task'[t].msgs) \in Nat
            BY <3>1 DEF Task
        <3>3. task'[t].job = ran + 1
            BY <1>1, TasksStay DEF StartJob, TypeOK
        <3>. QED BY <1>1, <3>2, <3>3 DEF StartJob, TypeOK, fdbVars
    <2>2. ASSUME NEW f \in FieldKey PROVE holds'[f].job # task'[t].job
        BY <2>1 DEF JobsApart, TypeOK, Origin
    <2>3. ASSUME NEW f \in FieldKey, NEW h \in Thread \X Side
          PROVE  buffer'[h][f].job # task'[t].job
        <3>1. buffer' = buffer
            BY <1>1 DEF StartJob, fdbVars
        <3>. QED BY <2>1, <3>1 DEF JobsApart, TypeOK, Origin
    <2>. QED BY <2>1, <2>2, <2>3
<1>2. CASE ~ StartJob(t)
    <2>1. /\ task'[t] = task[t]
          /\ \/ sent'[t] = sent[t]
             \/ sent'[t] = sent[t] + 1 /\ sent[t] < Len(Msgs(t))
        BY <1>2, SentGrows
    <2>2. /\ sent[t] \in Nat /\ sent[t] <= Len(Msgs(t)) /\ Len(Msgs(t)) \in Nat
          /\ Msgs(t) = task'[t].msgs
        BY <2>1, TaskTyped DEF TypeOK, MessagesPlaced, Msgs
    <2>3. sent'[t] <= Len(task'[t].msgs) /\ 1..sent[t] \subseteq 1..sent'[t]
        BY <2>1, <2>2
    <2>4. ASSUME NEW origin, NEW f, Placed(origin, task[t], sent[t], f)
          PROVE  Placed(origin, task'[t], sent'[t], f)
        BY <2>1, <2>3, <2>4 DEF Placed
    <2>5. ASSUME NEW u \in Thread, ArchiveMessage(u) \/ PlainArchive(u),
                 task[u].job = task[t].job, task[t].job > 0, NEW f,
                 f = AsField(KeysOfMsg(u, sent[u] + 1)),
                 NEW origin, origin.msg = sent[u] + 1
          PROVE  Placed(origin, task'[t], sent'[t], f)
        <3>1. u = t
            BY <2>5 DEF JobsApart
        <3>2. sent'[t] = sent[t] + 1 /\ pc[t] \notin {"idle", "exit"}
            BY <2>5, <3>1 DEF ArchiveMessage, PlainArchive, TypeOK
        <3>3. f = Lands(task[t], sent[t] + 1)
            BY <2>5, <3>1, <3>2, NextLands
        <3>4. origin.msg \in 1..sent'[t]
            BY <2>2, <2>5, <3>1, <3>2
        <3>. QED BY <2>1, <2>5, <3>1, <3>3, <3>4 DEF Placed
    <2>6. ASSUME NEW f \in FieldKey, holds'[f].job = task[t].job, task[t].job > 0
          PROVE  Placed(holds'[f], task'[t], sent'[t], f)
        <3>1. CASE holds'[f] = holds[f]
            BY <2>4, <2>6, <3>1 DEF MessagesPlaced
        <3>2. CASE holds'[f] = Foreigner
            BY <2>6, <3>2 DEF Foreigner
        <3>3. ASSUME NEW u \in Thread, holds'[f] = buffer[Handle(u)][f]
              PROVE  Placed(holds'[f], task'[t], sent'[t], f)
            <4>1. Handle(u) \in Thread \X Side
                BY DEF Handle, TypeOK
            <4>2. Placed(buffer[Handle(u)][f], task[t], sent[t], f)
                BY <2>6, <3>3, <4>1 DEF MessagesPlaced
            <4>. QED BY <2>4, <3>3, <4>2
        <3>4. ASSUME NEW u \in Thread, PlainArchive(u),
                     f = AsField(KeysOfMsg(u, sent[u] + 1)),
                     holds'[f] = [job |-> task[u].job, msg |-> sent[u] + 1]
              PROVE  Placed(holds'[f], task'[t], sent'[t], f)
            <4>1. holds'[f].msg = sent[u] + 1 /\ task[u].job = task[t].job
                BY <2>6, <3>4
            <4>. QED BY <2>5, <2>6, <3>4, <4>1
        <3>. QED BY <3>1, <3>2, <3>3, <3>4, PublishedFrom
    <2>7. ASSUME NEW f \in FieldKey, NEW h \in Thread \X Side,
                 buffer'[h][f].job = task[t].job, task[t].job > 0
          PROVE  Placed(buffer'[h][f], task'[t], sent'[t], f)
        <3>1. CASE buffer'[h][f] = buffer[h][f]
            BY <2>4, <2>7, <3>1 DEF MessagesPlaced
        <3>2. CASE buffer'[h][f] = Nobody
            BY <2>7, <3>2 DEF Nobody
        <3>3. CASE /\ ArchiveMessage(h[1]) /\ f = AsField(KeysOfMsg(h[1], sent[h[1]] + 1))
                   /\ buffer'[h][f] = [job |-> task[h[1]].job, msg |-> sent[h[1]] + 1]
            <4>1. /\ h[1] \in Thread
                  /\ buffer'[h][f].msg = sent[h[1]] + 1 /\ task[h[1]].job = task[t].job
                BY <2>7, <3>3
            <4>. QED BY <2>5, <2>7, <3>3, <4>1
        <3>. QED BY <3>1, <3>2, <3>3, HandlesFrom
    <2>. QED BY <2>1, <2>3, <2>6, <2>7
<1>. QED BY <1>1, <1>2
(* What FDB took of a file stays in the handle until the flush, which      *)
(* gives every field the current second.                                   *)
LEMMA MessagesStayKept ==
    ASSUME TypeOK, StampsNotAhead, SinceReached, PlacesKnown, AskedUnder,
           MessagesKept, [Next]_vars
    PROVE  MessagesKept'
<1> SUFFICES ASSUME NEW t \in Thread, task'[t].kind # "plain"
             PROVE  /\ pc'[t] = "check" => sent'[t] = 0
                    /\ pc'[t] = "archive" => \A i \in 1..sent'[t] :
                        /\ Lands(task'[t], i) \in FieldKey
                        /\ buffer'[<<t, side'[t]>>][Lands(task'[t], i)] # Nobody
                    /\ pc'[t] \in {"inspect", "marker"} =>
                        \A i \in 1..Len(task'[t].msgs) :
                            /\ Lands(task'[t], i) \in FieldKey
                            /\ stamp'[Lands(task'[t], i)] >= since'[t]
    BY DEF MessagesKept, Msgs, Handle
<1>1. CASE StartJob(t)
    BY <1>1 DEF StartJob, GoTo, TypeOK
<1>2. CASE ~ StartJob(t)
    <2>1. task'[t] = task[t] /\ task[t].kind # "plain"
        BY <1>2, SentGrows
    <2>2. /\ \A f \in FieldKey : stamp'[f] >= stamp[f]
          /\ stamp \in [FieldKey -> Nat] /\ stamp' \in [FieldKey -> Nat]
          /\ since[t] \in Nat /\ sent[t] \in Nat /\ Len(Msgs(t)) \in Nat
        BY StampsGrow, NextTypeOK, TaskTyped DEF TypeOK
    <2>3. ASSUME pc[t] \in {"inspect", "marker"}, since'[t] = since[t]
          PROVE  \A i \in 1..Len(task'[t].msgs) :
                    /\ Lands(task'[t], i) \in FieldKey
                    /\ stamp'[Lands(task'[t], i)] >= since'[t]
        <3> SUFFICES ASSUME NEW i \in 1..Len(Msgs(t))
                     PROVE  /\ Lands(task[t], i) \in FieldKey
                            /\ stamp'[Lands(task[t], i)] >= since[t]
            BY <2>1, <2>3 DEF Msgs
        <3>1. /\ Lands(task[t], i) \in FieldKey
              /\ stamp[Lands(task[t], i)] >= since[t]
            BY <2>1, <2>3 DEF MessagesKept
        <3>. QED BY <2>2, <3>1
    <2>4. CASE ~ ThreadStep(t)
        <3>1. /\ pc'[t] = pc[t] /\ side'[t] = side[t] /\ sent'[t] = sent[t]
              /\ since'[t] = since[t]
              /\ buffer'[<<t, side[t]>>] = buffer[<<t, side[t]>>]
            BY <1>2, <2>4, OthersStay DEF TypeOK
        <3>. QED BY <2>1, <2>3, <3>1 DEF MessagesKept, Handle
    <2>5. CASE Check(t)
        <3>1. sent'[t] = 0 /\ pc'[t] \in {"archive", "exit", "idle"}
            BY <2>1, <2>5 DEF Check, Raise, GoTo, TypeOK, MessagesKept
        <3>. QED BY <3>1
    <2>6. CASE ArchiveMessage(t)
        <3>1. /\ pc'[t] = "archive" /\ pc[t] = "archive" /\ side'[t] = side[t]
              /\ sent'[t] = sent[t] + 1
            BY <2>6 DEF ArchiveMessage, TypeOK
        <3> DEFINE new == Lands(task[t], sent[t] + 1)
                   own == [job |-> task[t].job, msg |-> sent[t] + 1]
        <3>2. new = AsField(KeysOfMsg(t, sent[t] + 1)) /\ new \in FieldKey
            BY <2>6, <3>1, NextLands, NextIsField DEF ArchiveMessage
        <3>3. buffer'[<<t, side[t]>>] = [buffer[<<t, side[t]>>] EXCEPT ![new] = own]
            BY <2>6, <3>2 DEF ArchiveMessage, Archive, Handle, TypeOK
        <3>4. own # Nobody
            BY <2>2 DEF Nobody
        <3>5. buffer[<<t, side[t]>>] \in [FieldKey -> Origin]
            BY DEF TypeOK
        <3>6. ASSUME NEW i \in 1..(sent[t] + 1)
              PROVE  /\ Lands(task[t], i) \in FieldKey
                     /\ buffer'[<<t, side[t]>>][Lands(task[t], i)] # Nobody
            <4>1. CASE i = sent[t] + 1
                BY <3>2, <3>3, <3>4, <3>5, <4>1
            <4>2. CASE i # sent[t] + 1
                <5>1. i \in 1..sent[t]
                    BY <2>2, <4>2
                <5>2. /\ Lands(task[t], i) \in FieldKey
                      /\ buffer[<<t, side[t]>>][Lands(task[t], i)] # Nobody
                    BY <2>1, <3>1, <5>1 DEF MessagesKept, Handle
                <5>. QED BY <3>3, <3>4, <3>5, <5>2
            <4>. QED BY <4>1, <4>2
        <3>. QED BY <2>1, <3>1, <3>6
    <2>7. CASE Flush(t)
        <3>1. /\ pc[t] = "archive" /\ pc'[t] = "inspect" /\ since'[t] = since[t]
              /\ sent[t] = Len(Msgs(t))
              /\ Publish(buffer[<<t, side[t]>>])
            BY <2>7 DEF Flush, BeginLookup, GoTo, TypeOK, Handle
        <3>2. since[t] <= clock
            BY DEF SinceReached
        <3>3. ASSUME NEW i \in 1..Len(Msgs(t))
              PROVE  /\ Lands(task[t], i) \in FieldKey
                     /\ stamp'[Lands(task[t], i)] >= since[t]
            <4>1. /\ Lands(task[t], i) \in FieldKey
                  /\ buffer[<<t, side[t]>>][Lands(task[t], i)] # Nobody
                BY <2>1, <3>1 DEF MessagesKept, Handle
            <4>2. stamp'[Lands(task[t], i)] = clock
                BY <3>1, <4>1 DEF Publish
            <4>. QED BY <3>2, <4>1, <4>2, <2>2 DEF TypeOK
        <3>. QED BY <2>1, <3>1, <3>3 DEF Msgs
    <2>8. CASE InspectRetried(t) \/ PostCheckPasses(t) \/ CheckMarker(t)
        <3>1. pc[t] \in {"inspect", "marker"} /\ since'[t] = since[t]
            BY <2>8 DEF InspectRetried, PostCheckPasses, CheckMarker, BeginLookup, TypeOK
        <3>2. pc'[t] \notin {"check", "archive"}
            BY <2>8 DEF InspectRetried, PostCheckPasses, CheckMarker, Raise, BeginLookup,
               GoTo, TypeOK
        <3>. QED BY <2>3, <3>1, <3>2
    <2>9. CASE \/ ArchiveFails(t) \/ FlushFails(t) \/ Rescue(t) \/ LookupFails(t)
               \/ PostCheckRejects(t) \/ JobExits(t)
        <3>1. pc'[t] \in {"rescue", "exit", "idle"}
            BY <2>9 DEF ArchiveFails, FlushFails, Rescue, LookupFails, PostCheckRejects,
               JobExits, Raise, GoTo, TypeOK
        <3>. QED BY <3>1
    <2>10. ~ PlainArchive(t) /\ ~ PlainDone(t)
        BY <2>1 DEF PlainArchive, PlainDone, PlacesKnown
    <2>. QED BY <2>4, <2>5, <2>6, <2>7, <2>8, <2>9, <2>10 DEF ThreadStep
<1>. QED BY <1>1, <1>2

(* The inductive invariant about files.                                    *)
LEMMA FilesInvHolds ==
    /\ Init => FilesInv
    /\ FilesInv /\ [Next]_vars => FilesInv'
<1>1. Init => FilesInv
    <2> SUFFICES ASSUME Init PROVE FilesInv
        OBVIOUS
    <2>1. StoreInv
        BY StoreInvHolds
    <2>2. PlacesKnown /\ MessagesKept
        BY DEF Init, PlacesKnown, MessagesKept
    <2>5. AskedUnder
        <3>1. \A t \in Thread : pc[t] = "idle"
            BY DEF Init
        <3>2. ASSUME NEW t \in Thread PROVE task[t].under = task[t].query
            <4> DEFINE q0 == CHOOSE q \in Output : TRUE
            <4>1. task[t] = [job |-> 0, kind |-> "file", query |-> q0, under |-> q0,
                             msgs |-> <<>>]
                BY DEF Init
            <4>. HIDE DEF q0
            <4>. QED BY <4>1
        <3>. QED BY <3>1, <3>2 DEF AskedUnder
    <2>3. JobsApart
        BY DEF Init, JobsApart, Nothing, Nobody
    <2>4. MessagesPlaced
        BY DEF Init, MessagesPlaced, Msgs
    <2>. QED BY <2>1, <2>2, <2>3, <2>4, <2>5 DEF FilesInv
<1>2. FilesInv /\ [Next]_vars => FilesInv'
    BY StoreInvHolds, PlacesStayKnown, JobsStayApart, StaysAskedUnder,
       MessagesStayPlaced, MessagesStayKept DEF FilesInv, StoreInv
<1>. QED BY <1>1, <1>2

-----------------------------------------------------------------------------
(* A job is only denied by the code that runs it.                          *)
LEMMA DeniedBy ==
    ASSUME [Next]_vars, NEW e \in denied', e \notin denied
    PROVE  \E t \in Thread :
            /\ e = [job |-> task[t].job, at |-> pc[t]]
            /\ \/ Check(t) \/ ArchiveFails(t) \/ LookupFails(t) \/ PostCheckRejects(t)
               \/ CheckMarker(t)
<1>1. ASSUME NEW t \in Thread,
             \/ Check(t) \/ ArchiveFails(t) \/ LookupFails(t) \/ PostCheckRejects(t)
             \/ CheckMarker(t)
      PROVE  e = [job |-> task[t].job, at |-> pc[t]]
    BY <1>1 DEF Check, ArchiveFails, LookupFails, PostCheckRejects, CheckMarker, Raise
<1>2. ASSUME NEW t \in Thread,
             \/ StartJob(t) \/ ArchiveMessage(t) \/ Flush(t) \/ FlushFails(t) \/ Rescue(t)
             \/ InspectRetried(t) \/ PostCheckPasses(t) \/ PlainArchive(t)
             \/ PlainDone(t) \/ JobExits(t)
      PROVE  denied' = denied
    BY <1>2 DEF StartJob, ArchiveMessage, Flush, FlushFails, Rescue, InspectRetried,
       PostCheckPasses, PlainArchive, PlainDone, JobExits, Raise
<1>3. CASE Tick \/ ForeignWrite \/ UNCHANGED vars
    BY <1>3 DEF Tick, ForeignWrite, vars
<1>. QED BY <1>1, <1>2, <1>3 DEF Next, ThreadStep

(* A thread at rest or at its exit stays there with its job.               *)
LEMMA EndsStay ==
    ASSUME TypeOK, [Next]_vars, NEW t \in Thread, ~ StartJob(t),
           pc[t] \in {"idle", "exit"}
    PROVE  pc'[t] \in {"idle", "exit"}
<1>1. CASE ThreadStep(t)
    BY <1>1 DEF ThreadStep, Check, ArchiveMessage, ArchiveFails, Flush, FlushFails,
       Rescue, InspectRetried, LookupFails, PostCheckPasses, PostCheckRejects,
       CheckMarker, PlainArchive, PlainDone, JobExits, GoTo, TypeOK
<1>2. CASE ~ ThreadStep(t)
    BY <1>2, OthersStay
<1>. QED BY <1>1, <1>2

(* At its start nothing of a job has been taken, with identifiers neither  *)
(* when an archive fails without a note.                                   *)
LEMMA NothingTaken ==
    ASSUME FilesInv, NEW t \in Thread,
           Check(t) \/ (ArchiveFails(t) /\ Archived(t) = 0 /\ ArchiveMode = "identifier"),
           NEW f \in FieldKey
    PROVE  /\ task[t].job > 0
           /\ holds[f].job # task[t].job
           /\ \A h \in Thread \X Side : buffer[h][f].job # task[t].job
<1>1. pc[t] \in {"check", "archive"}
    BY DEF Check, ArchiveFails
<1>2. task[t].job \in Nat /\ task[t].job > 0
    BY <1>1, TaskTyped DEF FilesInv, StoreInv, Task, PlacesKnown
<1>3. sent[t] = 0
    <2>1. CASE Check(t)
        BY <2>1 DEF Check, FilesInv, StoreInv, MessagesKept, PlacesKnown
    <2>2. CASE ArchiveFails(t) /\ Archived(t) = 0 /\ ArchiveMode = "identifier"
        BY <2>2 DEF Archived
    <2>. QED BY <2>1, <2>2
<1>4. ASSUME NEW origin PROVE ~ Placed(origin, task[t], sent[t], f)
    BY <1>3 DEF Placed
<1>. QED BY <1>2, <1>4 DEF FilesInv, MessagesPlaced

(* What a job left nothing of stays away: no thread works on it.           *)
LEMMA DeniedStaysGone ==
    ASSUME FilesInv, DeniedIsGone, [Next]_vars
    PROVE  DeniedIsGone'
<1> DEFINE Meant(e) == \/ e.at = "check"
                       \/ e.at \in {"archive", "rescue"} /\ ArchiveMode = "identifier"
<1>1. TypeOK /\ PlacesKnown /\ JobsApart
    BY DEF FilesInv, StoreInv
<1>2. /\ ran \in Nat /\ ran' \in Nat /\ ran' >= ran
      /\ \A t \in Thread : task[t].job \in Nat /\ task[t].job <= ran
    BY <1>1, TasksStay DEF TypeOK, Task, JobsApart
<1> SUFFICES ASSUME NEW e \in denied'
             PROVE  /\ 0 < e.job /\ e.job <= ran'
                    /\ \A t \in Thread : task'[t].job = e.job => pc'[t] \in {"idle", "exit"}
                    /\ Meant(e) => \A f \in FieldKey :
                        /\ holds'[f].job # e.job
                        /\ \A h \in Thread \X Side : buffer'[h][f].job # e.job
    BY DEF DeniedIsGone
<1>3. CASE e \in denied
    <2>1. e.job \in Nat /\ 0 < e.job /\ e.job <= ran
        BY <1>1, <1>3 DEF DeniedIsGone, TypeOK
    <2>2. ASSUME NEW t \in Thread, task'[t].job = e.job
          PROVE  pc'[t] \in {"idle", "exit"}
        <3>1. ~ StartJob(t)
            BY <1>1, <1>2, <2>1, <2>2, TasksStay DEF StartJob, TypeOK
        <3>2. task'[t] = task[t]
            BY <1>1, <3>1, TasksStay
        <3>3. pc[t] \in {"idle", "exit"}
            BY <1>3, <2>2, <3>2 DEF DeniedIsGone
        <3>. QED BY <1>1, <3>1, <3>3, EndsStay
    <2>3. ASSUME NEW t \in Thread, ArchiveMessage(t) \/ PlainArchive(t)
          PROVE  task[t].job # e.job
        BY <1>3, <2>3 DEF DeniedIsGone, ArchiveMessage, PlainArchive
    <2>4. ASSUME Meant(e), NEW f \in FieldKey
          PROVE  /\ holds'[f].job # e.job
                 /\ \A h \in Thread \X Side : buffer'[h][f].job # e.job
        <3>1. /\ holds[f].job # e.job
              /\ \A h \in Thread \X Side : buffer[h][f].job # e.job
            BY <1>3, <2>4 DEF DeniedIsGone
        <3>2. Foreigner.job # e.job /\ Nobody.job # e.job
            BY <2>1 DEF Foreigner, Nobody
        <3>3. \A t \in Thread : Handle(t) \in Thread \X Side
            BY <1>1 DEF TypeOK, Handle
        <3>4. holds'[f].job # e.job
            BY <1>1, <2>3, <3>1, <3>2, <3>3, PublishedFrom
        <3>5. ASSUME NEW h \in Thread \X Side PROVE buffer'[h][f].job # e.job
            <4>1. CASE buffer'[h][f] = buffer[h][f] \/ buffer'[h][f] = Nobody
                BY <3>1, <3>2, <4>1
            <4>2. CASE /\ ArchiveMessage(h[1])
                       /\ buffer'[h][f] = [job |-> task[h[1]].job, msg |-> sent[h[1]] + 1]
                <5>1. h[1] \in Thread /\ buffer'[h][f].job = task[h[1]].job
                    BY <4>2
                <5>. QED BY <2>3, <4>2, <5>1
            <4>. QED BY <1>1, <4>1, <4>2, HandlesFrom
        <3>. QED BY <3>4, <3>5
    <2>. QED BY <1>2, <2>1, <2>2, <2>4
<1>4. CASE e \notin denied
    <2>1. PICK t \in Thread :
            /\ e = [job |-> task[t].job, at |-> pc[t]]
            /\ \/ Check(t) \/ ArchiveFails(t) \/ LookupFails(t) \/ PostCheckRejects(t)
               \/ CheckMarker(t)
        BY <1>4, DeniedBy
    <2>2. e.job = task[t].job /\ e.at = pc[t]
        BY <2>1
    <2>3. /\ pc[t] \notin {"idle", "exit"} /\ UNCHANGED <<task, ran, fdbVars>>
          /\ denied' # denied
        BY <1>4, <2>1 DEF Check, ArchiveFails, LookupFails, PostCheckRejects, CheckMarker,
           runVars
    <2>4. task[t].job > 0
        BY <1>1, <1>2, <2>3 DEF PlacesKnown
    <2>5. pc'[t] \in {"idle", "exit"}
        BY <1>1, <2>1, <2>3 DEF Check, ArchiveFails, LookupFails, PostCheckRejects,
           CheckMarker, Raise, GoTo, TypeOK
    <2>6. ASSUME NEW u \in Thread, task'[u].job = e.job PROVE pc'[u] \in {"idle", "exit"}
        <3>1. u = t
            BY <1>1, <2>2, <2>3, <2>4, <2>6 DEF JobsApart
        <3>. QED BY <2>5, <3>1
    <2>7. ASSUME Meant(e), NEW f \in FieldKey
          PROVE  /\ holds'[f].job # e.job
                 /\ \A h \in Thread \X Side : buffer'[h][f].job # e.job
        <3>1. Check(t) \/ (ArchiveFails(t) /\ Archived(t) = 0 /\ ArchiveMode = "identifier")
            BY <2>1, <2>2, <2>3, <2>7 DEF Check, ArchiveFails, LookupFails,
               PostCheckRejects, CheckMarker
        <3>. QED BY <2>2, <2>3, <3>1, NothingTaken DEF fdbVars
    <2>. QED BY <1>2, <2>2, <2>3, <2>4, <2>6, <2>7
<1>. QED BY <1>3, <1>4

(* With identifiers, an error of archive_messages that does not say that   *)
(* fields stay is from before its first archive, and what FDB never took   *)
(* of a job appears at no later time; refused files leave nothing in       *)
(* either mode.                                                            *)
THEOREM ErrorsAreTrue == Spec => []ErrorsSayFieldsStay
<1>1. Init => FilesInv /\ DeniedIsGone
    BY FilesInvHolds DEF Init, DeniedIsGone
<1>2. FilesInv /\ DeniedIsGone /\ [Next]_vars => FilesInv' /\ DeniedIsGone'
    BY FilesInvHolds, DeniedStaysGone
<1>3. DeniedIsGone => ErrorsSayFieldsStay
    BY DEF DeniedIsGone, ErrorsSayFieldsStay
<1>. QED BY <1>1, <1>2, <1>3, PTL DEF Spec

-----------------------------------------------------------------------------
(* The numbers of n messages are n.                                        *)
LEMMA CountTo ==
    ASSUME NEW n \in Nat
    PROVE  IsFiniteSet(1..n) /\ Cardinality(1..n) = n
BY FS_Interval

(* FDB's fields are finitely many.                                         *)
LEMMA FieldKeyFinite == IsFiniteSet(FieldKey)
<1>1. ASSUME NEW K \in SUBSET IndexedKey PROVE IsFiniteSet([K -> Spelling])
    <2>1. IsFiniteSet(K)
        BY RequestsAssumption, FS_Subset DEF IndexedKey
    <2>. QED BY <2>1, RequestsAssumption, FunctionSetFinite
<1>2. IsFiniteSet(Labels(IndexedKey))
    <2> DEFINE Sets == {[K -> Spelling] : K \in SUBSET IndexedKey}
               Maps == [K \in SUBSET IndexedKey |-> [K -> Spelling]]
    <2>1. IsFiniteSet(SUBSET IndexedKey)
        BY RequestsAssumption, FS_Subset, FS_SUBSET DEF IndexedKey
    <2>2. Maps \in Surjection(SUBSET IndexedKey, Sets)
        BY DEF Surjection
    <2>3. IsFiniteSet(Sets)
        BY <2>1, <2>2, FS_Surjection
    <2>4. \A T \in Sets : IsFiniteSet(T)
        BY <1>1
    <2>5. IsFiniteSet(UNION Sets)
        BY <2>3, <2>4, FS_UNION
    <2>. QED BY <2>5 DEF Labels
<1>. QED BY <1>2, FS_Subset DEF FieldKey

(* If the post-check counts as many fields as the file has messages, and   *)
(* they are all of this job, they are its messages, one each.              *)
LEMMA CountedAreMessages ==
    ASSUME FilesInv, NEW t \in Thread, PostCheckPasses(t), task[t].kind # "plain",
           SchemaReadable,
           \A f \in Fresh(Fields(Asked(t)), since[t]) : holds[f].job = task[t].job
    PROVE  \A i \in DOMAIN Msgs(t) :
            \E f \in Named(Asked(t)) : holds[f] = [job |-> task[t].job, msg |-> i]
<1> DEFINE F == Fresh(Fields(Asked(t)), since[t])
           n == Len(Msgs(t))
           g == [f \in F |-> holds[f].msg]
<1>1. /\ F \subseteq FieldKey /\ \A f \in F : f \in Named(Asked(t))
    BY CountedIsNamed DEF Fresh, Fields
<1>2. /\ n \in Nat /\ DOMAIN Msgs(t) = 1..n
      /\ sent[t] \in Nat /\ sent[t] <= n
      /\ task[t].job \in Nat /\ task[t].job > 0
      /\ holds \in [FieldKey -> Origin]
    <2>1. task[t] \in Task /\ n \in Nat
        BY TaskTyped DEF FilesInv, StoreInv
    <2>2. DOMAIN Msgs(t) = 1..n /\ task[t].job \in Nat
        BY <2>1 DEF Task, Msgs
    <2>3. task[t].job # 0
        BY DEF PostCheckPasses, FilesInv, PlacesKnown
    <2>. QED BY <2>1, <2>2, <2>3 DEF FilesInv, StoreInv, TypeOK, MessagesPlaced
<1>3. ASSUME NEW f \in F
      PROVE  holds[f].msg \in 1..n /\ f = Lands(task[t], holds[f].msg)
    BY <1>1, <1>2 DEF FilesInv, MessagesPlaced, Placed
<1>4. g \in Injection(F, 1..n)
    <2>1. g \in [F -> 1..n]
        BY <1>3
    <2>2. ASSUME NEW a \in F, NEW b \in F, g[a] = g[b] PROVE a = b
        BY <1>3, <2>2
    <2>. QED BY <2>1, <2>2 DEF Injection, IsInjective
<1>5. Cardinality(F) >= n
    <2>1. PICK fields \in SUBSET Fields(Asked(t)) : Cardinality(Fresh(fields, since[t])) >= n
        BY InspectedFields DEF PostCheckPasses, Enough, Wanted
    <2>2. IsFiniteSet(F) /\ Fresh(fields, since[t]) \in SUBSET F
        BY <1>1, FieldKeyFinite, FS_Subset DEF Fresh
    <2>3. /\ Cardinality(Fresh(fields, since[t])) <= Cardinality(F)
          /\ Cardinality(F) \in Nat /\ Cardinality(Fresh(fields, since[t])) \in Nat
        BY <2>2, FS_Subset, FS_CardinalityType
    <2>. QED BY <1>2, <2>1, <2>3
<1>6. IsFiniteSet(1..n) /\ Cardinality(1..n) = n
    BY <1>2, CountTo
<1>7. g \in Surjection(F, 1..n)
    <2>1. /\ IsFiniteSet(F) /\ Cardinality(F) <= n
          /\ Cardinality(F) = n <=> g \in Surjection(F, 1..n)
        BY <1>4, <1>6, FS_Injection
    <2>2. Cardinality(F) \in Nat
        BY <2>1, FS_CardinalityType
    <2>. QED BY <1>2, <1>5, <2>1, <2>2
<1> SUFFICES ASSUME NEW i \in 1..n
             PROVE  \E f \in Named(Asked(t)) : holds[f] = [job |-> task[t].job, msg |-> i]
    BY <1>2
<1>8. PICK f \in F : g[f] = i
    BY <1>7 DEF Surjection
<1>9. holds[f] \in Origin /\ holds[f].msg = i /\ holds[f].job = task[t].job
    BY <1>1, <1>2, <1>8
<1>10. holds[f] = [job |-> task[t].job, msg |-> i]
    BY <1>9 DEF Origin
<1>. QED BY <1>1, <1>10

(* A store step that succeeded on its own fields has stored its file,      *)
(* message for message.                                                    *)
THEOREM FilesLand == Spec => OwnDataLands
<1>1. FilesInv /\ [Next]_vars =>
        \A t \in Thread :
            (/\ PostCheckPasses(t) /\ task[t].kind # "plain" /\ SchemaReadable
             /\ \A f \in Fresh(Fields(Asked(t)), since[t]) : holds[f].job = task[t].job)
            => \A i \in DOMAIN Msgs(t) :
                \E f \in Named(Asked(t)) : holds[f] = [job |-> task[t].job, msg |-> i]
    BY CountedAreMessages
<1>. QED BY <1>1, FilesInvHolds, PTL DEF Spec, OwnDataLands

-----------------------------------------------------------------------------
(* If each message of a file is a field of its own that the query names,   *)
(* the post-check counts as many.                                          *)
LEMMA GoodFilesSuffice ==
    ASSUME FilesInv, NEW t \in Thread, pc[t] = "inspect", task[t].kind # "plain",
           \A i \in 1..Len(Msgs(t)) : Lands(task[t], i) \in Named(Asked(t)),
           \A i, j \in 1..Len(Msgs(t)) :
                Lands(task[t], i) = Lands(task[t], j) => i = j
    PROVE  Enough(t, Fields(Asked(t)))
<1> DEFINE F == Fresh(Fields(Asked(t)), since[t])
           n == Len(Msgs(t))
           g == [i \in 1..n |-> Lands(task[t], i)]
<1>1. /\ n \in Nat /\ stamp \in [FieldKey -> Nat]
      /\ since[t] \in Nat /\ since[t] > 0
    BY TaskTyped DEF FilesInv, StoreInv, TypeOK, SinceReached
<1>2. ASSUME NEW i \in 1..n PROVE Lands(task[t], i) \in F
    <2>1. /\ Lands(task[t], i) \in FieldKey
          /\ stamp[Lands(task[t], i)] >= since[t]
        BY DEF FilesInv, MessagesKept
    <2>2. Counted(Asked(t), Lands(task[t], i))
        BY NamedIsCounted
    <2>3. stamp[Lands(task[t], i)] > 0
        <3>1. stamp[Lands(task[t], i)] \in Nat
            BY <1>1, <2>1
        <3>. QED BY <1>1, <2>1, <3>1
    <2>. QED BY <2>1, <2>2, <2>3 DEF Fresh, Fields
<1>3. g \in Injection(1..n, F)
    BY <1>2 DEF Injection, IsInjective
<1>4. IsFiniteSet(F)
    BY FieldKeyFinite, FS_Subset DEF Fresh, Fields
<1>5. Cardinality(1..n) <= Cardinality(F)
    BY <1>3, <1>4, FS_Injection
<1>6. Cardinality(1..n) = n
    BY <1>1, CountTo
<1>7. Cardinality(F) \in Nat
    BY <1>4, FS_CardinalityType
<1>. QED BY <1>1, <1>5, <1>6, <1>7 DEF Enough, Wanted

(* A post-check only rejects files that are wrong, whatever other writers  *)
(* do and however long the store takes, if no root hides fields from it    *)
(* and is back before the roots are checked.                               *)
THEOREM RejectedAreBad == Spec => OnlyBadFilesRejected
<1> DEFINE Lying(t) ==
        LET lands == [i \in DOMAIN Msgs(t) |-> AsField(KeysOfMsg(t, i))]
        IN  \/ \E i \in DOMAIN lands : lands[i] \notin Named(Asked(t))
            \/ \E i, j \in DOMAIN lands : i # j /\ lands[i] = lands[j]
<1>1. ASSUME FilesInv, NEW t \in Thread, PostCheckRejects(t), task[t].kind # "plain",
             "roots" \notin Faults, ~ Lying(t)
      PROVE  FALSE
    <2>1. pc[t] = "inspect" /\ ~ Enough(t, Fields(Asked(t)))
        BY <1>1 DEF PostCheckRejects, Inspected
    <2>2. DOMAIN Msgs(t) = 1..Len(Msgs(t))
        BY <1>1, TaskTyped DEF FilesInv, StoreInv, Task, Msgs
    <2>3. \A i : AsField(KeysOfMsg(t, i)) = Lands(task[t], i)
        BY <1>1, <2>1, NextLands DEF FilesInv
    <2>4. /\ \A i \in 1..Len(Msgs(t)) : Lands(task[t], i) \in Named(Asked(t))
          /\ \A i, j \in 1..Len(Msgs(t)) :
                Lands(task[t], i) = Lands(task[t], j) => i = j
        BY <1>1, <2>2, <2>3
    <2>. QED BY <1>1, <2>1, <2>4, GoodFilesSuffice
<1>2. FilesInv /\ [Next]_vars =>
        \A t \in Thread :
            PostCheckRejects(t) /\ task[t].kind # "plain" /\ "roots" \notin Faults
                => Lying(t)
    BY <1>1
<1>. QED BY <1>2, FilesInvHolds, PTL DEF Spec, OnlyBadFilesRejected
=============================================================================
