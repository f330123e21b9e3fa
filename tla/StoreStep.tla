----------------------------- MODULE StoreStep ------------------------------
(***************************************************************************)
(* The write path: Snakemake's store step (StorageObject.store_object) of  *)
(* an output's job, on threads that run jobs one after the other, and the  *)
(* three ways a job produces the output: it writes a GRIB file that the    *)
(* store step archives, it archives with api.archive and leaves a marker,  *)
(* or it archives with plain pyfdb and leaves an empty file.  All of them  *)
(* share one FDB with each other and with foreign writers; FDB masks a     *)
(* field that is archived again, stamps a flush with its clock's whole     *)
(* second, and deletes nothing.                                            *)
(***************************************************************************)
EXTENDS Requests

CONSTANTS
    Thread,      \* threads of the process that runs the workflow
    Output,      \* the queries of the workflow's outputs
    FilesOf,     \* [Output -> SUBSET Seq(Message)]: what a job may come up with
    JobKinds,    \* subset of {"file", "direct", "plain"}
    Faults,      \* subset of {"archive", "flush", "inspect", "roots"}
    Spawned,     \* the kinds of jobs that run with their store step in a spawned process
    JobMetkit,   \* whether metkit's expansion is available to api.archive in a job
    MaxAttempts, \* attempts of a lookup (the interface's retry decorator: 3)
    MaxClock,    \* bound on the FDB clock
    MaxJobs,     \* bound on the jobs started
    MaxForeign   \* bound on the fields foreign writers archive

ASSUME StoreAssumption ==
    /\ Output # {} /\ \A q \in Output : IsQuery(q)
    /\ FilesOf \in [Output -> SUBSET Seq(Message)]
    /\ JobKinds \subseteq {"file", "direct", "plain"}
    /\ Faults \subseteq {"archive", "flush", "inspect", "roots"}
    /\ Spawned \subseteq JobKinds /\ JobMetkit \in BOOLEAN
    /\ MaxAttempts \in Nat \ {0}
    /\ MaxClock \in Nat /\ MaxJobs \in Nat /\ MaxForeign \in Nat

VARIABLES
    clock,    \* the current second of FDB's index clock
    stamp,    \* [FieldKey -> Nat]: index timestamp, 0 if FDB has no such field
    holds,    \* [FieldKey -> [job, msg]]: the message FDB returns for it
    buffer,   \* [Thread \X Side -> [FieldKey -> Origin]]: archived, not flushed
    pc,       \* [Thread -> PC]: where the thread's job or store step is
    side,     \* [Thread -> Side]: in the job's code or in the store step
    task,     \* [Thread -> Task]: the job the thread works on
    sent,     \* [Thread -> Nat]: messages FDB took so far
    since,    \* [Thread -> Nat]: the second fields must not be older than
    tries,    \* [Thread -> Nat]: failed attempts of the current lookup
    runTime,  \* [Thread -> Nat]: run_time of the process of the thread
    outcome,  \* [Thread -> Outcome]: how the last job's store step ended
    accepted, \* history: the store steps that succeeded
    denied,   \* history: the jobs whose code ended with an error that does not
              \* say that fields stay in FDB, and where it was raised
    ran,      \* history: jobs started
    foreign   \* history: fields foreign writers archived

vars == <<clock, stamp, holds, buffer, pc, side, task, sent, since, tries,
          runTime, outcome, accepted, denied, ran, foreign>>

Side == {"job", "store"}
PC == {"idle", "plain", "check", "archive", "rescue", "inspect", "marker", "exit"}

(* none: not ended; stored; refused: an error that says nothing was        *)
(* archived; stay: one that says the fields stay in FDB; error: any other. *)
Outcome == {"none", "stored", "refused", "stay", "error"}

(* query: what the output is declared as; under: what the job archives     *)
(* under (api.archive's query= overrides the output's).                    *)
Task == [job : Nat, kind : {"file", "direct", "plain"},
         query : Output, under : Output, msgs : Seq(Message)]
Origin == [job : Nat, msg : Nat]
Nobody == [job |-> 0, msg |-> 0]
Foreigner == [job |-> 0, msg |-> 1]
Nothing == [f \in FieldKey |-> Nobody]

(* The query of the code running on thread t, and its archiving handle:    *)
(* the job process has handles of its own.                                 *)
Asked(t) == IF side[t] = "job" THEN task[t].under ELSE task[t].query
Handle(t) == <<t, side[t]>>
Msgs(t) == task[t].msgs

(* E for the code running on thread t: api.archive expands the query in    *)
(* the job's own process, perhaps otherwise than the store step.           *)
JobExpected(q) ==
    Cardinality({c \in [DOMAIN q.vals -> Spelling] :
                    \A k \in DOMAIN c : c[k] \in Expansion(q, JobMetkit)[k]})
Expects(t) == IF side[t] = "job" THEN JobExpected(Asked(t)) ELSE Expected(Asked(t))

(* What message i is archived under: a job with plain pyfdb uses the       *)
(* message's own keys.  (Expansions spell single values differently, which *)
(* AsField evens out.)                                                     *)
KeysOfMsg(t, i) ==
    IF task[t].kind = "plain" THEN Msgs(t)[i] ELSE Keyed(Asked(t), Msgs(t)[i])

-----------------------------------------------------------------------------
(* FDB.                                                                    *)

(* Archiving message i through a handle: later archives under the same key *)
(* win.                                                                    *)
Archive(t, i) ==
    buffer' = [buffer EXCEPT ![Handle(t)] =
        [@ EXCEPT ![AsField(KeysOfMsg(t, i))] = [job |-> task[t].job, msg |-> i]]]

(* A flush: every archived field appears, with the same timestamp, and     *)
(* masks what was there.                                                   *)
Publish(new) ==
    /\ stamp' = [f \in FieldKey |-> IF new[f] # Nobody THEN clock ELSE stamp[f]]
    /\ holds' = [f \in FieldKey |-> IF new[f] # Nobody THEN new[f] ELSE holds[f]]

Only(f, from) == [Nothing EXCEPT ![f] = from]
Emptied(handle) == buffer' = [buffer EXCEPT ![handle] = Nothing]

(* _fields: what FDB has of a query, what one inspect of it with a fresh   *)
(* handle may find (less what is under a root it cannot read just then),   *)
(* and the part of it that _fresh keeps.                                   *)
Fields(q) == {f \in FieldKey : stamp[f] > 0 /\ Counted(q, f)}
Inspected(t) ==
    IF "roots" \in Faults THEN SUBSET Fields(Asked(t)) ELSE {Fields(Asked(t))}
Fresh(fields, s) == {f \in fields : stamp[f] >= s}

-----------------------------------------------------------------------------
Init ==
    /\ clock = 1
    /\ stamp = [f \in FieldKey |-> 0]
    /\ holds = [f \in FieldKey |-> Nobody]
    /\ buffer = [h \in Thread \X Side |-> Nothing]
    /\ pc = [t \in Thread |-> "idle"]
    /\ side = [t \in Thread |-> "store"]
    /\ task = [t \in Thread |->
                [job |-> 0, kind |-> "file", query |-> CHOOSE q \in Output : TRUE,
                 under |-> CHOOSE q \in Output : TRUE, msgs |-> <<>>]]
    /\ sent = [t \in Thread |-> 0]
    /\ since = [t \in Thread |-> 0]
    /\ tries = [t \in Thread |-> 0]
    /\ runTime = [t \in Thread |-> 1]
    /\ outcome = [t \in Thread |-> "none"]
    /\ accepted = {}
    /\ denied = {}
    /\ ran = 0
    /\ foreign = 0

(* Variables of the FDB, of the step on a thread, and of the run.          *)
fdbVars == <<stamp, holds, buffer>>
runVars == <<clock, runTime, ran, foreign>>

GoTo(t, label) == pc' = [pc EXCEPT ![t] = label]

(* The code on the thread ends with an exception: a job's process exits    *)
(* without a store step, and so does one spawned for job and store step.   *)
Raise(t, in, kind) ==
    /\ GoTo(t, IF in = "job" \/ task[t].kind \in Spawned THEN "exit" ELSE "idle")
    /\ outcome' = [outcome EXCEPT ![t] = kind]
    /\ denied' = IF kind = "stay" THEN denied
                 ELSE denied \cup {[job |-> task[t].job, at |-> pc[t]]}

BeginLookup(t, s) ==
    /\ GoTo(t, "inspect")
    /\ since' = [since EXCEPT ![t] = s]
    /\ tries' = [tries EXCEPT ![t] = 0]

Tick ==
    /\ clock < MaxClock
    /\ clock' = clock + 1
    /\ UNCHANGED <<fdbVars, pc, side, task, sent, since, tries, runTime, outcome,
                   accepted, denied, ran, foreign>>

(* Another process archives and flushes one field.                         *)
ForeignWrite ==
    /\ foreign < MaxForeign
    /\ foreign' = foreign + 1
    /\ \E f \in FieldKey : Publish(Only(f, Foreigner))
    /\ UNCHANGED <<clock, buffer, pc, side, task, sent, since, tries, runTime,
                   outcome, accepted, denied, ran>>

(* A job starts; a spawned process constructs its provider, with its       *)
(* reference time, before the job runs.                                    *)
StartJob(t) ==
    /\ pc[t] = "idle"
    /\ ran < MaxJobs
    /\ ran' = ran + 1
    /\ \E kind \in JobKinds, q \in Output, u \in Output : \E msgs \in FilesOf[u] :
        /\ kind # "direct" => u = q
        /\ task' = [task EXCEPT ![t] = [job |-> ran + 1, kind |-> kind, query |-> q,
                                        under |-> u, msgs |-> msgs]]
        /\ side' = [side EXCEPT ![t] = IF kind = "file" THEN "store" ELSE "job"]
        /\ GoTo(t, IF kind = "plain" THEN "plain" ELSE "check")
        /\ runTime' = IF kind \in Spawned THEN [runTime EXCEPT ![t] = clock] ELSE runTime
    /\ sent' = [sent EXCEPT ![t] = 0]
    /\ outcome' = [outcome EXCEPT ![t] = "none"]
    /\ UNCHANGED <<clock, fdbVars, since, tries, accepted, denied, foreign>>

-----------------------------------------------------------------------------
(* archive_messages, in the store step of a GRIB file or in api.archive.   *)

CheckFineClock(t) ==  \* mutant: t_start from int(time.time()), ahead of libc time()
    /\ pc[t] = "check"
    /\ IF Len(Msgs(t)) # Expects(t) \/ Misfits(Asked(t), Msgs(t))
       THEN Raise(t, side[t], "refused") /\ UNCHANGED since
       ELSE /\ GoTo(t, "archive")
            /\ since' = [since EXCEPT ![t] = clock + 1]
            /\ UNCHANGED <<outcome, denied>>
    /\ UNCHANGED <<fdbVars, runVars, side, task, sent, tries, accepted>>

(* Everything that can be checked from the messages, then t_start.         *)
Check(t) ==
    /\ pc[t] = "check"
    /\ IF Len(Msgs(t)) # Expects(t) \/ Misfits(Asked(t), Msgs(t))
       THEN Raise(t, side[t], "refused") /\ UNCHANGED since
       ELSE /\ GoTo(t, "archive")
            /\ since' = [since EXCEPT ![t] = clock]
            /\ UNCHANGED <<outcome, denied>>
    /\ UNCHANGED <<fdbVars, runVars, side, task, sent, tries, accepted>>

(* FDB takes the next message of the batch.                                *)
ArchiveMessage(t) ==
    /\ pc[t] = "archive"
    /\ sent[t] < Len(Msgs(t))
    /\ SchemaAccepts(KeysOfMsg(t, sent[t] + 1))
    /\ Archive(t, sent[t] + 1)
    /\ sent' = [sent EXCEPT ![t] = @ + 1]
    /\ UNCHANGED <<stamp, holds, runVars, pc, side, task, since, tries, outcome,
                   accepted, denied>>

ArchivedAtEnd(t) ==  \* mutant: archived is counted after the loop
    IF sent[t] < Len(Msgs(t)) THEN 0 ELSE 1
(* archive() calls that returned: one per message with identifiers, a      *)
(* single one with the concatenated messages natively.                     *)
Archived(t) ==
    IF ArchiveMode = "identifier" THEN sent[t]
    ELSE IF sent[t] < Len(Msgs(t)) THEN 0 ELSE 1

(* archive() raises at the next message: the schema rejects it, or FDB     *)
(* fails.  If no call succeeded before, the error is re-raised as it is,   *)
(* without a flush.                                                        *)
ArchiveFails(t) ==
    /\ pc[t] = "archive"
    /\ sent[t] < Len(Msgs(t))
    /\ ~ SchemaAccepts(KeysOfMsg(t, sent[t] + 1)) \/ "archive" \in Faults
    /\ IF Archived(t) = 0 THEN Raise(t, side[t], "error")
       ELSE GoTo(t, "rescue") /\ UNCHANGED <<outcome, denied>>
    /\ UNCHANGED <<fdbVars, runVars, side, task, sent, since, tries, accepted>>

Flush(t) ==
    /\ pc[t] = "archive"
    /\ sent[t] = Len(Msgs(t))
    /\ Publish(buffer[Handle(t)])
    /\ Emptied(Handle(t))
    /\ BeginLookup(t, since[t])
    /\ UNCHANGED <<runVars, side, task, sent, outcome, accepted, denied>>

FlushFails(t) ==
    /\ "flush" \in Faults
    /\ pc[t] = "archive"
    /\ sent[t] = Len(Msgs(t))
    /\ GoTo(t, "rescue")
    /\ UNCHANGED <<fdbVars, runVars, side, task, sent, since, tries, outcome,
                   accepted, denied>>

RescueWithoutFlush(t) ==  \* mutant: the best-effort flush is left out
    /\ pc[t] = "rescue"
    /\ Raise(t, side[t], "stay")
    /\ UNCHANGED <<fdbVars, runVars, side, task, sent, since, tries, accepted>>

(* The best-effort flush after a failure; its own failure is suppressed.   *)
Rescue(t) ==
    /\ pc[t] = "rescue"
    /\ \/ /\ Publish(buffer[Handle(t)])
          /\ Emptied(Handle(t))
       \/ "flush" \in Faults /\ UNCHANGED fdbVars
    /\ Raise(t, side[t], "stay")
    /\ UNCHANGED <<runVars, side, task, sent, since, tries, accepted>>

-----------------------------------------------------------------------------
(* The post-check.                                                         *)

RetriesForever(t) ==  \* mutant: the count of attempts starts over
    /\ "inspect" \in Faults
    /\ pc[t] = "inspect"
    /\ tries' = [tries EXCEPT ![t] = (@ + 1) % MaxAttempts]
    /\ UNCHANGED <<fdbVars, runVars, pc, side, task, sent, since, outcome,
                   accepted, denied>>
RetriesOnceMore(t) ==  \* mutant: one attempt too many
    /\ "inspect" \in Faults
    /\ pc[t] = "inspect"
    /\ tries[t] < MaxAttempts
    /\ tries' = [tries EXCEPT ![t] = @ + 1]
    /\ UNCHANGED <<fdbVars, runVars, pc, side, task, sent, since, outcome,
                   accepted, denied>>

(* A transient failure of inspect is retried.                              *)
InspectRetried(t) ==
    /\ "inspect" \in Faults
    /\ pc[t] = "inspect"
    /\ tries[t] + 1 < MaxAttempts
    /\ tries' = [tries EXCEPT ![t] = @ + 1]
    /\ UNCHANGED <<fdbVars, runVars, pc, side, task, sent, since, outcome,
                   accepted, denied>>

(* The lookup raises: the last attempt failed, the failure is one that is  *)
(* not retried, or it found fewer fields than expected and a root is not   *)
(* readable when the roots are checked, whether that one hid fields or not.*)
LookupFails(t) ==
    /\ pc[t] = "inspect"
    /\ \/ "inspect" \in Faults
       \/ /\ "roots" \in Faults
          /\ \E fields \in Inspected(t) : Cardinality(fields) < Expects(t)
    /\ Raise(t, side[t], "error")
    /\ UNCHANGED <<fdbVars, runVars, side, task, sent, since, tries, accepted>>

WantedLess(t) == Expected(task[t].query) - 1  \* mutant: off by one
(* How many fresh fields the post-check wants.                             *)
Wanted(t) == IF task[t].kind = "plain" THEN Expected(task[t].query) ELSE Len(Msgs(t))

EnoughWithStale(t, fields) ==  \* mutant: fields from before the store count too
    Cardinality(fields) >= Wanted(t)
Enough(t, fields) == Cardinality(Fresh(fields, since[t])) >= Wanted(t)

(* Success: api.archive leaves its marker, the store step is done.         *)
PostCheckPasses(t) ==
    /\ pc[t] = "inspect"
    /\ \E fields \in Inspected(t) : Enough(t, fields)
    /\ IF side[t] = "job"
       THEN GoTo(t, "marker") /\ UNCHANGED <<outcome, accepted>>
       ELSE /\ GoTo(t, "idle")
            /\ outcome' = [outcome EXCEPT ![t] = "stored"]
            /\ accepted' = accepted \cup
                {[query |-> task[t].query, since |-> since[t], job |-> task[t].job]}
    /\ UNCHANGED <<fdbVars, runVars, side, task, sent, since, tries, denied>>

(* Too few fields, in FDB or because a root hid some that is readable      *)
(* again when the roots are checked.  The report of an empty file names    *)
(* the missing fields, the others say that what was archived stays.        *)
PostCheckRejects(t) ==
    /\ pc[t] = "inspect"
    /\ \E fields \in Inspected(t) : ~ Enough(t, fields)
    /\ Raise(t, side[t], IF task[t].kind = "plain" THEN "error" ELSE "stay")
    /\ UNCHANGED <<fdbVars, runVars, side, task, sent, since, tries, accepted>>

-----------------------------------------------------------------------------
(* Outputs the job archived itself.                                        *)

CheckMarkerUncounted(t) ==  \* mutant: the marker's count is not compared
    /\ pc[t] = "marker"
    /\ side' = [side EXCEPT ![t] = "store"]
    /\ IF task[t].under # task[t].query THEN Raise(t, "store", "stay") /\ UNCHANGED <<since, tries>>
       ELSE BeginLookup(t, since[t]) /\ UNCHANGED <<outcome, denied>>
    /\ UNCHANGED <<fdbVars, runVars, task, sent, accepted>>

(* The store step finds api.archive's marker; its time is the archive's    *)
(* t_start, its count the one api.archive made of the query.  The error    *)
(* about the count does not say that the fields stay.                      *)
CheckMarker(t) ==
    /\ pc[t] = "marker"
    /\ side' = [side EXCEPT ![t] = "store"]
    /\ IF task[t].under # task[t].query THEN Raise(t, "store", "stay") /\ UNCHANGED <<since, tries>>
       ELSE IF Len(Msgs(t)) # Expected(task[t].query)
       THEN Raise(t, "store", "error") /\ UNCHANGED <<since, tries>>
       ELSE BeginLookup(t, since[t]) /\ UNCHANGED <<outcome, denied>>
    /\ UNCHANGED <<fdbVars, runVars, task, sent, accepted>>

(* A job with plain pyfdb archives some more of its messages and flushes.  *)
PlainArchive(t) ==
    /\ pc[t] = "plain"
    /\ sent[t] < Len(Msgs(t))
    /\ sent' = [sent EXCEPT ![t] = @ + 1]
    /\ SchemaAccepts(KeysOfMsg(t, sent[t] + 1))
    /\ Publish(Only(AsField(KeysOfMsg(t, sent[t] + 1)),
                     [job |-> task[t].job, msg |-> sent[t] + 1]))
    /\ UNCHANGED <<buffer, runVars, pc, side, task, since, tries, outcome, accepted,
                   denied>>

(* It ends with an empty file; the store step wants every field of the     *)
(* query since the reference time of its process.                          *)
PlainDone(t) ==
    /\ pc[t] = "plain"
    /\ side' = [side EXCEPT ![t] = "store"]
    /\ BeginLookup(t, runTime[t])
    /\ UNCHANGED <<fdbVars, runVars, task, sent, outcome, accepted, denied>>

(* The process of a failed job or store step ends; FDB may flush its       *)
(* handle then.                                                            *)
JobExits(t) ==
    /\ pc[t] = "exit"
    /\ GoTo(t, "idle")
    /\ Publish(buffer[Handle(t)]) \/ UNCHANGED <<stamp, holds>>
    /\ Emptied(Handle(t))
    /\ UNCHANGED <<runVars, side, task, sent, since, tries, outcome, accepted, denied>>

-----------------------------------------------------------------------------
ThreadStep(t) ==
    \/ Check(t) \/ ArchiveMessage(t) \/ ArchiveFails(t) \/ Flush(t) \/ FlushFails(t)
    \/ Rescue(t) \/ InspectRetried(t) \/ LookupFails(t) \/ PostCheckPasses(t)
    \/ PostCheckRejects(t) \/ CheckMarker(t) \/ PlainArchive(t) \/ PlainDone(t)
    \/ JobExits(t)

Next == Tick \/ ForeignWrite \/ \E t \in Thread : StartJob(t) \/ ThreadStep(t)

Spec == Init /\ [][Next]_vars

(* A running thread keeps running: every call it makes returns or raises.  *)
Fairness == \A t \in Thread : WF_vars(ThreadStep(t))
FairSpec == Spec /\ Fairness

-----------------------------------------------------------------------------
(* Properties.                                                             *)

(* What the store steps of outputs that the plugin can check promise.      *)
Checked == {a \in accepted : SchemaReadable /\ Expandable(a.query)}
Masking == INSTANCE MaskingStore
           WITH accepted <- {[query |-> a.query, since |-> a.since] : a \in Checked}

(* The write path implements the abstract store: whatever fails and        *)
(* whoever interferes, fields appear at once and only with the current     *)
(* second, none disappears or grows older, and a store step succeeds only  *)
(* while every field its query names is there (store_object, FR-STORE-009).*)
ImplementsMasking == Masking!MaskSpec

(* Every variable has its type.                                            *)
TypeOK ==
    /\ clock \in Nat \ {0}
    /\ stamp \in [FieldKey -> Nat]
    /\ holds \in [FieldKey -> Origin]
    /\ buffer \in [Thread \X Side -> [FieldKey -> Origin]]
    /\ pc \in [Thread -> PC]
    /\ side \in [Thread -> Side]
    /\ task \in [Thread -> Task]
    /\ sent \in [Thread -> Nat]
    /\ since \in [Thread -> Nat]
    /\ tries \in [Thread -> 0..(MaxAttempts - 1)]
    /\ runTime \in [Thread -> Nat \ {0}]
    /\ outcome \in [Thread -> Outcome]
    /\ accepted \subseteq [query : Output, since : Nat, job : Nat]
    /\ denied \subseteq [job : Nat, at : PC]
    /\ ran \in Nat
    /\ foreign \in Nat

(* A store step that succeeds was right to: every field its query names is *)
(* in FDB with a timestamp not older than the second the check asks for,   *)
(* and stays there whatever else is archived.  It counts fields, so this   *)
(* rests on inspect and the count of the expansion meaning the same set    *)
(* (post-check of store_object, with a schema and a query it can read).    *)
StoredIsComplete ==
    SchemaReadable =>
        \A a \in accepted : Expandable(a.query) =>
            \A f \in Named(a.query) :
                f \in FieldKey /\ stamp[f] > 0 /\ stamp[f] >= a.since

(* When the post-check accepts what archive_messages archived and no field *)
(* it counted is someone else's, then each message of the file is a field  *)
(* of its own that the query names: nothing was masked by the file's own   *)
(* messages or landed elsewhere.                                           *)
OwnDataLands ==
    [][\A t \in Thread :
        (/\ PostCheckPasses(t) /\ task[t].kind # "plain" /\ SchemaReadable
         /\ \A f \in Fresh(Fields(Asked(t)), since[t]) : holds[f].job = task[t].job)
        => \A i \in DOMAIN Msgs(t) :
            \E f \in Named(Asked(t)) : holds[f] = [job |-> task[t].job, msg |-> i]]_vars

(* The post-check's report "landed outside the query or are duplicates" is *)
(* true: a file whose messages are the fields of its query is never        *)
(* rejected, whatever other writers do and however long the store takes,   *)
(* unless a root hides fields from the post-check and is back before the   *)
(* roots are checked.                                                      *)
OnlyBadFilesRejected ==
    [][\A t \in Thread :
        PostCheckRejects(t) /\ task[t].kind # "plain" /\ "roots" \notin Faults =>
            LET lands == [i \in DOMAIN Msgs(t) |-> AsField(KeysOfMsg(t, i))]
            IN  \/ \E i \in DOMAIN lands : lands[i] \notin Named(Asked(t))
                \/ \E i, j \in DOMAIN lands : i # j /\ lands[i] = lands[j]]_vars

(* cleanup(): archiving handles "are per thread and flushed after every    *)
(* store", so that a later flush publishes nothing of an earlier job.      *)
HandlesFlushed ==
    \A t \in Thread : pc[t] = "idle" => buffer[<<t, "store">>] = Nothing

(* "Only post-check and archive failures leave fields behind, and their    *)
(* messages say so": no message of a job whose file was refused is ever in *)
(* FDB, and none of one whose archive or flush failed with an error that   *)
(* does not say that fields stay, neither then nor with what the thread    *)
(* stores later.  A native batch that fails in the middle is excepted, and *)
(* so is what fails after the flush: the post-check's lookup and the count *)
(* of a marker.                                                            *)
ErrorsSayFieldsStay ==
    \A e \in denied :
        \/ e.at = "check"
        \/ e.at \in {"archive", "rescue"} /\ ArchiveMode = "identifier"
        => \A f \in FieldKey : holds[f].job # e.job

(* Every job that starts comes to an end with its store step: retries are  *)
(* bounded and nothing waits for another thread.                           *)
StoreEnds == \A t \in Thread : pc[t] # "idle" ~> pc[t] = "idle"

-----------------------------------------------------------------------------
(* What StoredIsComplete rests on.  Index timestamps are never from the    *)
(* future, so that a flush never makes a field older.                      *)
StampsNotAhead == \A f \in FieldKey : stamp[f] <= clock

(* A store step never asks the post-check for fewer fields than its query  *)
(* expands to: archive_messages and the marker's check compared the count  *)
(* of the messages first.                                                  *)
CountsMatch ==
    \A t \in Thread :
        /\ pc[t] = "plain" => task[t].kind = "plain"
        /\ /\ pc[t] \in {"archive", "rescue", "inspect"}
           /\ side[t] = "store"
           /\ task[t].kind # "plain"
           => Len(Msgs(t)) = Expected(task[t].query)

(* A post-check never asks for a second FDB's clock has not reached.       *)
SinceReached ==
    \A t \in Thread :
        /\ runTime[t] <= clock /\ since[t] <= clock
        /\ pc[t] \in {"archive", "rescue", "inspect", "marker"} => since[t] > 0

(* The inductive invariant of the write path.                              *)
StoreInv == TypeOK /\ StampsNotAhead /\ CountsMatch /\ SinceReached /\ StoredIsComplete

(* Only code that is between its first archive and its flush has messages  *)
(* in its handle, if each archive is a call of its own and flushes do not  *)
(* fail.                                                                   *)
HandlesHold ==
    \A t \in Thread, s \in Side :
        \/ buffer[<<t, s>>] = Nothing
        \/ /\ s = side[t]
           /\ pc[t] \in {"rescue", "exit"} \/ (pc[t] = "archive" /\ sent[t] > 0)

(* Where a thread is tells what it runs, and whether its job has ended.    *)
PlacesKnown ==
    \A t \in Thread :
        /\ task[t].job = 0 => pc[t] = "idle" /\ outcome[t] = "none"
        /\ outcome[t] # "none" => pc[t] \in {"idle", "exit"}
        /\ pc[t] = "marker" => side[t] = "job"
        /\ pc[t] = "exit" => side[t] = "job" \/ task[t].kind \in Spawned
        /\ task[t].kind = "file" => side[t] = "store"
        /\ pc[t] = "plain" => task[t].kind = "plain"
        /\ pc[t] = "check" => task[t].kind # "plain"

(* No two threads work on one job, and what is in a handle or in FDB is of *)
(* a job that has started, in a handle of its own thread.                  *)
JobsApart ==
    /\ \A t \in Thread : task[t].job <= ran
    /\ \A t, u \in Thread : task[t].job = task[u].job /\ task[t].job > 0 => t = u
    /\ \A f \in FieldKey : holds[f].job <= ran
    /\ \A h \in Thread \X Side, f \in FieldKey :
        /\ buffer[h][f].job <= ran
        /\ \A t \in Thread : buffer[h][f].job = task[t].job /\ task[t].job > 0 => h[1] = t

(* A job whose code ended with an error is over on its thread; what FDB    *)
(* took of it, if ErrorsSayFieldsStay is about that error, is nothing.     *)
DeniedIsGone ==
    \A e \in denied :
        /\ 0 < e.job /\ e.job <= ran
        /\ \A t \in Thread : task[t].job = e.job => pc[t] \in {"idle", "exit"}
        /\ \/ e.at = "check"
           \/ e.at \in {"archive", "rescue"} /\ ArchiveMode = "identifier"
           => \A f \in FieldKey :
                /\ holds[f].job # e.job
                /\ \A h \in Thread \X Side : buffer[h][f].job # e.job

(* What a thread asks FDB about is what its job archives under.            *)
AskedUnder ==
    \A t \in Thread :
        /\ task[t].kind # "direct" => task[t].under = task[t].query
        /\ pc[t] \notin {"idle", "exit"} => Asked(t) = task[t].under

(* The field message i of a job becomes, and whether a message is in its   *)
(* place: under that field, and among the first n of the job.              *)
Lands(work, i) ==
    AsField(IF work.kind = "plain" THEN work.msgs[i]
            ELSE Keyed(work.under, work.msgs[i]))
Placed(origin, work, n, f) == origin.msg \in 1..n /\ f = Lands(work, origin.msg)

(* A message of a job is nowhere but under the field it becomes, once FDB  *)
(* took it.                                                                *)
MessagesPlaced ==
    \A t \in Thread :
        /\ sent[t] <= Len(Msgs(t))
        /\ \A f \in FieldKey :
            /\ holds[f].job = task[t].job /\ task[t].job > 0
                => Placed(holds[f], task[t], sent[t], f)
            /\ \A h \in Thread \X Side :
                buffer[h][f].job = task[t].job /\ task[t].job > 0
                    => Placed(buffer[h][f], task[t], sent[t], f)

(* What FDB took of a file is in the handle until it is flushed, and then  *)
(* in FDB, not older than the post-check asks for.                         *)
MessagesKept ==
    \A t \in Thread : task[t].kind # "plain" =>
        /\ pc[t] = "check" => sent[t] = 0
        /\ pc[t] = "archive" => \A i \in 1..sent[t] :
            /\ Lands(task[t], i) \in FieldKey
            /\ buffer[Handle(t)][Lands(task[t], i)] # Nobody
        /\ pc[t] \in {"inspect", "marker"} => \A i \in 1..Len(Msgs(t)) :
            /\ Lands(task[t], i) \in FieldKey
            /\ stamp[Lands(task[t], i)] >= since[t]

(* The inductive invariant about the messages of files.                    *)
FilesInv ==
    /\ StoreInv /\ PlacesKnown /\ JobsApart /\ AskedUnder
    /\ MessagesPlaced /\ MessagesKept
=============================================================================
