------------------------------ MODULE Retrieve ------------------------------
(***************************************************************************)
(* The read path of one query: retrieve_object, which writes the query's   *)
(* fields to a local file through <dest>.part, and api.messages, which     *)
(* streams them to a job.  Other processes archive fields meanwhile:       *)
(* fields of the query again, with messages of other lengths, and fields   *)
(* inspect and retrieve match through a query key they lack.  FDB's lookup *)
(* and its data handle are two reads at two times.                         *)
(***************************************************************************)
EXTENDS Naturals, FiniteSets, FiniteSetsExt

CONSTANTS
    Field,        \* the fields the query expands to
    Through,      \* fields without a query key FDB indexes, matched through
    LengthOf,     \* [1..MaxVersion -> Nat \ {0}]: bytes of a field's message
    NoFile,       \* there is no file
    Modes,        \* subset of {"file", "stream"}
    Faults,       \* subset of {"inspect", "read", "short", "interrupt", "kill"}
    MaxAttempts,  \* attempts of the interface's retry decorator (3)
    MaxVersion,   \* bound on the times a field is archived
    MaxWrites,    \* bound on the archives of other processes
    MaxRuns       \* bound on the retrievals

ASSUME RetrieveAssumption ==
    /\ IsFiniteSet(Field) /\ IsFiniteSet(Through)
    /\ Field # {} /\ Field \cap Through = {}
    /\ MaxAttempts \in Nat \ {0}
    /\ MaxVersion \in Nat \ {0} /\ MaxWrites \in Nat /\ MaxRuns \in Nat
    /\ LengthOf \in [1..MaxVersion -> Nat \ {0}]
    /\ Modes \subseteq {"file", "stream"}
    /\ Faults \subseteq {"inspect", "read", "short", "interrupt", "kill"}

VARIABLES
    version,   \* [Field \cup Through -> 0..MaxVersion]: 0, or the one FDB returns
    pc,        \* "idle", "lookup", "open", "copy", "check", "done", "failed"
    mode,      \* "file" or "stream"
    found,     \* the versions inspect saw, of the fields that count
    view,      \* the versions the open data handle delivers
    part,      \* <dest>.part, or what the stream yielded: {<<field, version>>...}
    dest,      \* the local file, of the same form
    tries,     \* failed attempts of the retried call
    killed,    \* history: a killed process left <dest>.part behind
    writes,    \* history: archives of other processes
    runs       \* history: retrievals started

vars == <<version, pc, mode, found, view, part, dest, tries, killed, writes, runs>>

All == Field \cup Through
Content == SUBSET (All \X (1..MaxVersion))
TotalLength(content) == MapThenSumSet(LAMBDA e : LengthOf[e[2]], content)

(* What one read of FDB gives at this moment.                              *)
Snapshot(S) == {<<f, version[f]>> : f \in {g \in S : version[g] > 0}}

-----------------------------------------------------------------------------
Init ==
    /\ version \in [All -> 0..1]
    /\ pc = "idle"
    /\ mode \in Modes
    /\ found = {} /\ view = {} /\ part = NoFile
    /\ dest = NoFile
    /\ tries = 0
    /\ killed = FALSE
    /\ writes = 0 /\ runs = 0

(* Another process archives and flushes fields in one go.                  *)
Rearchive ==
    /\ writes < MaxWrites
    /\ writes' = writes + 1
    /\ \E S \in SUBSET All \ {{}} :
        /\ \A f \in S : version[f] < MaxVersion
        /\ version' = [f \in All |-> IF f \in S THEN version[f] + 1 ELSE version[f]]
    /\ UNCHANGED <<pc, mode, found, view, part, dest, tries, killed, runs>>

Start ==
    /\ pc \in {"idle", "done", "failed"}
    /\ runs < MaxRuns
    /\ runs' = runs + 1
    /\ pc' = "lookup"
    /\ tries' = 0
    /\ UNCHANGED <<version, mode, found, view, part, dest, killed, writes>>

(* _fields: the fields inspect finds that carry the query's indexed keys.  *)
(* An incomplete answer raises the missing-field report.                   *)
Lookup ==
    /\ pc = "lookup"
    /\ found' = Snapshot(Field)
    /\ pc' = IF Cardinality(found') = Cardinality(Field) THEN "open" ELSE "failed"
    /\ tries' = 0
    /\ UNCHANGED <<version, mode, view, part, dest, killed, writes, runs>>

LookupFails ==
    /\ "inspect" \in Faults
    /\ pc = "lookup"
    /\ \/ /\ tries + 1 < MaxAttempts
          /\ tries' = tries + 1 /\ UNCHANGED pc
       \/ pc' = "failed" /\ UNCHANGED tries
    /\ UNCHANGED <<version, mode, found, view, part, dest, killed, writes, runs>>

(* retrieve with a fresh handle; <dest>.part is opened for writing.        *)
Open ==
    /\ pc = "open"
    /\ view' = Snapshot(All)
    /\ part' = {}
    /\ killed' = FALSE
    /\ pc' = "copy"
    /\ UNCHANGED <<version, mode, found, dest, tries, writes, runs>>

Copy ==
    /\ pc = "copy"
    /\ \E e \in view \ part : part' = part \cup {e}
    /\ UNCHANGED <<version, pc, mode, found, view, dest, tries, killed, writes, runs>>

(* The data handle says it is at its end, which may come early.            *)
CopyDone ==
    /\ pc = "copy"
    /\ part = view \/ "short" \in Faults
    /\ pc' = "check"
    /\ UNCHANGED <<version, mode, found, view, part, dest, tries, killed, writes, runs>>

AttemptFailsLeavesPart(transient) ==  \* mutant: <dest>.part stays
    /\ UNCHANGED part
    /\ IF transient /\ mode = "file" /\ tries + 1 < MaxAttempts
       THEN pc' = "open" /\ tries' = tries + 1
       ELSE pc' = "failed" /\ UNCHANGED tries
AttemptFailsUncounted(transient) ==  \* mutant: attempts are not counted
    /\ part' = IF mode = "file" THEN NoFile ELSE part
    /\ IF transient /\ mode = "file"
       THEN pc' = "open" /\ UNCHANGED tries
       ELSE pc' = "failed" /\ UNCHANGED tries
AttemptFailsOnceMore(transient) ==  \* mutant: one attempt too many
    /\ part' = IF mode = "file" THEN NoFile ELSE part
    /\ IF transient /\ mode = "file" /\ tries + 1 <= MaxAttempts
       THEN pc' = "open" /\ tries' = tries + 1
       ELSE pc' = "failed" /\ UNCHANGED tries

(* An attempt ends with an error: <dest>.part is removed.  Transient       *)
(* failures of retrieve_to are retried; the stream is not.                 *)
AttemptFails(transient) ==
    /\ part' = IF mode = "file" THEN NoFile ELSE part
    /\ IF transient /\ mode = "file" /\ tries + 1 < MaxAttempts
       THEN pc' = "open" /\ tries' = tries + 1
       ELSE pc' = "failed" /\ UNCHANGED tries

ReadFails ==
    /\ "read" \in Faults
    /\ pc = "copy"
    /\ \E transient \in BOOLEAN : AttemptFails(transient)
    /\ UNCHANGED <<version, mode, found, view, dest, killed, writes, runs>>

(* The byte count, with the lookup's lengths as the expected one: a        *)
(* mismatch is raised inside the retried call and is an unmapped Exception.*)
BytesDiffer ==
    /\ pc = "check" /\ mode = "file"
    /\ TotalLength(part) # TotalLength(found)
    /\ AttemptFails(TRUE)
    /\ UNCHANGED <<version, mode, found, view, dest, killed, writes, runs>>

ReplaceUnlessLonger ==  \* mutant: only a copy with too many bytes is rejected
    /\ pc = "check" /\ mode = "file"
    /\ TotalLength(part) <= TotalLength(found)
    /\ dest' = part
    /\ part' = NoFile
    /\ pc' = "done"
    /\ UNCHANGED <<version, mode, found, view, tries, killed, writes, runs>>
ReplaceUncounted ==  \* mutant: the byte count is not compared
    /\ pc = "check" /\ mode = "file"
    /\ dest' = part
    /\ part' = NoFile
    /\ pc' = "done"
    /\ UNCHANGED <<version, mode, found, view, tries, killed, writes, runs>>

Replace ==
    /\ pc = "check" /\ mode = "file"
    /\ TotalLength(part) = TotalLength(found)
    /\ dest' = part
    /\ part' = NoFile
    /\ pc' = "done"
    /\ UNCHANGED <<version, mode, found, view, tries, killed, writes, runs>>

StreamEndsAtLeast ==  \* mutant: only a stream that is too short raises
    /\ pc = "check" /\ mode = "stream"
    /\ pc' = IF Cardinality(part) >= Cardinality(Field) THEN "done" ELSE "failed"
    /\ UNCHANGED <<version, mode, found, view, part, dest, tries, killed, writes, runs>>

(* _checked_stream compares the messages yielded with the expansion.       *)
StreamEnds ==
    /\ pc = "check" /\ mode = "stream"
    /\ pc' = IF Cardinality(part) = Cardinality(Field) THEN "done" ELSE "failed"
    /\ UNCHANGED <<version, mode, found, view, part, dest, tries, killed, writes, runs>>

(* KeyboardInterrupt and its like: the part file is removed, no retry.     *)
Interrupt ==
    /\ "interrupt" \in Faults
    /\ pc \in {"copy", "check"}
    /\ AttemptFails(FALSE)
    /\ UNCHANGED <<version, mode, found, view, dest, killed, writes, runs>>

(* The process is killed; a later run starts again.                        *)
Kill ==
    /\ "kill" \in Faults
    /\ pc \in {"copy", "check"} /\ mode = "file"
    /\ pc' = "idle"
    /\ killed' = TRUE
    /\ UNCHANGED <<version, mode, found, view, part, dest, tries, writes, runs>>

Step ==
    \/ Lookup \/ LookupFails \/ Open \/ Copy \/ CopyDone \/ ReadFails
    \/ BytesDiffer \/ Replace \/ StreamEnds
Next == Rearchive \/ Start \/ Interrupt \/ Kill \/ Step

Spec == Init /\ [][Next]_vars

(* Calls into FDB and the file system return or raise.                     *)
FairSpec == Spec /\ WF_vars(Step)

-----------------------------------------------------------------------------
(* Properties.                                                             *)

(* Every variable has its type.                                            *)
TypeOK ==
    /\ version \in [All -> 0..MaxVersion]
    /\ pc \in {"idle", "lookup", "open", "copy", "check", "done", "failed"}
    /\ mode \in {"file", "stream"}
    /\ found \in Content /\ view \in Content
    /\ part \in Content \cup {NoFile}
    /\ dest \in Content \cup {NoFile}
    /\ tries \in 0..(MaxAttempts - 1)
    /\ killed \in BOOLEAN
    /\ writes \in 0..MaxWrites
    /\ runs \in 0..MaxRuns

(* What was copied is a part of what was counted: a message of each field  *)
(* is no longer than the lookup said, and there is none the lookup did not *)
(* find.                                                                   *)
AsCounted ==
    \A e \in part : \E d \in found : d[1] = e[1] /\ LengthOf[e[2]] <= LengthOf[d[2]]

(* A local file is never partial: whatever fails or is killed, whenever    *)
(* the data handle ends, and whatever is archived between the lookup and   *)
(* the read, a file that appears holds every field of its query            *)
(* (retrieve_object, FR-READ-007).  Excepted is a data handle that ends    *)
(* early and makes up for the bytes it lacks: with messages longer than    *)
(* the lookup counted, or of fields that only match through a key.         *)
DestComplete ==
    [][dest' # dest /\ (part = view \/ AsCounted)
        => \A f \in Field : \E v \in 1..MaxVersion : <<f, v>> \in dest']_vars

(* Unless a field of the query was archived again between the lookup and   *)
(* the read, a local file that appears holds exactly the fields the lookup *)
(* counted.  The byte count that ensures it rejects the fields that only   *)
(* match through a key, and a data handle that ends early, but not both at *)
(* once.                                                                   *)
ExactUnlessRewritten ==
    [][Replace /\ found \subseteq view /\ (part = view \/ view = found)
        => dest' = found]_vars

(* A stream that ends without an error yielded exactly one message per     *)
(* field of the query (api.messages): one that ends early raises, and so   *)
(* does one that goes on with fields that match through a key.  Excepted   *)
(* is a stream that does both, whose messages may add up to the count.     *)
StreamExact ==
    /\ pc = "done" /\ mode = "stream"
    /\ part = view \/ \A e \in part : e[1] \in Field
    => /\ {e[1] : e \in part} = Field
       /\ Cardinality(part) = Cardinality(Field)

(* A retrieval that ends leaves no part file; only a killed one does, and  *)
(* the next attempt's open takes its place.                                *)
PartRemoved ==
    pc \in {"done", "failed"} /\ mode = "file" /\ ~ killed => part = NoFile

(* Every retrieval that is not killed ends.                                *)
RetrievalEnds == pc = "lookup" ~> pc \in {"done", "failed", "idle"}

-----------------------------------------------------------------------------
(* What these rest on.  Between the lookup and the read every field of the *)
(* query is in FDB, since nothing leaves it, and the lookup counted it.    *)
LookupComplete ==
    pc \in {"open", "copy", "check"} =>
        \A f \in Field : version[f] > 0 /\ \E d \in found : d[1] = f

(* A data handle delivers one message of every field, and what is copied   *)
(* is a part of that.                                                      *)
ViewOfFDB ==
    pc \in {"copy", "check"} \/ (pc = "done" /\ mode = "stream") =>
        /\ \A d, e \in view : d[1] = e[1] => d = e
        /\ \A f \in Field : \E v \in 1..MaxVersion : <<f, v>> \in view
        /\ part \in SUBSET view

(* What a stream that ended without an error has counted.                  *)
StreamCounted ==
    pc = "done" /\ mode = "stream" => Cardinality(part) = Cardinality(Field)

(* Outside an attempt there is no part file but one of a killed process.   *)
NoPartLeft ==
    mode = "file" /\ ~ killed /\ pc \notin {"copy", "check"} => part = NoFile

(* The inductive invariant of the read path.                               *)
RetrieveInv == TypeOK /\ LookupComplete /\ ViewOfFDB /\ StreamCounted /\ NoPartLeft
=============================================================================
