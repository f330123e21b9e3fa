----------------------------- MODULE GribStream -----------------------------
(***************************************************************************)
(* grib.stream_messages: complete GRIB messages from a source that hands   *)
(* out any number of bytes per readinto.  Section 0 is read ahead, so that *)
(* bytes of the next message may be read with a short one; NUL padding is  *)
(* skipped; anything else outside a message is an error.  A byte is a      *)
(* number: a message is its Indicator, its length (of edition 1, or of     *)
(* edition 2 with Edition2 added), a body, and End.                        *)
(***************************************************************************)
EXTENDS Naturals, Sequences, SequencesExt

CONSTANTS
    Sources,    \* the byte sequences a source may deliver
    Header,     \* bytes read ahead (16)
    MinHeader,  \* bytes that hold the edition and edition 1's length (8)
    Edition2    \* offset of edition 2's lengths in the model

Nul == 0
Indicator == 99
End == 98
Byte == 0..Indicator

ASSUME GribAssumption ==
    /\ MinHeader \in Nat /\ Header \in Nat
    /\ 2 <= MinHeader /\ MinHeader <= Header
    /\ Edition2 \in Nat
    /\ \A s \in Sources : s \in Seq(Byte)

VARIABLES
    left,      \* what the source has not delivered yet
    head,      \* bytes read past the previous message
    buffer,    \* what the current _read_exactly has got, or the message
    length,    \* the length of the current message
    pc,        \* "strip", "ahead", "header", "body", "end", "error"
    yielded,   \* the messages yielded
    source     \* history: the whole source

vars == <<left, head, buffer, length, pc, yielded, source>>

LStrip(s) == LET n == CHOOSE k \in 0..Len(s) :
                        /\ \A i \in 1..k : s[i] = Nul
                        /\ k < Len(s) => s[k + 1] # Nul
             IN  SubSeq(s, n + 1, Len(s))
Smaller(m, n) == IF m <= n THEN m ELSE n
Take(s, n) == SubSeq(s, 1, n)
Drop(s, n) == SubSeq(s, n + 1, Len(s))

(* _message_length and the headers it cannot take a length from.  How the   *)
(* header encodes the length, in units of 120 bytes for large GRIB1        *)
(* messages, is left out.                                                  *)
Truncated(h) ==
    Len(h) < MinHeader \/ (h[2] > Edition2 /\ Len(h) < Header)
MessageLength(h) == IF h[2] > Edition2 THEN h[2] - Edition2 ELSE h[2]

-----------------------------------------------------------------------------
Init ==
    /\ source \in Sources
    /\ left = source
    /\ head = <<>> /\ buffer = <<>> /\ length = 0
    /\ pc = "strip"
    /\ yielded = <<>>

Strip ==
    /\ pc = "strip"
    /\ head' = LStrip(head)
    /\ buffer' = <<>>
    /\ pc' = IF Len(head') < Header THEN "ahead" ELSE "header"
    /\ UNCHANGED <<left, length, yielded, source>>

(* One readinto: at least a byte unless the source is at its end.          *)
ReadInto(room) ==
    \E n \in 1..Smaller(room, Len(left)) :
        /\ buffer' = buffer \o Take(left, n)
        /\ left' = Drop(left, n)

ReadAhead ==
    /\ pc = "ahead"
    /\ ReadInto(Header - Len(head) - Len(buffer))
    /\ UNCHANGED <<head, length, pc, yielded, source>>

ReadAheadForever ==  \* mutant: the end of the source does not end the loop
    /\ pc = "ahead"
    /\ left = <<>> \/ Len(head) + Len(buffer) = Header
    /\ head' = head \o buffer
    /\ pc' = "strip"
    /\ UNCHANGED <<left, buffer, length, yielded, source>>

(* _read_exactly is done: its bytes may be padding too.                    *)
ReadAheadDone ==
    /\ pc = "ahead"
    /\ left = <<>> \/ Len(head) + Len(buffer) = Header
    /\ head' = head \o buffer
    /\ pc' = IF buffer = <<>> THEN "header" ELSE "strip"
    /\ UNCHANGED <<left, buffer, length, yielded, source>>

ReadHeader ==
    /\ pc = "header"
    /\ IF head = <<>>
       THEN pc' = "end" /\ UNCHANGED <<buffer, length>>
       ELSE IF head[1] # Indicator \/ Truncated(head)
       THEN pc' = "error" /\ UNCHANGED <<buffer, length>>
       ELSE /\ length' = MessageLength(head)
            /\ buffer' = Take(head, Smaller(Len(head), length'))
            /\ pc' = "body"
    /\ UNCHANGED <<left, head, yielded, source>>

ReadBody ==
    /\ pc = "body"
    /\ ReadInto(length - Len(buffer))
    /\ UNCHANGED <<head, length, pc, yielded, source>>

Complete == Len(buffer) = length /\ buffer # <<>> /\ Last(buffer) = End

TruncatedMessage ==
    /\ pc = "body"
    /\ left = <<>> \/ Len(buffer) = length
    /\ ~ Complete
    /\ pc' = "error"
    /\ UNCHANGED <<left, head, buffer, length, yielded, source>>

YieldDropsHead ==  \* mutant: bytes read past a short message are lost
    /\ pc = "body"
    /\ Complete
    /\ yielded' = Append(yielded, buffer)
    /\ head' = <<>>
    /\ pc' = "strip"
    /\ UNCHANGED <<left, buffer, length, source>>

Yield ==
    /\ pc = "body"
    /\ Complete
    /\ yielded' = Append(yielded, buffer)
    /\ head' = Drop(head, Smaller(Len(head), length))
    /\ pc' = "strip"
    /\ UNCHANGED <<left, buffer, length, source>>

Next ==
    \/ Strip \/ ReadAhead \/ ReadAheadDone \/ ReadHeader
    \/ ReadBody \/ TruncatedMessage \/ Yield

Spec == Init /\ [][Next]_vars /\ WF_vars(Next)

-----------------------------------------------------------------------------
(* Properties.                                                             *)

(* What a source holds from byte p on, read at once: the messages up to    *)
(* its end or the first error.                                             *)
Rest(s, p) == SubSeq(s, p, Len(s))
NoMessage(rest) ==
    \/ rest[1] # Indicator \/ Truncated(rest)
    \/ MessageLength(rest) = 0 \/ MessageLength(rest) > Len(rest)
    \/ rest[MessageLength(rest)] # End
WithFirst(m, more) == [messages |-> <<m>> \o more.messages, ends |-> more.ends]
Nothing(ends) == [messages |-> <<>>, ends |-> ends]
SplitFrom(s) ==
    LET split[p \in 1..(Len(s) + 1)] ==
            LET rest == Rest(s, p)
            IN  IF rest = <<>> THEN Nothing("end")
                ELSE IF rest[1] = Nul THEN split[p + 1]
                ELSE IF NoMessage(rest) THEN Nothing("error")
                ELSE WithFirst(Take(rest, MessageLength(rest)),
                               split[p + MessageLength(rest)])
    IN  split
Split(s) == SplitFrom(s)[1]

(* However the source cuts its bytes, the stream yields exactly its        *)
(* messages, in order, byte by byte: never one too many or a wrong one on  *)
(* the way, all of them at the end, and the error only after the messages  *)
(* before it (stream_messages).                                            *)
YieldsTheMessages ==
    LET expected == Split(source)
    IN  /\ IsPrefix(yielded, expected.messages)
        /\ pc \in {"end", "error"} => yielded = expected.messages /\ pc = expected.ends

(* The generator ends for every source.                                    *)
StreamEnds == <>(pc \in {"end", "error"})

-----------------------------------------------------------------------------
(* What YieldsTheMessages rests on: p is the first byte that is not        *)
(* accounted for, by a message yielded or as padding, and what is read of  *)
(* the source at each point of the loop is what the source has there.      *)
TypeOK ==
    /\ source \in Sources
    /\ left \in Seq(Byte) /\ head \in Seq(Byte) /\ buffer \in Seq(Byte)
    /\ length \in Nat
    /\ pc \in {"strip", "ahead", "header", "body", "end", "error"}
    /\ yielded \in Seq(Seq(Byte))

NoPadding == head # <<>> => head[1] # Nul

AtByte(p) ==
    LET from == SplitFrom(source)
        rest == Rest(source, p)
    IN  /\ from[1].messages = yielded \o from[p].messages
        /\ from[1].ends = from[p].ends
        /\ pc = "strip" => head \o left = rest
        /\ pc = "ahead" =>
            /\ NoPadding
            /\ (head \o buffer) \o left = rest
            /\ Len(head) + Len(buffer) <= Header
        /\ pc = "header" =>
            /\ NoPadding
            /\ head \o left = rest
            /\ Len(head) >= Header \/ left = <<>>
        /\ pc = "body" =>
            /\ rest # <<>> /\ rest[1] = Indicator /\ ~ Truncated(rest)
            /\ length = MessageLength(rest)
            /\ (buffer \o Drop(head, Smaller(Len(head), length))) \o left = rest
            /\ Len(buffer) <= length
            /\ Len(buffer) < length => Len(head) < length
        /\ pc \in {"end", "error"} => from[p] = Nothing(pc)

StreamInv == TypeOK /\ \E p \in 1..(Len(source) + 1) : AtByte(p)
=============================================================================
