----------------------------- MODULE DnsMessage -----------------------------
(***************************************************************************)
(* DNS messages on the wire: internal/dnsttcore/dns/dns.go, with the       *)
(* compression of names, and what recvLoop of internal/dnsttclient/dns.go  *)
(* makes of a response.                                                    *)
(*                                                                         *)
(* One message is written, travels, and is read.  On the way it may be cut *)
(* short, be followed by other bytes, or have a compression pointer that   *)
(* leads to another place, as resolvers that rewrite messages produce.     *)
(*                                                                         *)
(* The wire is a sequence of cells: the header with its four counts, a     *)
(* label with its length octet, a pointer, the terminator of a name, and   *)
(* what follows the name of an entry.  Offsets count cells from 0.  IDs,   *)
(* classes and TTLs are left out.                                          *)
(***************************************************************************)
EXTENDS Integers, Sequences, SequencesExt

CONSTANTS
    Messages,                  \* the messages considered
    Domain,                    \* the name of the tunnel's domain
    Plain,                     \* characters String does not escape
    compressionPointerLimit,   \* 10 in the code
    PointerRange,              \* offsets a pointer can hold, 2^14 in the code
    MaxUint16,                 \* counts and lengths that fit, 65535 in the code
    MaxString,                 \* octets of a character-string, 255 in the code
    MaxNameLength              \* octets of a name, 255 in the code

\* A question or a resource record.
EntryType == [name : Seq(Seq(STRING)), type : STRING, data : Seq(Nat)]

ASSUME MessageAssumption ==
    /\ compressionPointerLimit \in Nat /\ PointerRange \in Nat \ {0}
    /\ Messages \subseteq [qr : BOOLEAN, rcode : Nat, packets : Seq(Seq(Nat)),
                           sections : [1..4 -> Seq(EntryType)]]

VARIABLES
    message,    \* its flags, its sections and the packets it carries
    wire,
    nameCache,  \* the builder's: String of a suffix -> offset
    toWrite,    \* entries not written yet
    phase,      \* "write", "overflow", "travel", "read", "failed" or "done"
    fate,       \* what happened on the way
    pos,        \* position of the reader
    labels,     \* of the name being read
    numPointers,
    seekTo,
    read,       \* the sections read so far
    queued      \* the packets handed to QueueIncoming

messageVars == <<message, wire, nameCache, toWrite, phase, fate,
                 pos, labels, numPointers, seekTo, read, queued>>

Header(m) == [kind |-> "header", qr |-> m.qr, rcode |-> m.rcode,
              counts |-> [i \in 1..4 |-> Len(m.sections[i])]]
Label(l) == [kind |-> "label", label |-> l]
Pointer(n) == [kind |-> "pointer", to |-> n]
Terminator == [kind |-> "terminator"]
Rest(e) == [kind |-> "rest", type |-> e.type, data |-> e.data]
Padding == [kind |-> "padding"]

\* Bytes outside [0-9A-Za-z-] become \xXX; only the dot between labels stays.
Escaped(label) ==
    FlattenSeq([i \in 1..Len(label) |->
        IF label[i] \in Plain THEN <<label[i]>> ELSE <<"\\", "x", label[i]>>])
String(name) == FlattenSeq([i \in 1..Len(name) |-> <<".">> \o Escaped(name[i])])

Suffix(name, i) == SubSeq(name, i, Len(name))

\* The offset a pointer may lead to instead of writing the suffix.
Cached_AnyOffset(name, i) == String(Suffix(name, i)) \in DOMAIN nameCache
Cached(name, i) ==
    /\ String(Suffix(name, i)) \in DOMAIN nameCache
    /\ nameCache[String(Suffix(name, i))] < PointerRange

\* How many labels WriteName writes verbatim.
Verbatim(name) ==
    LET known == {i \in 1..Len(name) : Cached(name, i)}
    IN  IF known = {} THEN Len(name) ELSE Min(known) - 1

NameCells(name) ==
    LET n == Verbatim(name)
    IN  [i \in 1..n |-> Label(name[i])] \o
        <<IF n = Len(name) THEN Terminator
          ELSE Pointer(nameCache[String(Suffix(name, n + 1))] % PointerRange)>>

WriteName(name) ==
    LET new == [s \in {String(Suffix(name, i)) : i \in 1..Verbatim(name)} |->
                  Len(wire) + (CHOOSE i \in 1..Verbatim(name) : s = String(Suffix(name, i))) - 1]
    IN  nameCache' = [s \in DOMAIN new \cup DOMAIN nameCache |->
                        IF s \in DOMAIN new THEN new[s] ELSE nameCache[s]]

WriterIdle == UNCHANGED <<message, nameCache, toWrite>>
ReaderIdle == UNCHANGED <<pos, labels, numPointers, seekTo, read, queued>>

MessageInit ==
    /\ message \in Messages
    /\ wire = << >> /\ nameCache = << >>
    /\ toWrite = LET s == message.sections IN s[1] \o s[2] \o s[3] \o s[4]
    /\ phase = "write" /\ fate = "whole"
    /\ pos = 0 /\ labels = << >> /\ numPointers = 0 /\ seekTo = 0
    /\ read = [i \in 1..4 |-> << >>]
    /\ queued = << >>

WriteHeader ==
    /\ phase = "write" /\ wire = << >>
    /\ IF \E i \in 1..4 : Len(message.sections[i]) > MaxUint16
         THEN phase' = "overflow" /\ UNCHANGED wire
         ELSE wire' = <<Header(message)>> /\ UNCHANGED phase
    /\ UNCHANGED <<message, nameCache, toWrite, fate>> /\ ReaderIdle

\* WriteQuestion and WriteRR; a question has no data.
WriteEntry ==
    /\ phase = "write" /\ wire # << >> /\ toWrite # << >>
    /\ LET e == Head(toWrite)
       IN  IF Len(e.data) > MaxUint16
             THEN /\ phase' = "overflow"
                  /\ UNCHANGED <<wire, nameCache, toWrite>>
             ELSE /\ WriteName(e.name)
                  /\ wire' = wire \o NameCells(e.name) \o <<Rest(e)>>
                  /\ toWrite' = Tail(toWrite)
                  /\ UNCHANGED phase
    /\ UNCHANGED <<message, fate>> /\ ReaderIdle

\* WireFormat returns.
Written ==
    /\ phase = "write" /\ wire # << >> /\ toWrite = << >>
    /\ phase' = "travel"
    /\ UNCHANGED <<wire, fate>> /\ WriterIdle /\ ReaderIdle
-----------------------------------------------------------------------------
\* The transport and the resolvers: external.
Arrives(w, f) ==
    /\ phase = "travel"
    /\ phase' = "read" /\ wire' = w /\ fate' = f
    /\ WriterIdle /\ ReaderIdle

Cut == \E n \in 0..Len(wire) - 1 : Arrives(SubSeq(wire, 1, n), "cut")

Cells(kinds) == {n \in 1..Len(wire) : wire[n].kind \in kinds}

\* The end of a name leads to some part of a name, or behind the message.
Repoint ==
    \E i \in Cells({"pointer", "terminator"}),
       to \in Cells({"label", "pointer", "terminator"}) \cup {Len(wire) + 1} :
      Arrives([wire EXCEPT ![i] = Pointer(to - 1)], "repointed")

Travel == Arrives(wire, "whole") \/ Arrives(Append(wire, Padding), "padded") \/ Cut \/ Repoint
-----------------------------------------------------------------------------
\* The section the next entry belongs to, 5 when all are read.
Section ==
    LET short == {i \in 1..4 : Len(read[i]) < wire[1].counts[i]}
    IN  IF short = {} THEN 5 ELSE Min(short)

Failed == phase' = "failed" /\ UNCHANGED <<wire, fate>> /\ WriterIdle /\ ReaderIdle

StillReading == UNCHANGED <<wire, fate, phase>> /\ WriterIdle

ReadHeader ==
    /\ phase = "read" /\ pos = 0
    /\ \/ wire = << >> /\ Failed
       \/ /\ wire # << >>
          /\ pos' = 1 /\ StillReading
          /\ UNCHANGED <<labels, numPointers, seekTo, read, queued>>

\* readName has begun and the rest of the entry is not reached.
InEntry == phase = "read" /\ pos # 0 /\ Section # 5

Here == wire[pos + 1]

ReadsPast == InEntry /\ pos >= Len(wire) /\ Failed

ReadLabel ==
    /\ InEntry /\ pos < Len(wire) /\ Here.kind = "label"
    /\ labels' = Append(labels, Here.label)
    /\ pos' = pos + 1
    /\ StillReading /\ UNCHANGED <<numPointers, seekTo, read, queued>>

MayFollow_Always == TRUE
MayFollow == numPointers < compressionPointerLimit

FollowPointer ==
    /\ InEntry /\ pos < Len(wire) /\ Here.kind = "pointer"
    /\ IF MayFollow
         THEN /\ seekTo' = IF numPointers = 0 THEN pos + 1 ELSE seekTo
              /\ numPointers' = numPointers + 1
              /\ pos' = Here.to
              /\ StillReading /\ UNCHANGED <<labels, read, queued>>
         ELSE Failed

NameLengthOf(ls) == Len(FlattenSeq(ls)) + Len(ls) + 1

\* The name ends; NewName checks it, and the rest of the entry is read from
\* behind it.
After == IF numPointers > 0 THEN seekTo ELSE pos + 1

ReadEntry ==
    /\ InEntry /\ pos < Len(wire) /\ Here.kind = "terminator"
    /\ IF NameLengthOf(labels) > MaxNameLength \/ After >= Len(wire)
         THEN Failed
         ELSE /\ read' = [read EXCEPT ![Section] = Append(@,
                            [name |-> labels, type |-> wire[After + 1].type,
                             data |-> wire[After + 1].data])]
              /\ pos' = After + 1
              /\ labels' = << >> /\ numPointers' = 0 /\ seekTo' = 0
              /\ StillReading /\ UNCHANGED queued
-----------------------------------------------------------------------------
ToLower(label) == [i \in 1..Len(label) |-> IF label[i] = "A" THEN "a" ELSE label[i]]

TrimSuffix(name, suffix) ==
    /\ Len(name) >= Len(suffix)
    /\ \A i \in 1..Len(suffix) :
         ToLower(name[Len(name) - Len(suffix) + i]) = ToLower(suffix[i])

\* One or more character-strings, all but the last of full length.
EncodeRDataTXT(p) ==
    LET enc[n \in 0..Len(p)] ==   \* the last n octets
          IF n > MaxString
            THEN <<MaxString>> \o SubSeq(p, Len(p) - n + 1, Len(p) - n + MaxString)
                   \o enc[n - MaxString]
            ELSE <<n>> \o SubSeq(p, Len(p) - n + 1, Len(p))
    IN  enc[Len(p)]

NoPayload == [ok |-> FALSE, octets |-> << >>]

DecodeRDataTXT(d) ==
    LET dec[i \in 1..Len(d) + 1] ==   \* from octet i
          IF i > Len(d) \/ i + d[i] > Len(d) THEN NoPayload
          ELSE LET last == i + d[i]
                   octets == SubSeq(d, i + 1, last)
               IN  IF last = Len(d) THEN [ok |-> TRUE, octets |-> octets]
                   ELSE [dec[last + 1] EXCEPT !.octets = octets \o @]
    IN  dec[1]

dnsResponsePayload ==
    LET answer == read[2][1]
    IN  IF /\ wire[1].qr /\ wire[1].rcode = 0
           /\ Len(read[2]) = 1
           /\ TrimSuffix(answer.name, Domain)
           /\ answer.type = "TXT"
           /\ DecodeRDataTXT(answer.data).ok
          THEN DecodeRDataTXT(answer.data).octets
          ELSE << >>

\* The packets nextPacket reads until it meets the end, in or behind one.
Packets(octets) ==
    LET from[i \in 1..Len(octets) + 1] ==
          IF i > Len(octets) \/ i + octets[i] > Len(octets) THEN << >>
          ELSE <<SubSeq(octets, i + 1, i + octets[i])>> \o from[i + octets[i] + 1]
    IN  from[1]

\* readMessage returns; bytes behind the message are an error.  recvLoop then
\* queues the packets of the payload.
Trailing == pos < Len(wire)

ReadDone ==
    /\ phase = "read" /\ pos # 0 /\ Section = 5
    /\ IF Trailing THEN Failed
       ELSE /\ queued' = Packets(dnsResponsePayload)
            /\ phase' = "done"
            /\ UNCHANGED <<wire, fate, pos, labels, numPointers, seekTo, read>>
            /\ WriterIdle

Reading == ReadHeader \/ ReadsPast \/ ReadLabel \/ FollowPointer \/ ReadEntry \/ ReadDone

MessageNext == WriteHeader \/ WriteEntry \/ Written \/ Travel \/ Reading

MessageSpec == MessageInit /\ [][MessageNext]_messageVars
-----------------------------------------------------------------------------
(***************************************************************************)
(* A message that arrives as it was written is read back name by name and  *)
(* entry by entry: the compression of WriteName, which keeps suffixes as   *)
(* strings and gives up on offsets a pointer cannot hold, is undone by     *)
(* readName, which has to find its way back behind the first pointer.      *)
(* recvLoop then queues the packets of a response to a name below the      *)
(* domain in whatever case its letters come back, in order and whole       *)
(* wherever character-strings cut them, and nothing of any other message   *)
(* or of one that lost its end or carries more bytes.                      *)
(***************************************************************************)
MessageReadBack ==
    /\ fate = "whole" /\ phase \in {"failed", "done"} =>
          phase = "done" /\ read = message.sections /\ queued = message.packets
    /\ fate \in {"cut", "padded"} => queued = << >>

\* What is left to read, counting each entry, pointer and cell in full.
EntriesLeft == IF wire = << >> THEN 0
               ELSE LET left(i) == wire[1].counts[i] - Len(read[i])
                    IN  left(1) + left(2) + left(3) + left(4)
ToRead ==
    LET span == Len(wire) + 2
    IN  (EntriesLeft * (compressionPointerLimit + 1) + compressionPointerLimit - numPointers) * span
          + Len(wire) + 1 - pos

(***************************************************************************)
(* MessageFromWireFormat ends whatever pointers lead to: each of its steps *)
(* uses up something of which there was a finite amount.                   *)
(***************************************************************************)
ReadingShrinks ==
    [][phase = "read" => phase' # "read" \/ (ToRead' < ToRead /\ ToRead' >= 0)]_messageVars
=============================================================================
