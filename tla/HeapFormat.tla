----------------------------- MODULE HeapFormat -----------------------------
(***************************************************************************)
(* The PyHeap v1 artifact: what HeapWriter writes (heap_writer.py) and what*)
(* the readers make of it (reader.py, reader.go).  A document is a sequence*)
(* of words: an unsigned int, a bool or the length of a string is one, an  *)
(* address (u64) is two, and a string is its length and its characters.    *)
(* Nothing in a document says what a word is, so that a reader that is out *)
(* of step reads whatever is there.                                        *)
(***************************************************************************)
EXTENDS Integers, Sequences, FiniteSets, FiniteSetsExt, SequencesExt

CONSTANTS
    MaxU32,    \* the largest unsigned int
    MaxString, \* the longest string, and the largest unsigned short
    MaxShort,  \* the longest name of an attribute, the largest signed short
    Magic      \* the word that makes a u64 the magic value

ASSUME FormatAssumption ==
    /\ MaxShort \in Nat /\ MaxString = 2 * MaxShort + 1
    /\ MaxU32 \in Nat /\ MaxString <= MaxU32 /\ Magic \in 1..MaxU32

FormatVersion == 1
MagicU64 == <<0, Magic>>

(* The well-known types, by name.  One of list, tuple and set, which are   *)
(* laid out alike, stands for the three, and one type for all the others.  *)
ListName == <<1>>
DictName == <<2>>
OtherName == <<3>>
WellKnownTypeNames == <<ListName, DictName, OtherName>>

(* What the writer is given: known, the address of each well-known type;   *)
(* threads; objects in order, whose content goes by their kind; the names  *)
(* of the types, in order of their addresses.                              *)
Containers(known) == {known[n] : n \in {ListName, DictName}}

-----------------------------------------------------------------------------
(* The writer.                                                             *)

Cut(s, n) == SubSeq(s, 1, IF Len(s) > n THEN n ELSE Len(s))

WriteLongString(s)  == <<Len(Cut(s, MaxString))>> \o Cut(s, MaxString)
WriteShortString(s) == <<Len(Cut(s, MaxShort))>> \o Cut(s, MaxShort)
WriteSeq(s, Item(_)) == <<Len(s)>> \o FlattenSeq([i \in DOMAIN s |-> Item(s[i])])
WriteNamed(p)  == WriteLongString(p[1]) \o p[2]
WriteAttribute(p) == WriteShortString(p[1]) \o p[2]
WriteType(p)   == p[1] \o WriteLongString(p[2])
WriteU64(a)    == a
WriteEntry(p)  == p[1] \o p[2]

WriteHeader(h) ==
    MagicU64 \o <<FormatVersion>> \o WriteLongString(h.created)
    \o <<0, IF h.strRepr THEN 1 ELSE 0>> \o WriteSeq([i \in DOMAIN WellKnownTypeNames |->
                    <<WellKnownTypeNames[i], h.known[WellKnownTypeNames[i]]>>], WriteNamed)

WriteFrame(f) == WriteLongString(f.file) \o <<f.line>> \o WriteLongString(f.function)
                 \o WriteSeq(f.locals, WriteNamed)
WriteThread(t) == WriteLongString(t.name) \o <<t.alive, t.daemon>> \o WriteSeq(t.frames, WriteFrame)

(* No frequent attributes, no common types, and the number of objects,     *)
(* which is written as 0 and patched by finish.                            *)
BeginObjects(count) == <<0, 0, count>>

Clamp(size) == IF size < 0 THEN 0 ELSE IF size > MaxU32 THEN MaxU32 ELSE size

ContentOf(o) ==
    CASE o.kind = "dict"     -> {o.content[i][j] : i \in DOMAIN o.content, j \in {1, 2}}
      [] o.kind = "sequence" -> {o.content[i] : i \in DOMAIN o.content}
      [] OTHER               -> {}

(* Addresses as the writer sorts them: by the high word, then by the low.  *)
Less(a, b) == a[1] < b[1] \/ (a[1] = b[1] /\ a[2] < b[2])
Sorted(addresses) ==
    CHOOSE q \in [1..Cardinality(addresses) -> addresses] :
        ToSet(q) = addresses /\ \A i, j \in DOMAIN q : i < j => Less(q[i], q[j])

WriteObject(h, o) ==
    o.addr \o o.type \o <<Clamp(o.size)>>
    \o (CASE o.kind = "dict"     -> WriteSeq(o.content, WriteEntry)
          [] o.kind = "sequence" -> WriteSeq(o.content, WriteU64)
          [] OTHER               -> <<>>)
    \o WriteSeq(Sorted(o.refs \ ContentOf(o)), WriteU64)
    \o WriteSeq(o.attributes, WriteAttribute)
    \o (IF h.strRepr /\ o.type \notin Containers(h.known) THEN WriteLongString(o.repr) ELSE <<>>)

WriteTypes(h) == WriteSeq(h.types, WriteType) \o MagicU64

Preamble(h, count) ==
    WriteHeader(h) \o WriteSeq(h.threads, WriteThread) \o BeginObjects(count)
Body(h) == FlattenSeq([i \in DOMAIN h.objects |-> WriteObject(h, h.objects[i])])
Finished(h) == Preamble(h, Len(h.objects)) \o Body(h) \o WriteTypes(h)

(* write_header raises when a well-known type is missing, and _write_u32   *)
(* when a count or a line number does not fit.                             *)
Fits(d) == \A i \in DOMAIN d : d[i] \in 0..MaxU32
Writable(h) == ToSet(WellKnownTypeNames) \subseteq DOMAIN h.known /\ Fits(Finished(h))

(* What a writer that raised or was killed leaves: the number of objects is*)
(* patched before the type table is begun.                                 *)
Unfinished(h) ==
    IF ~(ToSet(WellKnownTypeNames) \subseteq DOMAIN h.known) THEN {<<>>} ELSE
    LET early == Preamble(h, 0) \o Body(h) IN
    {d \in {SubSeq(early, 1, n) : n \in 0..Len(early)}
           \cup {SubSeq(Finished(h), 1, n) : n \in Len(early)..Len(Finished(h)) - 1} : Fits(d)}

(* validate_artifact, which the collector calls before it publishes.       *)
Validated(d) ==
    Len(d) >= 4 /\ SubSeq(d, 1, 2) = MagicU64 /\ SubSeq(d, Len(d) - 1, Len(d)) = MagicU64

-----------------------------------------------------------------------------
(* What a writer is given.  A document is of unsigned numbers.             *)
Words == Seq(Nat)
U64 == {w \in Words : Len(w) = 2}
Named == Words \X U64
Typed == U64 \X Words
Entry == U64 \X U64
Frames == [file : Words, line : Nat, function : Words, locals : Seq(Named)]
Threads == [name : Words, alive : Nat, daemon : Nat, frames : Seq(Frames)]

(* An object as the agent reports it: the kind of its content is that of   *)
(* its exact type (content_kind tests with PyList_CheckExact and the like).*)
KindOfType(o, known) ==
    /\ o.kind = "dict" => o.content \in Seq(Entry) /\ o.type = known[DictName]
    /\ o.kind = "sequence" =>
          o.content \in Seq(U64) /\ o.type = known[ListName] /\ o.type # known[DictName]
    /\ o.kind = "none" => o.type \notin Containers(known)
IsObject(o, known) ==
    /\ o.addr \in U64 /\ o.type \in U64 /\ o.size \in Int /\ o.repr \in Words
    /\ o.refs \subseteq U64 /\ IsFiniteSet(o.refs) /\ o.attributes \in Seq(Named)
    /\ o.kind \in {"dict", "sequence", "none"} /\ KindOfType(o, known)

(* What a collector gives the writer: addresses and strings of their       *)
(* types, no object and no type twice, and every type of an object in the  *)
(* type table (types are added as objects are written).                    *)
IsHeap(h) ==
    /\ h.created \in Words /\ h.strRepr \in BOOLEAN /\ h.threads \in Seq(Threads)
    /\ \A n \in {ListName, DictName, OtherName} : h.known[n] \in U64
    /\ h.objects \in Seq(ToSet(h.objects)) /\ h.types \in Seq(Typed)
    /\ \A i \in DOMAIN h.objects : IsObject(h.objects[i], h.known)
    /\ \A i, j \in DOMAIN h.objects : h.objects[i].addr = h.objects[j].addr => i = j
    /\ \A i, j \in DOMAIN h.types : h.types[i][1] = h.types[j][1] => i = j
    /\ \A i \in DOMAIN h.objects : \E j \in DOMAIN h.types : h.types[j][1] = h.objects[i].type

(* What is left of a document whose writer had begun with the objects and  *)
(* not patched their number: it says that there are none.  A reader could  *)
(* take the objects for the type table and the footer, if they happened to *)
(* be laid out like one and to end with the magic value; not if the first  *)
(* address is a small number, as the upper half of it is then read as an   *)
(* empty type table and the lower half is not that of the magic value.     *)
Unpatched(h) ==
    {SubSeq(Preamble(h, 0) \o Body(h), 1, n) :
        n \in Len(Preamble(h, 0)) + 1..Len(Preamble(h, 0) \o Body(h))}
LowFirst(h) == Len(h.objects) > 0 /\ h.objects[1].addr[1] = 0 /\ h.objects[1].addr[2] # 0
ByChance(h, d) == d \in Unpatched(h) /\ Validated(d) /\ ~LowFirst(h)

-----------------------------------------------------------------------------
(* The readers.  A read returns the position behind it, 0 when the document*)
(* ended too early, and a read from position 0 fails as well.              *)

Read(at, val) == [at |-> at, val |-> val]
Truncated == Read(0, <<>>)

ReadU32(d, at) == IF at \in DOMAIN d THEN Read(at + 1, d[at]) ELSE Truncated
ReadU64(d, at) ==
    IF at \in DOMAIN d /\ at + 1 \in DOMAIN d THEN Read(at + 2, <<d[at], d[at + 1]>>) ELSE Truncated
ReadString(d, at, length) ==
    IF at = 0 \/ at + length > Len(d) + 1 THEN Truncated
    ELSE Read(at + length, SubSeq(d, at, at + length - 1))
ReadCounted(d, n) == IF n.at = 0 THEN Truncated ELSE ReadString(d, n.at, n.val)
ReadLongString(d, at) ==
    ReadCounted(d, ReadU32(d, at))

(* A record that is read field by field, and a counted sequence: its items *)
(* one behind the other, item[at] being the one that stands at at.         *)
Start(at) == Read(at, <<>>)
With(r, field) == Read(field.at, Append(r.val, field.val))
Then(d, r, Item(_, _)) == With(r, Item(d, r.at))
ReadPair(d, at, First(_, _), Second(_, _)) == Then(d, Then(d, Start(at), First), Second)
Items(item, n) ==
    LET read[i \in 0..n.val] ==
            IF i = 0 THEN Start(n.at) ELSE LET r == read[i - 1] IN With(r, item[r.at])
    IN  IF n.at = 0 THEN Truncated ELSE read[n.val]
ReadItems(d, n, Item(_, _)) == Items([at \in 0..Len(d) + 1 |-> Item(d, at)], n)
ReadSeq(d, at, Item(_, _)) == ReadItems(d, ReadU32(d, at), Item)

(* A signed short: a length, or when negative an index of the frequent     *)
(* attributes.                                                             *)
ReadAttributeName(d, at, frequent) ==
    LET n == ReadU32(d, at)
        index == MaxString - n.val + 1
    IN  IF n.at = 0 THEN Truncated
        ELSE IF n.val <= MaxShort THEN ReadString(d, n.at, n.val)
        ELSE IF index \in DOMAIN frequent THEN Read(n.at, frequent[index])
        ELSE Truncated
ReadAttributes(d, at, frequent) ==
    LET name(e, i) == ReadAttributeName(e, i, frequent)
        item(e, i) == ReadPair(e, i, name, ReadU64)
    IN  ReadSeq(d, at, item)

ReadNamed(d, at)     == ReadPair(d, at, ReadLongString, ReadU64)
ReadType(d, at)      == ReadPair(d, at, ReadU64, ReadLongString)
ReadEntry(d, at)     == ReadPair(d, at, ReadU64, ReadU64)
ReadNames(d, at)     == ReadSeq(d, at, ReadNamed)
ReadTypes(d, at)     == ReadSeq(d, at, ReadType)
ReadStrings(d, at)   == ReadSeq(d, at, ReadLongString)
ReadAddresses(d, at) == ReadSeq(d, at, ReadU64)

(* A dictionary built from pairs keeps the last value of a key.            *)
MapOf(s) == [k \in {s[i][1] : i \in DOMAIN s} |-> s[Max({i \in DOMAIN s : s[i][1] = k})][2]]

(* File, line, function and locals; name, alive, daemon and frames.        *)
ReadFrame(d, at) ==
    LET r == Then(d, Then(d, ReadPair(d, at, ReadLongString, ReadU32), ReadLongString), ReadNames)
    IN  Read(r.at, MapOf(r.val[4]))
ReadFrames(d, at) == ReadSeq(d, at, ReadFrame)
ReadThread(d, at) ==
    LET r == Then(d, Then(d, ReadPair(d, at, ReadLongString, ReadU32), ReadU32), ReadFrames)
    IN  Read(r.at, [name |-> r.val[1], frames |-> r.val[4]])
ReadThreads(d, at) == ReadSeq(d, at, ReadThread)

(* The layout of the content, and whether a string follows, go by the type *)
(* address, whatever kind of content the writer was given.                 *)
ReadContent(d, at, type, known) ==
    IF type = known[DictName] THEN ReadSeq(d, at, ReadEntry)
    ELSE IF type \in Containers(known) THEN ReadAddresses(d, at)
    ELSE Start(at)
ObjectRead(at, f, known) ==
    LET content == IF f[2] = known[DictName] THEN UNION {{p[1], p[2]} : p \in ToSet(f[4])}
                   ELSE ToSet(f[4])
    IN  Read(at, [addr |-> f[1], type |-> f[2], size |-> f[3],
                  refs |-> ToSet(f[5]) \cup content, repr |-> f[7]])
ReadObject(d, at, known, strRepr, frequent, common) ==
    LET head == Then(d, ReadPair(d, at, ReadU64, ReadU64), ReadU32)
        type == head.val[2]
        content(e, i) == ReadContent(e, i, type, known)
        attributes(e, i) == IF type \in common THEN Start(i) ELSE ReadAttributes(e, i, frequent)
        repr(e, i) == IF strRepr /\ type \notin Containers(known) THEN ReadLongString(e, i)
                      ELSE Start(i)
        all == Then(d, Then(d, Then(d, Then(d, head, content), ReadAddresses), attributes), repr)
    IN  ObjectRead(all.at, all.val, known)

(* Mutant: the footer is not looked for.                                   *)
FooterIgnored(d, footer) == footer.at > 0

FooterFits(d, footer) == footer.at = Len(d) + 1 /\ footer.val = MagicU64

(* Magic, version, time, flags, container types, threads, frequent         *)
(* attributes; then common types, objects, types and footer.               *)
ReadHeader(d) ==
    LET start == Then(d, Then(d, ReadPair(d, 1, ReadU64, ReadU32), ReadLongString), ReadU64)
    IN  Then(d, Then(d, Then(d, start, ReadNames), ReadThreads), ReadStrings)
ReadCommonTypes(d, r) ==
    LET attributes(e, at) == ReadAttributes(e, at, r.val[7])
        one(e, at) == ReadPair(e, at, ReadU64, attributes)
        types(e, at) == ReadSeq(e, at, one)
    IN  Then(d, r, types)
ReadObjects(d, r) ==
    LET item(e, at) == ReadObject(e, at, MapOf(r.val[5]), r.val[4][2] % 2 = 1, r.val[7],
                                  {p[1] : p \in ToSet(r.val[8])})
        objects(e, at) == ReadSeq(e, at, item)
    IN  Then(d, Then(d, Then(d, r, objects), ReadTypes), ReadU64)

(* HeapReader.read: both magic values, the version, the container types, no*)
(* object twice, every type named, and nothing behind the footer.          *)
Refused == [accepted |-> FALSE]
Accepted(d, at, f) ==
    LET objects == f[9] IN
    IF /\ FooterFits(d, Read(at, f[11]))
       /\ \A i, j \in DOMAIN objects : objects[i].addr = objects[j].addr => i = j
       /\ \A i \in DOMAIN objects : objects[i].type \in DOMAIN MapOf(f[10])
    THEN [accepted |-> TRUE, created |-> f[3], threads |-> f[6], objects |-> objects,
          types |-> MapOf(f[10])]
    ELSE Refused
HeapRead(d) ==
    LET r == ReadCommonTypes(d, ReadHeader(d))
        s == ReadObjects(d, r)
    IN  IF /\ r.at > 0
           /\ r.val[1] = MagicU64 /\ r.val[2] = FormatVersion
           /\ {ListName, DictName} \subseteq DOMAIN MapOf(r.val[5])
        THEN Accepted(d, s.at, s.val)
        ELSE Refused

(* What a reader ought to make of what the writer was given: all of it, but*)
(* for long strings, huge sizes and the attributes, which are skipped.     *)
Meaning(h) ==
    LET short(s) == SubSeq(s, 1, IF Len(s) > MaxString THEN MaxString ELSE Len(s))
        locals(f) == MapOf([k \in DOMAIN f.locals |-> <<short(f.locals[k][1]), f.locals[k][2]>>])
    IN
    [accepted |-> TRUE,
     created |-> short(h.created),
     threads |-> [i \in DOMAIN h.threads |->
        [name |-> short(h.threads[i].name),
         frames |-> [j \in DOMAIN h.threads[i].frames |-> locals(h.threads[i].frames[j])]]],
     objects |-> [i \in DOMAIN h.objects |->
        LET o == h.objects[i] IN
        [addr |-> o.addr, type |-> o.type,
         size |-> IF o.size < 0 THEN 0 ELSE IF o.size > MaxU32 THEN MaxU32 ELSE o.size,
         refs |-> o.refs \cup ContentOf(o),
         repr |-> IF h.strRepr /\ o.type \notin Containers(h.known) THEN short(o.repr) ELSE <<>>]],
     types |-> [k \in {p[1] : p \in ToSet(h.types)} |->
                  short(h.types[CHOOSE i \in DOMAIN h.types : h.types[i][1] = k][2])]]
=============================================================================
