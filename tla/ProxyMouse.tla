------------------------------- MODULE ProxyMouse -------------------------------
(***************************************************************************)
(* core/usb/mouse: the mouse the host sees. MouseProtocol chooses the      *)
(* fields of the real mouse's reports; Send() encodes a movement into the  *)
(* one buffer of the ProxyMouse and writes it to the output device, on     *)
(* whichever worker has computed the movement. Nothing is locked: each     *)
(* load and each store of a byte of the buffer is a step, and write()      *)
(* copies the buffer byte by byte. HandleInput(), which writes the real    *)
(* mouse's reports to the same device on the reader thread, shares nothing *)
(* with Send() but the file descriptor, and is left out.                   *)
(***************************************************************************)
EXTENDS HIDReport

CONSTANTS
    Workers,      \* the threads that call Send()
    Descriptors,  \* the mice: each the sequence of its reports
    Moves,        \* what is sent: [x |-> value, y |-> value]
    MaxButtons,   \* kMaxMouseNumButtons
    MaxSends      \* bound: how many movements are sent

Usages == {"X", "Y", "wheel", "button", "other"}

Field == [usage : Usages, absolute : BOOLEAN, attr : Attributes]

\* A report: its ID, 0 if the mouse has none, its size in bytes, its input fields.
Report == [report_id : 0..255, input_byte_sz : Nat, fields : Seq(Field)]

ASSUME DescriptorsAssumption == Descriptors \subseteq Seq(Report)
ASSUME MovesAssumption == Moves \subseteq [x : Int, y : Int]
ASSUME BoundsAssumption == MaxButtons \in Nat /\ MaxSends \in Nat

\* Finish() puts the fields of every report after the byte of the report ID as soon
\* as there are report IDs (parser.cpp:254-266).
ASSUME OffsetsAssumption ==
    \A mouse \in Descriptors : \A i, k \in DOMAIN mouse :
        mouse[k].report_id # 0 =>
            \A j \in DOMAIN mouse[i].fields : mouse[i].fields[j].attr.offset >= 8

VARIABLES
    descriptor,  \* the reports of the mouse that is opened
    protocol,    \* the members of MouseProtocol
    buffer,      \* the bytes of ProxyMouse::buffer, each the set of its bits
    pc,          \* where each worker is in Send()
    move,        \* its argument
    todo,        \* the insertions left in Encode(), the current one first
    index_bit,   \* of the current one
    value,       \* the byte it has loaded from the buffer
    copied,      \* the bytes that its write() has copied
    sends,       \* history: how many calls of Send() have begun
    given,       \* history: their arguments
    before       \* history: the buffer when the Send() of the worker began, while no
                 \* other Send() has overlapped it

setup == <<descriptor, protocol>>
local == <<pc, move, todo, index_bit, value, copied>>
history == <<sends, given, before>>
vars == <<setup, buffer, local, history>>

-------------------------------------------------------------------------------
(* MouseProtocol.                                                          *)

HasX(report) == \E i \in DOMAIN report.fields : report.fields[i].usage = "X"

\* The places of the fields that are read: those of the reports up to number last.
Places(reports, last) ==
    UNION {{<<i, j>> : j \in DOMAIN reports[i].fields} : i \in 1..last}

Earlier(p, q) == p[1] < q[1] \/ (p[1] = q[1] /\ p[2] < q[2])

\* A std::optional is a set of at most one. An absolute X, wherever it was, makes
\* the mouse absolute, and Encode() then uses the absolute Y; x and y are the pair
\* it uses. Of several fields the last one is kept, of the buttons the first ones.
ParseReportDescriptor(reports, last) ==
    LET FieldAt(p) == reports[p[1]].fields[p[2]]
        With(usage) == {p \in Places(reports, last) : FieldAt(p).usage = usage}
        is_absolute == \E p \in With("X") : FieldAt(p).absolute
        OfKind(usage) == {p \in With(usage) : FieldAt(p).absolute = is_absolute}
        LastOf(places) == {FieldAt(p).attr : p \in
                             {q \in places : \A o \in places : ~Earlier(q, o)}}
        Before(p, places) == {q \in places : Earlier(q, p)}
    IN  [hid_report_id |-> reports[last].report_id,
         hid_report_length |-> reports[last].input_byte_sz,
         x |-> LastOf(OfKind("X")),
         y |-> LastOf(OfKind("Y")),
         scroll |-> LastOf(With("wheel")),
         buttons |-> {FieldAt(p).attr : p \in
                        {q \in With("button") :
                            Cardinality(Before(q, With("button"))) < MaxButtons}}]

\* The insertions of Encode() in their order, each a set of at most one. Core::Run()
\* gives no scroll, which is then 0, and no buttons.
Insertions(m) ==
    LET Of(attrs, val) == {[attr |-> a, value |-> <<val, 1>>] : a \in attrs}
    IN  <<Of(protocol.x, m.x), Of(protocol.y, m.y), Of(protocol.scroll, 0)>>

Accepted(ins) ==
    InsertAsUnitTypeAccepts(protocol.hid_report_length, ins.attr, ins.value)

\* What InsertUint() is to write, if anything: it may have returned false before, to
\* which Encode() does not look, or the field has no bits.
Writes(m, i) ==
    {[attr |-> ins.attr, counts |-> Counts(ins.attr, ins.value)] :
        ins \in {s \in Insertions(m)[i] : Accepted(s) /\ s.attr.bit_sz > 0}}

AsSeq(S) == IF S = {} THEN <<>> ELSE <<CHOOSE s \in S : TRUE>>

Encoding(m) == AsSeq(Writes(m, 1)) \o AsSeq(Writes(m, 2)) \o AsSeq(Writes(m, 3))

-------------------------------------------------------------------------------
Unset == [hid_report_id |-> 0, hid_report_length |-> 0,
          x |-> {}, y |-> {}, scroll |-> {}, buttons |-> {}]

Init ==
    /\ descriptor \in Descriptors
    /\ protocol = Unset
    /\ buffer = <<>>
    /\ pc = [w \in Workers |-> "new"]
    /\ move = [w \in Workers |-> <<>>]
    /\ todo = [w \in Workers |-> <<>>]
    /\ index_bit = [w \in Workers |-> 0]
    /\ value = [w \in Workers |-> {}]
    /\ copied = [w \in Workers |-> <<>>]
    /\ sends = 0 /\ given = {}
    /\ before = [w \in Workers |-> <<>>]

\* Open() calls InitProtocol(); the workers call Send() only after it. The reports
\* are read up to and including the first one that has an X.
InitProtocol ==
    /\ \A w \in Workers : pc[w] = "new"
    /\ \E i \in DOMAIN descriptor :
         /\ HasX(descriptor[i])
         /\ \A j \in 1 .. i - 1 : ~HasX(descriptor[j])
         /\ protocol' = ParseReportDescriptor(descriptor, i)
    /\ buffer' = [k \in 0 .. protocol'.hid_report_length - 1 |-> {}]
    /\ pc' = [w \in Workers |-> "idle"]
    /\ UNCHANGED <<descriptor, move, todo, index_bit, value, copied, history>>

\* It throws when the mouse has no X, and the program ends.
InitThrows ==
    /\ \A w \in Workers : pc[w] = "new"
    /\ \A i \in DOMAIN descriptor : ~HasX(descriptor[i])
    /\ pc' = [w \in Workers |-> "ended"]
    /\ UNCHANGED <<setup, buffer, move, todo, index_bit, value, copied, history>>

\* Send() is called.
Send(w) ==
    /\ pc[w] = "idle" /\ sends < MaxSends
    /\ \E m \in Moves :
         /\ move' = [move EXCEPT ![w] = m]
         /\ given' = given \cup {m}
    /\ pc' = [pc EXCEPT ![w] = "id"]
    /\ sends' = sends + 1
    /\ before' = [v \in Workers |->
                    IF v = w /\ \A u \in Workers : pc[u] = "idle" THEN buffer ELSE <<>>]
    /\ UNCHANGED <<setup, buffer, todo, index_bit, value, copied>>

\* The next insertion begins, or, after the last one, the write().
BeginInsertion(w, insertions) ==
    /\ todo' = [todo EXCEPT ![w] = insertions]
    /\ IF insertions = <<>>
       THEN /\ pc' = [pc EXCEPT ![w] = "write"]
            /\ UNCHANGED index_bit
       ELSE /\ pc' = [pc EXCEPT ![w] = "load"]
            /\ index_bit' = [index_bit EXCEPT ![w] = Head(insertions).attr.offset]

IdBits(id) == {b \in 0..7 : Bit(id, b)}

\* The report ID goes into the first byte.
StoreId(w) ==
    /\ pc[w] = "id"
    /\ buffer' = IF protocol.hid_report_id = 0 THEN buffer
                 ELSE [buffer EXCEPT ![0] = IdBits(protocol.hid_report_id)]
    /\ BeginInsertion(w, Encoding(move[w]))
    /\ UNCHANGED <<setup, move, value, copied, history>>

\* InsertUint()'s loop: report[index_bit / 8] is read,
Load(w) ==
    /\ pc[w] = "load"
    /\ value' = [value EXCEPT ![w] = buffer[index_bit[w] \div 8]]
    /\ pc' = [pc EXCEPT ![w] = "store"]
    /\ UNCHANGED <<setup, buffer, move, todo, index_bit, copied, history>>

\* and written with the bits of the field replaced.
Store(w) ==
    LET attr == Head(todo[w]).attr
        next == index_bit[w] + BitCount(attr, index_bit[w])
    IN  /\ pc[w] = "store"
        /\ buffer' = [buffer EXCEPT ![index_bit[w] \div 8] =
                        InsertBits(value[w], attr, Head(todo[w]).counts, index_bit[w])]
        /\ IF next < EndBit(attr)
           THEN /\ pc' = [pc EXCEPT ![w] = "load"]
                /\ index_bit' = [index_bit EXCEPT ![w] = next]
                /\ UNCHANGED todo
           ELSE BeginInsertion(w, Tail(todo[w]))
        /\ UNCHANGED <<setup, move, value, copied, history>>

\* write() copies the next byte.
Copy(w) ==
    /\ pc[w] = "write" /\ Len(copied[w]) < protocol.hid_report_length
    /\ copied' = [copied EXCEPT ![w] = Append(@, buffer[Len(@)])]
    /\ UNCHANGED <<setup, buffer, pc, move, todo, index_bit, value, history>>

\* It has copied all, and w's report is on the wire.
Written(w) == pc[w] = "write" /\ Len(copied[w]) = protocol.hid_report_length
wire(w) == [k \in 0 .. Len(copied[w]) - 1 |-> copied[w][k + 1]]

Alone(w) == before[w] # <<>>

\* write() and Send() return; the locals and what was noted of the call are gone.
Return(w) ==
    /\ Written(w)
    /\ pc' = [pc EXCEPT ![w] = "idle"]
    /\ move' = [move EXCEPT ![w] = <<>>]
    /\ index_bit' = [index_bit EXCEPT ![w] = 0]
    /\ value' = [value EXCEPT ![w] = {}]
    /\ copied' = [copied EXCEPT ![w] = <<>>]
    /\ before' = [before EXCEPT ![w] = <<>>]
    /\ UNCHANGED <<setup, buffer, todo, sends, given>>

Next ==
    \/ InitProtocol \/ InitThrows
    \/ \E w \in Workers : Send(w) \/ StoreId(w) \/ Load(w) \/ Store(w) \/ Copy(w) \/ Return(w)

Spec == Init /\ [][Next]_vars

-------------------------------------------------------------------------------
Byte == SUBSET (0..7)

\* Types: a byte of the buffer has eight bits, and the buffer is as long as the
\* report; a worker inside of InsertUint() is at a bit of its field, which is in
\* the buffer.
TypeOK ==
    /\ protocol.hid_report_id \in 0..255
    /\ buffer = <<>> \/ buffer \in [0 .. protocol.hid_report_length - 1 -> Byte]
    /\ pc \in [Workers -> {"new", "ended", "idle", "id", "load", "store", "write"}]
    /\ \A w \in Workers : \A i \in DOMAIN todo[w] : todo[w][i].attr \in Attributes
    /\ index_bit \in [Workers -> Nat]
    /\ value \in [Workers -> Byte]
    /\ copied \in [Workers -> Seq(Byte)]
    /\ \A w \in Workers : pc[w] \in {"load", "store"} =>
         /\ index_bit[w] \in Stops(Head(todo[w]).attr)
         /\ index_bit[w] \div 8 \in DOMAIN buffer

-------------------------------------------------------------------------------
(* What the host is told.                                                  *)

BitsOf(attr) == attr.offset .. EndBit(attr) - 1

\* The bits of insertion i are written again by a later one: fields of several
\* reports of the mouse may have been chosen.
Overwritten(m, i) ==
    \E j \in i + 1 .. 3 : \E later \in Writes(m, j), ins \in Insertions(m)[i] :
        BitsOf(later.attr) \cap BitsOf(ins.attr) # {}

\* The mouse's descriptor says that the counts are possible and have room, in a field
\* that can be decoded: its ranges are not empty, its sign is not shifted by 32 bits.
Representable(attr, counts) ==
    /\ counts \in attr.logc[1] .. attr.logc[2]
    /\ attr.logc[1] < attr.logc[2] /\ PhysRange(attr)[1] < PhysRange(attr)[2]
    /\ IF attr.logc[1] < 0
       THEN /\ attr.bit_sz \in 1..31
            /\ counts \in -(2^(attr.bit_sz - 1)) .. 2^(attr.bit_sz - 1) - 1
       ELSE counts \in 0 .. 2^attr.bit_sz - 1

\* What Decode() reads from the report on the wire, and what one count is there.
\* They have the same denominator.
ReadFromWire(w, attr) == ExtractAsUnitType(wire(w), protocol.hid_report_length, attr)
OneCount(attr) ==
    ConvertValToUnitType(attr.unit, <<Resolution(attr)[2], Resolution(attr)[1]>>)

ReadsBack(w, ins) ==
    LET read == ReadFromWire(w, ins.attr)
        error == read[1] - ins.value[1] * read[2]
    IN  read # Impossible /\ error < OneCount(ins.attr)[1] /\ -error < OneCount(ins.attr)[1]

\* A field without a unit, though it may name a system, that has an exponent all the same.
ScaledWithoutUnit(attr) ==
    attr.unit.exp # 0 /\ \A n \in Nibbles \ {"system"} : attr.unit.type[n] = 0

\* Whatever InsertAsUnitType() accepts is read back by ExtractAsUnitType(), up to
\* one count, when no other Send() was under way (report.h:8-20).
InsertedIsExtracted ==
    \A w \in Workers : (Written(w) /\ Alone(w)) =>
        \A i \in 1..3 : \A ins \in Insertions(move[w])[i] :
            (/\ Accepted(ins) /\ ~Overwritten(move[w], i)
             /\ Representable(ins.attr, Counts(ins.attr, ins.value))) => ReadsBack(w, ins)

\* The report that Send() writes carries the movement it was given, through the
\* shared bytes of neighbouring fields, units, ranges and byte boundaries, up to
\* one count in each field: unless another Send() overlapped, the field is refused
\* or overwritten, cannot hold the counts, or has an exponent without a unit.
SentIsReceived ==
    \A w \in Workers : (Written(w) /\ Alone(w)) =>
        \A i \in 1..3 : \A ins \in Insertions(move[w])[i] :
            (/\ Accepted(ins) /\ ~Overwritten(move[w], i)
             /\ Representable(ins.attr, Counts(ins.attr, ins.value))
             /\ ~ScaledWithoutUnit(ins.attr)) => ReadsBack(w, ins)

\* Encode() ignores that an insertion is refused: the field then still has the
\* movement of the report before, which is sent once more.
RefusedIsRepeated ==
    \A w \in Workers : (Written(w) /\ Alone(w)) =>
        \A i \in 1..3 : \A ins \in Insertions(move[w])[i] :
            (/\ ~Accepted(ins) /\ FieldFits(protocol.hid_report_length, ins.attr)
             /\ \A j \in 1..3 : \A other \in Writes(move[w], j) :
                  BitsOf(other.attr) \cap BitsOf(ins.attr) = {})
            => \A n \in BitsOf(ins.attr) :
                   n % 8 \in wire(w)[n \div 8] <=> n % 8 \in before[w][n \div 8]

\* The bits of a report, numbered through, that an insertion sets.
BitsSetBy(ins) == {n \in BitsOf(ins.attr) : Bit(ins.counts, n - ins.attr.offset)}

\* Those that the report's ID or a movement that was sent sets.
GivenInsertions == UNION {Writes(m, 1) \cup Writes(m, 2) \cup Writes(m, 3) : m \in given}
GivenBits ==
    (IF protocol.hid_report_id = 0 THEN {} ELSE IdBits(protocol.hid_report_id))
    \cup UNION {BitsSetBy(ins) : ins \in GivenInsertions}

\* Calls of Send() race for the bytes of the buffer and of the report, and for the
\* byte two fields share; but every bit that the host sees set was set in some
\* movement, in the same place. No race presses a button.
EveryBitWasGiven ==
    \A w \in Workers : Written(w) =>
        UNION {{8 * k + b : b \in wire(w)[k]} : k \in DOMAIN wire(w)} \subseteq GivenBits
=================================================================================
