---------------------------- MODULE ProxyMouseProofs ----------------------------
(***************************************************************************)
(* Whatever mouse is opened, however many workers send movements, and in   *)
(* whatever order their loads, stores and copies happen: the buffer keeps  *)
(* its type, and every bit on the wire was set by some movement. A Send()  *)
(* that no other one overlaps writes exactly what Encode() describes. So   *)
(* the bits of a field that is refused are those of the report before, and *)
(* what the host decodes from the others is the movement: the second half  *)
(* of the module, about numbers, their bits and the units they are in.     *)
(***************************************************************************)
EXTENDS ProxyMouse, FiniteSetTheorems, WellFoundedInduction, TLAPS

Stages == {"new", "ended", "idle", "id", "load", "store", "write"}
Off == {"new", "ended"}

\* What Accepted() has established of a field that is written.
Fitting(attr) ==
    /\ attr \in Attributes
    /\ attr.bit_sz > 0
    /\ FieldFits(protocol.hid_report_length, attr)

SetupInv ==
    /\ descriptor \in Descriptors
    /\ protocol.hid_report_id \in 0..255
    /\ protocol.hid_report_length \in Nat
    /\ protocol.x \subseteq Attributes
    /\ protocol.y \subseteq Attributes
    /\ protocol.scroll \subseteq Attributes

BufferInv ==
    \/ buffer = <<>> /\ \A w \in Workers : pc[w] \in Off
    \/ buffer \in [0 .. protocol.hid_report_length - 1 -> Byte]

\* Before InitProtocol() nothing depends on the protocol.
FreshInv ==
    \A w \in Workers : pc[w] \in Off => todo[w] = <<>> /\ copied[w] = <<>>

LocalInv ==
    /\ pc \in [Workers -> Stages]
    /\ given \subseteq Moves
    /\ move \in [Workers -> Moves \cup {<<>>}]
    /\ \A w \in Workers : pc[w] \in {"id", "load", "store", "write"} => move[w] \in given
    /\ todo \in [Workers -> Seq(GivenInsertions)]
    /\ index_bit \in [Workers -> Nat]
    /\ value \in [Workers -> Byte]
    /\ copied \in [Workers -> Seq(Byte)]

\* Where a worker is in InsertUint()'s loop.
LoopInv ==
    \A w \in Workers : pc[w] \in {"load", "store"} =>
        /\ todo[w] # <<>>
        /\ index_bit[w] \in Stops(Head(todo[w]).attr)

TypeInv == SetupInv /\ BufferInv /\ FreshInv /\ LocalInv /\ LoopInv

\* Every bit in the buffer, in a byte that was loaded, and in what has been copied.
GivenInv ==
    /\ \A k \in DOMAIN buffer : \A b \in buffer[k] : 8 * k + b \in GivenBits
    /\ \A w \in Workers : pc[w] = "store" =>
         \A b \in value[w] : 8 * (index_bit[w] \div 8) + b \in GivenBits
    /\ \A w \in Workers : \A i \in DOMAIN copied[w] :
         \A b \in copied[w][i] : 8 * (i - 1) + b \in GivenBits

-------------------------------------------------------------------------------
(* Fields and their bits.                                                  *)

\* The places at which the loop stops are bits of the field, which are in the
\* buffer when the field fits.
LEMMA StopsInBuffer ==
    ASSUME NEW attr, Fitting(attr), protocol.hid_report_length \in Nat,
           NEW i \in Stops(attr)
    PROVE  /\ i \in Nat
           /\ attr.offset <= i /\ i < EndBit(attr)
           /\ i \div 8 \in 0 .. protocol.hid_report_length - 1
<1>1. /\ attr.offset \in Nat /\ attr.bit_sz \in Nat
      /\ attr.offset + attr.bit_sz <= protocol.hid_report_length * 8
  BY DEF Fitting, FieldFits, EndBit, Attributes
<1>2. i \in attr.offset .. attr.offset + attr.bit_sz - 1
  BY <1>1 DEF Stops, EndBit
<1> QED
  BY <1>1, <1>2 DEF EndBit

\* The first bit of a field with bits is a stop; so is the one after a stop's bits,
\* unless it is the end of the field.
LEMMA FirstStop ==
    ASSUME NEW attr, Fitting(attr)
    PROVE  attr.offset \in Stops(attr) /\ attr.offset \in Nat
<1>1. attr.offset \in Nat /\ attr.bit_sz \in Nat /\ attr.bit_sz > 0
  BY DEF Fitting, Attributes
<1> QED
  BY <1>1 DEF Stops, EndBit

LEMMA NextStop ==
    ASSUME NEW attr, Fitting(attr), NEW i \in Stops(attr),
           i + BitCount(attr, i) < EndBit(attr)
    PROVE  i + BitCount(attr, i) \in Stops(attr)
<1>1. attr.offset \in Nat /\ attr.bit_sz \in Nat
  BY DEF Fitting, Attributes
<1>2. i \in attr.offset .. attr.offset + attr.bit_sz - 1
  BY <1>1 DEF Stops, EndBit
<1>3. i \in Nat /\ i % 8 \in 0..7
  BY <1>1, <1>2
<1>4. BitCount(attr, i) = 8 - (i % 8)
  BY <1>1, <1>2, <1>3 DEF BitCount, Smaller, EndBit
<1>5. (i + (8 - (i % 8))) % 8 = 0
  BY <1>3
<1>6. i + (8 - (i % 8)) \in attr.offset .. attr.offset + attr.bit_sz - 1
  BY <1>1, <1>2, <1>3, <1>4 DEF EndBit
<1> DEFINE next == i + (8 - (i % 8))
<1>7. next \in attr.offset .. EndBit(attr) - 1 /\ next % 8 = 0
  BY <1>1, <1>3, <1>5, <1>6 DEF EndBit
<1> HIDE DEF next
<1>8. next \in Stops(attr)
  BY <1>7 DEF Stops
<1> QED
  BY <1>4, <1>8 DEF next

\* InsertBits() makes a byte of a byte, and the bits it adds are bits of the field
\* that the value sets.
LEMMA InsertedBits ==
    ASSUME NEW attr, Fitting(attr), NEW i \in Stops(attr),
           NEW data \in Byte, NEW counts
    PROVE  /\ InsertBits(data, attr, counts, i) \in Byte
           /\ \A b \in InsertBits(data, attr, counts, i) :
                b \in data \/ 8 * (i \div 8) + b
                                \in BitsSetBy([attr |-> attr, counts |-> counts])
<1>1. attr.offset \in Nat /\ attr.bit_sz \in Nat
  BY DEF Fitting, Attributes
<1>2. i \in attr.offset .. attr.offset + attr.bit_sz - 1
  BY <1>1 DEF Stops, EndBit
<1>3. i \in Nat /\ i % 8 \in 0..7 /\ i = 8 * (i \div 8) + (i % 8) /\ i \div 8 \in Nat
  BY <1>1, <1>2
<1>4. /\ BitCount(attr, i) \in Nat
      /\ BitCount(attr, i) <= 8 - (i % 8)
      /\ i + BitCount(attr, i) <= attr.offset + attr.bit_sz
  BY <1>1, <1>2, <1>3 DEF BitCount, Smaller, EndBit
<1> DEFINE mask == (i % 8) .. (i % 8) + BitCount(attr, i) - 1
<1>5. mask \subseteq 0..7
  BY <1>3, <1>4
<1>6. InsertBits(data, attr, counts, i) \in Byte
  BY <1>5 DEF InsertBits, Byte
<1>7. ASSUME NEW b \in mask, Bit(counts, i - attr.offset + b - (i % 8))
      PROVE  8 * (i \div 8) + b \in BitsSetBy([attr |-> attr, counts |-> counts])
  <2> DEFINE n == 8 * (i \div 8) + b
  <2>1. n \in attr.offset .. attr.offset + attr.bit_sz - 1
    BY <1>1, <1>2, <1>3, <1>4
  <2>2. n - attr.offset = i - attr.offset + b - (i % 8)
    BY <1>1, <1>3, <1>4
  <2>3. Bit(counts, n - attr.offset)
    BY <2>2, <1>7
  <2> DEFINE ins == [attr |-> attr, counts |-> counts]
  <2>4. ins.attr = attr /\ ins.counts = counts
    OBVIOUS
  <2> HIDE DEF n, ins
  <2>5. n \in BitsOf(ins.attr) /\ Bit(ins.counts, n - ins.attr.offset)
    <3>1. n \in BitsOf(attr)
      BY <1>1, <2>1 DEF BitsOf, EndBit
    <3> QED
      BY <3>1, <2>3, <2>4, Zenon
  <2>6. n \in BitsSetBy(ins)
    BY <2>5 DEF BitsSetBy
  <2> QED
    BY <2>6 DEF n, ins
<1>8. ASSUME NEW b \in InsertBits(data, attr, counts, i), b \notin data
      PROVE  b \in mask /\ Bit(counts, i - attr.offset + b - (i % 8))
  BY <1>8 DEF InsertBits
<1> QED
  BY <1>6, <1>7, <1>8

-------------------------------------------------------------------------------
(* What Encode() writes.                                                   *)

LEMMA WritesFit ==
    ASSUME SetupInv, NEW m, NEW i \in 1..3, NEW ins \in Writes(m, i)
    PROVE  /\ Fitting(ins.attr)
           /\ ins = [attr |-> ins.attr, counts |-> ins.counts]
<1>1. PICK s \in Insertions(m)[i] :
        /\ Accepted(s) /\ s.attr.bit_sz > 0
        /\ ins = [attr |-> s.attr, counts |-> Counts(s.attr, s.value)]
  BY DEF Writes
<1>2. s.attr \in Attributes
  <2>1. CASE i = 1
    BY <2>1, <1>1 DEF Insertions, SetupInv
  <2>2. CASE i = 2
    BY <2>2, <1>1 DEF Insertions, SetupInv
  <2>3. CASE i = 3
    BY <2>3, <1>1 DEF Insertions, SetupInv
  <2> QED
    BY <2>1, <2>2, <2>3
<1>3. FieldFits(protocol.hid_report_length, s.attr)
  BY <1>1 DEF Accepted, InsertAsUnitTypeAccepts, InsertAsUnitAccepts, InsertUintAccepts
<1>4. ins.attr = s.attr /\ ins.counts = Counts(s.attr, s.value)
  BY <1>1
<1> QED
  BY <1>1, <1>2, <1>3, <1>4 DEF Fitting

LEMMA GivenFit ==
    ASSUME SetupInv, NEW ins \in GivenInsertions
    PROVE  /\ Fitting(ins.attr)
           /\ ins = [attr |-> ins.attr, counts |-> ins.counts]
<1>1. PICK m \in given : ins \in Writes(m, 1) \cup Writes(m, 2) \cup Writes(m, 3)
  BY DEF GivenInsertions
<1>2. 1 \in 1..3 /\ 2 \in 1..3 /\ 3 \in 1..3
  OBVIOUS
<1> QED
  BY <1>1, <1>2, WritesFit

LEMMA EncodingGiven ==
    ASSUME NEW m \in given
    PROVE  Encoding(m) \in Seq(GivenInsertions)
<1>1. ASSUME NEW S, S \subseteq GivenInsertions
      PROVE  AsSeq(S) \in Seq(GivenInsertions)
  <2>1. CASE S = {}
    BY <2>1 DEF AsSeq
  <2>2. CASE S # {}
    <3>1. (CHOOSE s \in S : TRUE) \in GivenInsertions
      BY <2>2, <1>1
    <3> QED
      BY <3>1, <2>2 DEF AsSeq
  <2> QED
    BY <2>1, <2>2
<1>2. /\ Writes(m, 1) \subseteq GivenInsertions
      /\ Writes(m, 2) \subseteq GivenInsertions
      /\ Writes(m, 3) \subseteq GivenInsertions
  BY DEF GivenInsertions
<1>3. /\ AsSeq(Writes(m, 1)) \in Seq(GivenInsertions)
      /\ AsSeq(Writes(m, 2)) \in Seq(GivenInsertions)
      /\ AsSeq(Writes(m, 3)) \in Seq(GivenInsertions)
  BY <1>1, <1>2
<1> QED
  BY <1>3 DEF Encoding

\* While the protocol stays, what was given stays given.
LEMMA GivenGrows ==
    ASSUME UNCHANGED protocol, given \subseteq given'
    PROVE  GivenInsertions \subseteq GivenInsertions' /\ GivenBits \subseteq GivenBits'
<1>1. \A m : \A i \in 1..3 : Writes(m, i)' = Writes(m, i)
  BY DEF Writes, Insertions, Accepted
<1>2. GivenInsertions \subseteq GivenInsertions'
  BY <1>1 DEF GivenInsertions
<1> QED
  BY <1>2 DEF GivenBits

LEMMA GivenStays ==
    ASSUME UNCHANGED <<protocol, given>>
    PROVE  GivenInsertions' = GivenInsertions /\ GivenBits' = GivenBits
<1>1. \A m : \A i \in 1..3 : Writes(m, i)' = Writes(m, i)
  BY DEF Writes, Insertions, Accepted
<1>2. GivenInsertions' = GivenInsertions
  BY <1>1 DEF GivenInsertions
<1> QED
  BY <1>2 DEF GivenBits
-------------------------------------------------------------------------------
(* TypeInv is inductive.                                                   *)

LEMMA InitTypeInv == Init => TypeInv /\ GivenInv
<1> SUFFICES ASSUME Init PROVE TypeInv /\ GivenInv
  OBVIOUS
<1>1. SetupInv
  BY DEF Init, SetupInv, Unset
<1>2. BufferInv
  BY DEF Init, BufferInv, Off
<1>3. FreshInv
  BY DEF Init, FreshInv
<1>4. LocalInv
  <2>1. <<>> \in Seq(GivenInsertions) /\ <<>> \in Seq(Byte) /\ {} \in Byte
    BY DEF Byte
  <2> QED
    BY <2>1 DEF Init, LocalInv, Stages
<1>5. LoopInv
  BY DEF Init, LoopInv
<1>6. GivenInv
  BY DEF Init, GivenInv
<1> QED
  BY <1>1, <1>2, <1>3, <1>4, <1>5, <1>6 DEF TypeInv

\* The fields that MouseProtocol keeps are fields of the mouse.
LEMMA ParsedSetup ==
    ASSUME NEW reports \in Seq(Report), NEW last \in DOMAIN reports
    PROVE  LET p == ParseReportDescriptor(reports, last)
           IN  /\ p.hid_report_id \in 0..255
               /\ p.hid_report_length \in Nat
               /\ p.x \subseteq Attributes
               /\ p.y \subseteq Attributes
               /\ p.scroll \subseteq Attributes
<1>1. reports[last] \in Report
  OBVIOUS
<1>2. \A p \in Places(reports, last) : reports[p[1]].fields[p[2]].attr \in Attributes
  <2> SUFFICES ASSUME NEW i \in 1..last, NEW j \in DOMAIN reports[i].fields
               PROVE  reports[i].fields[j].attr \in Attributes
    BY DEF Places
  <2>1. reports[i] \in Report
    OBVIOUS
  <2>2. reports[i].fields \in Seq(Field)
    BY <2>1 DEF Report
  <2>3. reports[i].fields[j] \in Field
    BY <2>2
  <2> QED
    BY <2>3 DEF Field
<1>3. reports[last].report_id \in 0..255 /\ reports[last].input_byte_sz \in Nat
  BY <1>1 DEF Report
<1> QED
  BY <1>2, <1>3 DEF ParseReportDescriptor

\* Wherever the next insertion begins, the worker is at a stop of its field.
LEMMA Beginning ==
    ASSUME SetupInv, LocalInv, LoopInv, NEW w \in Workers,
           NEW insertions \in Seq(GivenInsertions),
           BeginInsertion(w, insertions)
    PROVE  /\ pc' \in [Workers -> Stages]
           /\ todo' \in [Workers -> Seq(GivenInsertions)]
           /\ index_bit' \in [Workers -> Nat]
           /\ pc'[w] \in {"load", "write"}
           /\ \A v \in Workers \ {w} :
                pc'[v] = pc[v] /\ todo'[v] = todo[v] /\ index_bit'[v] = index_bit[v]
           /\ \A v \in Workers : pc'[v] \in {"load", "store"} =>
                todo'[v] # <<>> /\ index_bit'[v] \in Stops(Head(todo'[v]).attr)
<1>1. todo' \in [Workers -> Seq(GivenInsertions)] /\ todo'[w] = insertions
  BY DEF BeginInsertion, LocalInv
<1>2. \A v \in Workers \ {w} : todo'[v] = todo[v]
  BY DEF BeginInsertion, LocalInv
<1>3. CASE insertions = <<>>
  BY <1>1, <1>2, <1>3 DEF BeginInsertion, LocalInv, LoopInv, Stages
<1>4. CASE insertions # <<>>
  <2>1. Head(insertions) \in GivenInsertions
    BY <1>4
  <2>2. Fitting(Head(insertions).attr)
    BY <2>1, GivenFit
  <2>3. /\ Head(insertions).attr.offset \in Stops(Head(insertions).attr)
        /\ Head(insertions).attr.offset \in Nat
    BY <2>2, FirstStop
  <2>4. /\ pc' = [pc EXCEPT ![w] = "load"]
        /\ index_bit' = [index_bit EXCEPT ![w] = Head(insertions).attr.offset]
    BY <1>4 DEF BeginInsertion
  <2> QED
    BY <1>1, <1>2, <1>4, <2>3, <2>4 DEF LocalInv, LoopInv, Stages
<1> QED
  BY <1>3, <1>4

LEMMA InitProtocolTypeInv == TypeInv /\ GivenInv /\ InitProtocol => TypeInv' /\ GivenInv'
<1> SUFFICES ASSUME TypeInv, GivenInv, InitProtocol PROVE TypeInv' /\ GivenInv'
  OBVIOUS
<1> USE DEF TypeInv
<1>1. SetupInv'
  <2>1. PICK i \in DOMAIN descriptor : protocol' = ParseReportDescriptor(descriptor, i)
    BY DEF InitProtocol
  <2>2. descriptor \in Seq(Report)
    BY DescriptorsAssumption DEF SetupInv
  <2> QED
    BY <2>1, <2>2, ParsedSetup DEF SetupInv, InitProtocol
<1>2. \A w \in Workers : pc[w] = "new" /\ pc'[w] = "idle"
  BY DEF InitProtocol
<1>3. \A w \in Workers : todo[w] = <<>> /\ copied[w] = <<>>
  BY <1>2 DEF FreshInv, Off
<1>4. BufferInv'
  <2>1. \A k \in 0 .. protocol'.hid_report_length - 1 : {} \in Byte
    BY DEF Byte
  <2> QED
    BY <2>1 DEF InitProtocol, BufferInv
<1>5. FreshInv'
  BY <1>2, <1>3 DEF FreshInv, Off, InitProtocol
<1>6. LocalInv'
  <2>1. todo \in [Workers -> Seq(GivenInsertions')]
    BY <1>3 DEF LocalInv
  <2>2. pc' \in [Workers -> Stages]
    BY DEF InitProtocol, Stages
  <2> QED
    BY <1>2, <2>1, <2>2 DEF LocalInv, InitProtocol, history
<1>7. LoopInv'
  BY <1>2 DEF LoopInv
<1>8. GivenInv'
  BY <1>2, <1>3 DEF GivenInv, InitProtocol
<1> QED
  BY <1>1, <1>4, <1>5, <1>6, <1>7, <1>8

LEMMA InitThrowsTypeInv == TypeInv /\ GivenInv /\ InitThrows => TypeInv' /\ GivenInv'
<1> SUFFICES ASSUME TypeInv, GivenInv, InitThrows PROVE TypeInv' /\ GivenInv'
  OBVIOUS
<1> USE DEF TypeInv
<1>1. \A w \in Workers : pc[w] = "new" /\ pc'[w] = "ended"
  BY DEF InitThrows
<1>2. GivenInsertions' = GivenInsertions /\ GivenBits' = GivenBits
  BY GivenStays DEF InitThrows, setup, history
<1>3. SetupInv' /\ BufferInv'
  BY <1>1 DEF SetupInv, BufferInv, InitThrows, setup, Off
<1>4. FreshInv'
  BY <1>1 DEF FreshInv, Off, InitThrows, history
<1>5. LocalInv'
  BY <1>1, <1>2 DEF LocalInv, InitThrows, history, Stages
<1>6. LoopInv' /\ GivenInv'
  BY <1>1, <1>2 DEF LoopInv, GivenInv, InitThrows
<1> QED
  BY <1>3, <1>4, <1>5, <1>6

LEMMA SendTypeInv ==
    ASSUME NEW w \in Workers
    PROVE  TypeInv /\ GivenInv /\ Send(w) => TypeInv' /\ GivenInv'
<1> SUFFICES ASSUME TypeInv, GivenInv, Send(w) PROVE TypeInv' /\ GivenInv'
  OBVIOUS
<1> USE DEF TypeInv
<1>1. PICK m \in Moves : move' = [move EXCEPT ![w] = m] /\ given' = given \cup {m}
  BY DEF Send
<1>2. pc[w] = "idle" /\ pc' = [pc EXCEPT ![w] = "id"]
  BY DEF Send
<1>3. GivenInsertions \subseteq GivenInsertions' /\ GivenBits \subseteq GivenBits'
  BY <1>1, GivenGrows DEF Send, setup
<1>4. SetupInv' /\ BufferInv'
  BY <1>2 DEF SetupInv, BufferInv, Send, setup, Off, LocalInv
<1>5. FreshInv'
  BY <1>2 DEF FreshInv, Send, Off, LocalInv
<1>6. LocalInv'
  <2>1. Seq(GivenInsertions) \subseteq Seq(GivenInsertions')
    BY <1>3
  <2>2. todo' \in [Workers -> Seq(GivenInsertions')]
    BY <2>1 DEF LocalInv, Send
  <2>3. pc' \in [Workers -> Stages] /\ move' \in [Workers -> Moves \cup {<<>>}]
    BY <1>1, <1>2 DEF LocalInv, Stages
  <2>4. \A v \in Workers : pc'[v] \in {"id", "load", "store", "write"} => move'[v] \in given'
    BY <1>1, <1>2 DEF LocalInv
  <2> QED
    BY <1>1, <2>2, <2>3, <2>4 DEF LocalInv, Send
<1>7. LoopInv'
  BY <1>2 DEF LoopInv, Send, LocalInv
<1>8. GivenInv'
  BY <1>2, <1>3 DEF GivenInv, Send, LocalInv
<1> QED
  BY <1>4, <1>5, <1>6, <1>7, <1>8

LEMMA StoreIdTypeInv ==
    ASSUME NEW w \in Workers
    PROVE  TypeInv /\ GivenInv /\ StoreId(w) => TypeInv' /\ GivenInv'
<1> SUFFICES ASSUME TypeInv, GivenInv, StoreId(w) PROVE TypeInv' /\ GivenInv'
  OBVIOUS
<1> USE DEF TypeInv
<1>1. pc[w] = "id" /\ move[w] \in given
  BY DEF StoreId, LocalInv
<1>2. Encoding(move[w]) \in Seq(GivenInsertions)
  BY <1>1, EncodingGiven
<1>3. /\ pc' \in [Workers -> Stages]
      /\ todo' \in [Workers -> Seq(GivenInsertions)]
      /\ index_bit' \in [Workers -> Nat]
      /\ pc'[w] \in {"load", "write"}
      /\ \A v \in Workers \ {w} :
           pc'[v] = pc[v] /\ todo'[v] = todo[v] /\ index_bit'[v] = index_bit[v]
      /\ \A v \in Workers : pc'[v] \in {"load", "store"} =>
           todo'[v] # <<>> /\ index_bit'[v] \in Stops(Head(todo'[v]).attr)
  BY <1>2, Beginning DEF StoreId
<1>4. GivenInsertions' = GivenInsertions /\ GivenBits' = GivenBits
  BY GivenStays DEF StoreId, setup, history
<1>5. SetupInv'
  BY DEF SetupInv, StoreId, setup
<1>6. buffer \in [0 .. protocol.hid_report_length - 1 -> Byte]
  BY <1>1 DEF BufferInv, Off
<1>7. IdBits(protocol.hid_report_id) \in Byte
  BY DEF IdBits, Byte
<1>8. BufferInv'
  <2>1. buffer' \in [0 .. protocol.hid_report_length - 1 -> Byte]
    BY <1>6, <1>7 DEF StoreId
  <2> QED
    BY <2>1 DEF BufferInv, StoreId, setup
<1>9. FreshInv'
  BY <1>3 DEF FreshInv, StoreId, Off
<1>10. LocalInv'
  <2>1. \A v \in Workers : pc'[v] \in {"id", "load", "store", "write"} => move'[v] \in given'
    BY <1>1, <1>3 DEF LocalInv, StoreId, history
  <2> QED
    BY <1>3, <1>4, <2>1 DEF LocalInv, StoreId, history
<1>11. LoopInv'
  BY <1>3 DEF LoopInv
<1>12. GivenInv'
  <2>1. \A k \in DOMAIN buffer' : \A b \in buffer'[k] : 8 * k + b \in GivenBits
    <3>1. CASE protocol.hid_report_id = 0
      BY <3>1 DEF StoreId, GivenInv
    <3>2. CASE protocol.hid_report_id # 0
      <4>1. IdBits(protocol.hid_report_id) \subseteq GivenBits
        BY <3>2 DEF GivenBits
      <4>2. \A b \in IdBits(protocol.hid_report_id) : 8 * 0 + b \in GivenBits
        BY <4>1 DEF IdBits
      <4>3. buffer' = [buffer EXCEPT ![0] = IdBits(protocol.hid_report_id)]
        BY <3>2 DEF StoreId
      <4>4. \A k \in DOMAIN buffer' : k # 0 => buffer'[k] = buffer[k]
        BY <1>6, <4>3
      <4>5. \A k \in DOMAIN buffer' : k = 0 => buffer'[k] = IdBits(protocol.hid_report_id)
        BY <1>6, <4>3
      <4> QED
        BY <1>6, <4>2, <4>3, <4>4, <4>5 DEF GivenInv
    <3> QED
      BY <3>1, <3>2
  <2> QED
    BY <1>3, <1>4, <2>1 DEF GivenInv, StoreId
<1> QED
  BY <1>5, <1>8, <1>9, <1>10, <1>11, <1>12

LEMMA LoadTypeInv ==
    ASSUME NEW w \in Workers
    PROVE  TypeInv /\ GivenInv /\ Load(w) => TypeInv' /\ GivenInv'
<1> SUFFICES ASSUME TypeInv, GivenInv, Load(w) PROVE TypeInv' /\ GivenInv'
  OBVIOUS
<1> USE DEF TypeInv
<1>1. pc[w] = "load" /\ pc' = [pc EXCEPT ![w] = "store"]
  BY DEF Load
<1>2. GivenInsertions' = GivenInsertions /\ GivenBits' = GivenBits
  BY GivenStays DEF Load, setup, history
<1>3. buffer \in [0 .. protocol.hid_report_length - 1 -> Byte]
  BY <1>1 DEF BufferInv, Off
<1>4. index_bit[w] \div 8 \in DOMAIN buffer
  <2>1. /\ todo[w] \in Seq(GivenInsertions) /\ todo[w] # <<>>
        /\ index_bit[w] \in Stops(Head(todo[w]).attr)
    BY <1>1 DEF LocalInv, LoopInv
  <2>2. Head(todo[w]) \in GivenInsertions
    BY <2>1
  <2>3. Fitting(Head(todo[w]).attr)
    BY <2>2, GivenFit
  <2> QED
    BY <1>3, <2>1, <2>3, StopsInBuffer DEF SetupInv
<1>5. SetupInv' /\ BufferInv'
  BY <1>3 DEF SetupInv, BufferInv, Load, setup
<1>6. FreshInv'
  BY <1>1 DEF FreshInv, Load, Off, LocalInv
<1>7. LocalInv'
  <2>1. pc' \in [Workers -> Stages]
    BY <1>1 DEF LocalInv, Stages
  <2>2. value' \in [Workers -> Byte]
    BY <1>3, <1>4 DEF LocalInv, Load
  <2>3. \A v \in Workers : pc'[v] \in {"id", "load", "store", "write"} => move'[v] \in given'
    BY <1>1 DEF LocalInv, Load, history
  <2> QED
    BY <1>2, <2>1, <2>2, <2>3 DEF LocalInv, Load, history
<1>8. LoopInv'
  BY <1>1 DEF LoopInv, Load, LocalInv
<1>9. GivenInv'
  <2>1. \A b \in value'[w] : 8 * (index_bit'[w] \div 8) + b \in GivenBits
    BY <1>4 DEF GivenInv, Load, LocalInv
  <2>2. \A v \in Workers \ {w} : pc'[v] = pc[v] /\ value'[v] = value[v]
    BY <1>1 DEF Load, LocalInv
  <2> QED
    BY <1>2, <2>1, <2>2 DEF GivenInv, Load
<1> QED
  BY <1>5, <1>6, <1>7, <1>8, <1>9

LEMMA StoreTypeInv ==
    ASSUME NEW w \in Workers
    PROVE  TypeInv /\ GivenInv /\ Store(w) => TypeInv' /\ GivenInv'
<1> SUFFICES ASSUME TypeInv, GivenInv, Store(w) PROVE TypeInv' /\ GivenInv'
  OBVIOUS
<1> USE DEF TypeInv
<1> DEFINE attr == Head(todo[w]).attr
<1> DEFINE counts == Head(todo[w]).counts
<1> DEFINE byte == InsertBits(value[w], attr, counts, index_bit[w])
<1> DEFINE next == index_bit[w] + BitCount(attr, index_bit[w])
<1>1. pc[w] = "store"
  BY DEF Store
<1>2. GivenInsertions' = GivenInsertions /\ GivenBits' = GivenBits
  BY GivenStays DEF Store, setup, history
<1>3. buffer \in [0 .. protocol.hid_report_length - 1 -> Byte]
  BY <1>1 DEF BufferInv, Off
<1>4. /\ todo[w] \in Seq(GivenInsertions) /\ todo[w] # <<>>
      /\ index_bit[w] \in Stops(attr)
      /\ value[w] \in Byte
  BY <1>1 DEF LocalInv, LoopInv
<1>5. /\ Head(todo[w]) \in GivenInsertions
      /\ Tail(todo[w]) \in Seq(GivenInsertions)
  BY <1>4
<1>6. Fitting(attr) /\ Head(todo[w]) = [attr |-> attr, counts |-> counts]
  BY <1>5, GivenFit
<1>7. index_bit[w] \div 8 \in 0 .. protocol.hid_report_length - 1
  BY <1>4, <1>6, StopsInBuffer DEF SetupInv
<1>8. /\ byte \in Byte
      /\ \A b \in byte : b \in value[w] \/ 8 * (index_bit[w] \div 8) + b
                                            \in BitsSetBy(Head(todo[w]))
  BY <1>4, <1>6, InsertedBits
<1>9. BitsSetBy(Head(todo[w])) \subseteq GivenBits
  BY <1>5 DEF GivenBits
<1>10. buffer' = [buffer EXCEPT ![index_bit[w] \div 8] = byte]
  BY DEF Store
<1>11. /\ pc' \in [Workers -> Stages]
       /\ todo' \in [Workers -> Seq(GivenInsertions)]
       /\ index_bit' \in [Workers -> Nat]
       /\ pc'[w] \in {"load", "write"}
       /\ \A v \in Workers \ {w} :
            pc'[v] = pc[v] /\ todo'[v] = todo[v] /\ index_bit'[v] = index_bit[v]
       /\ \A v \in Workers : pc'[v] \in {"load", "store"} =>
            todo'[v] # <<>> /\ index_bit'[v] \in Stops(Head(todo'[v]).attr)
  <2>1. CASE next < EndBit(attr)
    <3>1. next \in Stops(attr)
      BY <1>4, <1>6, <2>1, NextStop
    <3>2. next \in Nat
      BY <1>6, <3>1, StopsInBuffer DEF SetupInv
    <3>3. /\ pc' = [pc EXCEPT ![w] = "load"]
          /\ index_bit' = [index_bit EXCEPT ![w] = next]
          /\ todo' = todo
      BY <2>1 DEF Store
    <3> HIDE DEF next, attr
    <3>4. /\ pc' \in [Workers -> Stages]
          /\ todo' \in [Workers -> Seq(GivenInsertions)]
          /\ index_bit' \in [Workers -> Nat]
          /\ pc'[w] = "load" /\ index_bit'[w] = next
          /\ \A v \in Workers \ {w} :
               pc'[v] = pc[v] /\ todo'[v] = todo[v] /\ index_bit'[v] = index_bit[v]
      BY <3>2, <3>3 DEF LocalInv, Stages
    <3>5. todo'[w] # <<>> /\ index_bit'[w] \in Stops(Head(todo'[w]).attr)
      BY <1>4, <3>1, <3>3, <3>4 DEF attr
    <3> QED
      BY <3>4, <3>5 DEF LoopInv
  <2>2. CASE ~(next < EndBit(attr))
    <3>1. BeginInsertion(w, Tail(todo[w]))
      BY <2>2 DEF Store
    <3> QED
      BY <1>5, <3>1, Beginning
  <2> QED
    BY <2>1, <2>2
<1> HIDE DEF attr, counts, byte, next
<1>12. SetupInv'
  BY DEF SetupInv, Store, setup
<1>13. BufferInv'
  <2>1. buffer' \in [0 .. protocol.hid_report_length - 1 -> Byte]
    BY <1>3, <1>8, <1>10
  <2> QED
    BY <2>1 DEF BufferInv, Store, setup
<1>14. FreshInv'
  BY <1>11 DEF FreshInv, Store, Off
<1>15. LocalInv'
  <2>1. \A v \in Workers : pc'[v] \in {"id", "load", "store", "write"} => move'[v] \in given'
    BY <1>1, <1>11 DEF LocalInv, Store, history
  <2> QED
    BY <1>2, <1>11, <2>1 DEF LocalInv, Store, history
<1>16. LoopInv'
  BY <1>11 DEF LoopInv
<1>17. GivenInv'
  <2>1. \A b \in byte : 8 * (index_bit[w] \div 8) + b \in GivenBits
    BY <1>1, <1>8, <1>9 DEF GivenInv
  <2>2. ASSUME NEW k \in DOMAIN buffer', NEW b \in buffer'[k]
        PROVE  8 * k + b \in GivenBits
    <3>1. CASE k = index_bit[w] \div 8
      BY <1>3, <1>7, <1>10, <2>1, <2>2, <3>1
    <3>2. CASE k # index_bit[w] \div 8
      BY <1>3, <1>10, <2>2, <3>2 DEF GivenInv
    <3> QED
      BY <3>1, <3>2
  <2> QED
    BY <1>2, <1>11, <2>2 DEF GivenInv, Store
<1> QED
  BY <1>12, <1>13, <1>14, <1>15, <1>16, <1>17

LEMMA CopyTypeInv ==
    ASSUME NEW w \in Workers
    PROVE  TypeInv /\ GivenInv /\ Copy(w) => TypeInv' /\ GivenInv'
<1> SUFFICES ASSUME TypeInv, GivenInv, Copy(w) PROVE TypeInv' /\ GivenInv'
  OBVIOUS
<1> USE DEF TypeInv
<1>1. pc[w] = "write" /\ Len(copied[w]) < protocol.hid_report_length
  BY DEF Copy
<1>2. GivenInsertions' = GivenInsertions /\ GivenBits' = GivenBits
  BY GivenStays DEF Copy, setup, history
<1>3. buffer \in [0 .. protocol.hid_report_length - 1 -> Byte]
  BY <1>1 DEF BufferInv, Off
<1>4. copied[w] \in Seq(Byte) /\ Len(copied[w]) \in Nat
  BY DEF LocalInv
<1>5. Len(copied[w]) \in DOMAIN buffer
  BY <1>1, <1>3, <1>4 DEF SetupInv
<1>6. copied' = [copied EXCEPT ![w] = Append(copied[w], buffer[Len(copied[w])])]
  BY DEF Copy
<1>7. SetupInv' /\ BufferInv'
  BY <1>3 DEF SetupInv, BufferInv, Copy, setup
<1>8. FreshInv'
  BY <1>1, <1>6 DEF FreshInv, Copy, Off, LocalInv
<1>9. LocalInv'
  <2>1. copied' \in [Workers -> Seq(Byte)]
    BY <1>3, <1>4, <1>5, <1>6 DEF LocalInv
  <2> QED
    BY <1>2, <2>1 DEF LocalInv, Copy, history
<1>10. LoopInv'
  BY DEF LoopInv, Copy
<1>11. GivenInv'
  <2>1. ASSUME NEW v \in Workers, NEW i \in DOMAIN copied'[v], NEW b \in copied'[v][i]
        PROVE  8 * (i - 1) + b \in GivenBits
    <3>1. CASE v = w /\ i = Len(copied[w]) + 1
      <4>1. copied'[w][i] = buffer[Len(copied[w])]
        BY <1>3, <1>4, <1>5, <1>6, <3>1 DEF LocalInv
      <4>2. i - 1 = Len(copied[w])
        BY <1>4, <3>1
      <4> QED
        BY <1>5, <2>1, <3>1, <4>1, <4>2 DEF GivenInv
    <3>2. CASE v = w /\ i # Len(copied[w]) + 1
      <4>1. i \in DOMAIN copied[w] /\ copied'[w][i] = copied[w][i]
        BY <1>3, <1>4, <1>5, <1>6, <2>1, <3>2 DEF LocalInv
      <4> QED
        BY <2>1, <3>2, <4>1 DEF GivenInv
    <3>3. CASE v # w
      <4>1. copied'[v] = copied[v]
        BY <1>6, <3>3 DEF LocalInv
      <4> QED
        BY <2>1, <4>1 DEF GivenInv
    <3> QED
      BY <3>1, <3>2, <3>3
  <2> QED
    BY <1>2, <2>1 DEF GivenInv, Copy
<1> QED
  BY <1>7, <1>8, <1>9, <1>10, <1>11

LEMMA ReturnTypeInv ==
    ASSUME NEW w \in Workers
    PROVE  TypeInv /\ GivenInv /\ Return(w) => TypeInv' /\ GivenInv'
<1> SUFFICES ASSUME TypeInv, GivenInv, Return(w) PROVE TypeInv' /\ GivenInv'
  OBVIOUS
<1> USE DEF TypeInv
<1>1. pc[w] = "write" /\ pc' = [pc EXCEPT ![w] = "idle"]
  BY DEF Return, Written
<1>2. GivenInsertions' = GivenInsertions /\ GivenBits' = GivenBits
  BY GivenStays DEF Return, setup
<1>3. SetupInv' /\ BufferInv'
  BY <1>1 DEF SetupInv, BufferInv, Return, setup, Off, LocalInv
<1>4. FreshInv'
  BY <1>1 DEF FreshInv, Return, Off, LocalInv
<1>5. LocalInv'
  <2>1. pc' \in [Workers -> Stages] /\ {} \in Byte /\ <<>> \in Seq(Byte)
    BY <1>1 DEF LocalInv, Stages, Byte
  <2>2. \A v \in Workers : pc'[v] \in {"id", "load", "store", "write"} => move'[v] \in given'
    BY <1>1 DEF LocalInv, Return
  <2> QED
    BY <1>2, <2>1, <2>2 DEF LocalInv, Return
<1>6. LoopInv'
  BY <1>1 DEF LoopInv, Return, LocalInv
<1>7. GivenInv'
  <2>1. copied' = [copied EXCEPT ![w] = <<>>]
    BY DEF Return
  <2> QED
    BY <1>1, <1>2, <2>1 DEF GivenInv, Return, LocalInv
<1> QED
  BY <1>3, <1>4, <1>5, <1>6, <1>7

LEMMA StutterTypeInv == TypeInv /\ GivenInv /\ UNCHANGED vars => TypeInv' /\ GivenInv'
<1> SUFFICES ASSUME TypeInv, GivenInv, UNCHANGED vars PROVE TypeInv' /\ GivenInv'
  OBVIOUS
<1> USE DEF TypeInv, vars, setup, local, history
<1>1. GivenInsertions' = GivenInsertions /\ GivenBits' = GivenBits
  BY GivenStays
<1> QED
  BY <1>1 DEF SetupInv, BufferInv, FreshInv, LocalInv, LoopInv, GivenInv

-------------------------------------------------------------------------------
LEMMA Inductive == TypeInv /\ GivenInv /\ [Next]_vars => TypeInv' /\ GivenInv'
<1> SUFFICES ASSUME TypeInv, GivenInv, [Next]_vars PROVE TypeInv' /\ GivenInv'
  OBVIOUS
<1>1. CASE InitProtocol
  BY <1>1, InitProtocolTypeInv
<1>2. CASE InitThrows
  BY <1>2, InitThrowsTypeInv
<1>3. ASSUME NEW w \in Workers,
             Send(w) \/ StoreId(w) \/ Load(w) \/ Store(w) \/ Copy(w) \/ Return(w)
      PROVE  TypeInv' /\ GivenInv'
  BY <1>3, SendTypeInv, StoreIdTypeInv, LoadTypeInv, StoreTypeInv, CopyTypeInv,
     ReturnTypeInv
<1>4. CASE UNCHANGED vars
  BY <1>4, StutterTypeInv
<1> QED
  BY <1>1, <1>2, <1>3, <1>4 DEF Next

LEMMA InvariantHolds == Spec => [](TypeInv /\ GivenInv)
<1> QED
  BY InitTypeInv, Inductive, PTL DEF Spec

\* Send() never leaves the buffer, and a byte of it never has other bits than the
\* eight, whichever fields the mouse declares and however many threads send.
THEOREM TypeCorrect == Spec => []TypeOK
<1>1. TypeInv => TypeOK
  <2> SUFFICES ASSUME TypeInv PROVE TypeOK
    OBVIOUS
  <2> USE DEF TypeInv
  <2>1. \A w \in Workers : \A i \in DOMAIN todo[w] : todo[w][i].attr \in Attributes
    <3> SUFFICES ASSUME NEW w \in Workers, NEW i \in DOMAIN todo[w]
                 PROVE  todo[w][i].attr \in Attributes
      OBVIOUS
    <3>1. todo[w] \in Seq(GivenInsertions)
      BY DEF LocalInv
    <3>2. todo[w][i] \in GivenInsertions
      BY <3>1
    <3> QED
      BY <3>2, GivenFit DEF Fitting
  <2>2. ASSUME NEW w \in Workers, pc[w] \in {"load", "store"}
        PROVE  /\ index_bit[w] \in Stops(Head(todo[w]).attr)
               /\ index_bit[w] \div 8 \in DOMAIN buffer
    <3>1. buffer \in [0 .. protocol.hid_report_length - 1 -> Byte]
      BY <2>2 DEF BufferInv, Off
    <3>2. /\ todo[w] \in Seq(GivenInsertions) /\ todo[w] # <<>>
          /\ index_bit[w] \in Stops(Head(todo[w]).attr)
      BY <2>2 DEF LocalInv, LoopInv
    <3>3. Head(todo[w]) \in GivenInsertions
      BY <3>2
    <3> QED
      BY <3>1, <3>2, <3>3, GivenFit, StopsInBuffer DEF SetupInv
  <2> QED
    BY <2>1, <2>2 DEF TypeOK, SetupInv, BufferInv, LocalInv, Stages
<1> QED
  BY <1>1, InvariantHolds, PTL

\* However the loads, stores and copies of the workers interleave, a report has no
\* bit set that no movement sets.
THEOREM BitsAreGiven == Spec => []EveryBitWasGiven
<1>1. TypeInv /\ GivenInv => EveryBitWasGiven
  <2> SUFFICES ASSUME TypeInv, GivenInv, NEW w \in Workers, Written(w),
                      NEW k \in DOMAIN wire(w), NEW b \in wire(w)[k]
               PROVE  8 * k + b \in GivenBits
    BY DEF EveryBitWasGiven
  <2>1. copied[w] \in Seq(Byte) /\ Len(copied[w]) \in Nat
    BY DEF TypeInv, LocalInv
  <2>2. k \in 0 .. Len(copied[w]) - 1 /\ b \in copied[w][k + 1]
    BY DEF wire
  <2>3. k + 1 \in DOMAIN copied[w] /\ (k + 1) - 1 = k
    BY <2>1, <2>2
  <2> QED
    BY <2>2, <2>3 DEF GivenInv
<1> QED
  BY <1>1, InvariantHolds, PTL


-------------------------------------------------------------------------------
(* A call of Send() that no other one overlaps.                            *)

\* Bit n of a report.
BitAt(report, n) == n % 8 \in report[n \div 8]

ReportBits(len) == 0 .. len * 8 - 1

\* Of the insertions, the p-th one is the last that writes bit n.
Decides(insertions, p, n) ==
    /\ n \in BitsOf(insertions[p].attr)
    /\ \A q \in p + 1 .. Len(insertions) : n \notin BitsOf(insertions[q].attr)

Untouched(insertions, n) ==
    \A p \in 1 .. Len(insertions) : n \notin BitsOf(insertions[p].attr)

\* The bits that are set when the report ID has been stored into a report.
WithId(report, id, len) ==
    {n \in ReportBits(len) : IF id # 0 /\ n < 8 THEN n \in IdBits(id) ELSE BitAt(report, n)}

\* What Encode() finds set when its first insertion begins.
Found(w) == WithId(before[w], protocol.hid_report_id, protocol.hid_report_length)

\* What the call inserts, and how many of the insertions are done.
Encoded(w) == Encoding(move[w])
Done(w) == Len(Encoded(w)) - Len(todo[w])

\* Only a worker that is in write() has copied anything.
CopyInv == \A w \in Workers : pc[w] # "write" => copied[w] = <<>>

\* Whoever calls Send() alone finds in the buffer what it has left there,
AloneAt(w) ==
    /\ pc[w] \in {"id", "load", "store", "write"}
    /\ \A v \in Workers : v # w => pc[v] = "idle"
    /\ before[w] \in [0 .. protocol.hid_report_length - 1 -> Byte]
    /\ pc[w] = "id" => buffer = before[w]
    /\ pc[w] = "store" => value[w] = buffer[index_bit[w] \div 8]
    /\ \A i \in DOMAIN copied[w] : copied[w][i] = buffer[i - 1]

\* and inserts what Encode() says, in its order: the bits of the insertions that are
\* done, and those of the current one up to index_bit, are in the buffer, and the
\* bits of no insertion are as they were.
BitsDone(report, len, insertions, done, index) ==
    \A n \in ReportBits(len), p \in 1 .. Len(insertions) :
        Decides(insertions, p, n) /\ (p <= done \/ (p = done + 1 /\ n < index)) =>
            (BitAt(report, n) <=> Bit(insertions[p].counts, n - insertions[p].attr.offset))
BitsKept(report, len, insertions, found) ==
    \A n \in ReportBits(len) : Untouched(insertions, n) => (BitAt(report, n) <=> n \in found)
ProgressAt(w) ==
    /\ Done(w) \in Nat
    /\ \A i \in 1 .. Len(todo[w]) : todo[w][i] = Encoded(w)[Done(w) + i]
    /\ pc[w] = "write" => todo[w] = <<>>
    /\ BitsDone(buffer, protocol.hid_report_length, Encoded(w), Done(w), index_bit[w])
    /\ BitsKept(buffer, protocol.hid_report_length, Encoded(w), Found(w))

AloneInv ==
    \A w \in Workers : Alone(w) => AloneAt(w) /\ (pc[w] # "id" => ProgressAt(w))

\* The fields of a mouse with report IDs are after the byte of the ID.
AfterIdInv ==
    protocol.hid_report_id # 0 =>
        \A attr \in protocol.x \cup protocol.y \cup protocol.scroll : attr.offset >= 8

\* Send() alone writes the report that Encode() describes: the last insertion that
\* has a bit decides it; the bits of no insertion are those of the report ID, or
\* those that the report before left.
AloneIsSequential ==
    \A w \in Workers : Written(w) /\ Alone(w) =>
        \A n \in ReportBits(protocol.hid_report_length) :
            /\ \A p \in 1 .. Len(Encoded(w)) :
                 Decides(Encoded(w), p, n) =>
                     (BitAt(wire(w), n) <=> Bit(Encoded(w)[p].counts,
                                                n - Encoded(w)[p].attr.offset))
            /\ Untouched(Encoded(w), n) => (BitAt(wire(w), n) <=> n \in Found(w))

-------------------------------------------------------------------------------
(* Bits and insertions.                                                    *)

LEMMA BitPlace ==
    ASSUME NEW n \in Nat
    PROVE  /\ n \div 8 \in Nat /\ n % 8 \in 0..7
           /\ n = 8 * (n \div 8) + (n % 8)
  OBVIOUS

\* A report with the byte of the i-th bit stored.
WithBits(report, attr, counts, i) ==
    [report EXCEPT ![i \div 8] = InsertBits(report[i \div 8], attr, counts, i)]

\* InsertBits() decides the bits of the field up to the next stop, which are bits of
\* the field, and leaves the other bits as they are.
LEMMA StoredBits ==
    ASSUME NEW attr, Fitting(attr), NEW i \in Stops(attr), NEW counts, NEW len \in Nat,
           NEW buf \in [0 .. len - 1 -> Byte], i \div 8 \in 0 .. len - 1,
           NEW n \in 0 .. len * 8 - 1,
           NEW new, new = WithBits(buf, attr, counts, i),
           NEW next, next = i + BitCount(attr, i)
    PROVE  /\ next \in Nat /\ i < next /\ next <= EndBit(attr)
           /\ n \in i .. next - 1 =>
                n \in BitsOf(attr) /\ (BitAt(new, n) <=> Bit(counts, n - attr.offset))
           /\ n \notin i .. next - 1 => (BitAt(new, n) <=> BitAt(buf, n))
<1>1. attr.offset \in Nat /\ attr.bit_sz \in Nat
  BY DEF Fitting, Attributes
<1>2. i \in attr.offset .. attr.offset + attr.bit_sz - 1
  BY <1>1 DEF Stops, EndBit
<1>3. i \in Nat /\ i % 8 \in 0..7 /\ i = 8 * (i \div 8) + (i % 8) /\ i \div 8 \in Nat
  BY <1>1, <1>2
<1> DEFINE count == BitCount(attr, i)
<1>4. /\ count \in Nat /\ count > 0
      /\ count <= 8 - (i % 8)
      /\ i + count <= attr.offset + attr.bit_sz /\ next = i + count
  <2>0. attr.offset + attr.bit_sz \in Int /\ i < attr.offset + attr.bit_sz
    BY <1>1, <1>2
  <2>1. PICK r \in 0..7, end \in Int : r = i % 8 /\ end = attr.offset + attr.bit_sz /\ i < end
    BY <1>3, <2>0, Zenon
  <2>2. count = IF 8 - r < end - i THEN 8 - r ELSE end - i
    BY <2>1 DEF BitCount, Smaller, EndBit
  <2>3. next = i + count
    OBVIOUS
  <2> HIDE DEF count
  <2> QED
    BY <1>3, <2>1, <2>2, <2>3
<1>5. n \in Nat /\ n \div 8 \in Nat /\ n % 8 \in 0..7 /\ n = 8 * (n \div 8) + (n % 8)
  OBVIOUS
<1>6. n \div 8 \in 0 .. len - 1
  BY <1>5
<1> DEFINE byte == InsertBits(buf[i \div 8], attr, counts, i)
<1> DEFINE mask == (i % 8) .. (i % 8) + count - 1
<1>7. CASE n \in i .. next - 1
  <2>0. PICK qi \in Nat, ri \in 0..7, qn \in Nat, rn \in 0..7, c \in Nat, o \in Nat :
          /\ qi = i \div 8 /\ ri = i % 8 /\ qn = n \div 8 /\ rn = n % 8
          /\ c = count /\ o = attr.offset
    BY <1>1, <1>3, <1>4, <1>5
  <2>1. qn = qi /\ rn \in ri .. ri + c - 1 /\ i - o + rn - ri = n - o
    <3>1. i = 8 * qi + ri /\ n = 8 * qn + rn /\ i <= n /\ n < i + c /\ c <= 8 - ri
      BY <1>3, <1>4, <1>5, <1>7, <2>0
    <3>2. qn = qi
      BY <3>1
    <3> QED
      BY <3>1, <3>2
  <2>2. n % 8 \in mask /\ i - attr.offset + (n % 8) - (i % 8) = n - attr.offset
    BY <2>0, <2>1
  <2>3. n % 8 \in byte <=> Bit(counts, i - attr.offset + (n % 8) - (i % 8))
    BY <2>2 DEF InsertBits
  <2>4. new[n \div 8] = byte
    BY <1>6, <2>0, <2>1 DEF WithBits
  <2>5. n \in BitsOf(attr)
    BY <1>1, <1>2, <1>4, <1>5, <1>7 DEF BitsOf, EndBit
  <2> HIDE DEF mask, byte
  <2>6. BitAt(new, n) <=> Bit(counts, n - attr.offset)
    BY <2>2, <2>3, <2>4, Zenon DEF BitAt
  <2> QED
    BY <1>1, <1>3, <1>4, <1>7, <2>5, <2>6 DEF EndBit
<1>8. CASE n \notin i .. next - 1
  <2>1. CASE n \div 8 = i \div 8
    <3>0. PICK q \in Nat, ri \in 0..7, rn \in 0..7, c \in Nat :
            /\ q = i \div 8 /\ ri = i % 8 /\ rn = n % 8 /\ c = count
            /\ i = 8 * q + ri /\ n = 8 * q + rn
      BY <1>3, <1>4, <1>5, <2>1
    <3>1. n % 8 \notin mask
      <4>1. ~(i <= n /\ n < i + c)
        BY <1>3, <1>5, <1>8, <3>0
      <4>2. rn \notin ri .. ri + c - 1
        BY <3>0, <4>1
      <4> QED
        BY <3>0, <4>2
    <3>2. n % 8 \in byte <=> n % 8 \in buf[i \div 8]
      BY <3>1 DEF InsertBits
    <3>3. new[n \div 8] = byte
      BY <1>6, <2>1 DEF WithBits
    <3> HIDE DEF mask, byte
    <3>4. BitAt(new, n) <=> BitAt(buf, n)
      BY <2>1, <3>2, <3>3, Zenon DEF BitAt
    <3> QED
      BY <1>1, <1>3, <1>4, <1>8, <3>4 DEF EndBit
  <2>2. CASE n \div 8 # i \div 8
    <3>1. new[n \div 8] = buf[n \div 8]
      BY <1>6, <2>2 DEF WithBits
      <3>2. BitAt(new, n) <=> BitAt(buf, n)
      BY <3>1, Zenon DEF BitAt
    <3> QED
      BY <1>1, <1>3, <1>4, <1>8, <3>2 DEF EndBit
  <2> QED
    BY <2>1, <2>2
<1> QED
  BY <1>7, <1>8

\* The report ID decides the first byte.
LEMMA IdStored ==
    ASSUME NEW len \in Nat, NEW buf \in [0 .. len - 1 -> Byte], NEW id \in 0..255,
           NEW new, new = IF id = 0 THEN buf ELSE [buf EXCEPT ![0] = IdBits(id)],
           NEW n \in 0 .. len * 8 - 1
    PROVE  BitAt(new, n) <=> IF id # 0 /\ n < 8 THEN n \in IdBits(id) ELSE BitAt(buf, n)
<1>1. n \in Nat /\ n \div 8 \in 0 .. len - 1 /\ n % 8 \in 0..7 /\ n = 8 * (n \div 8) + (n % 8)
  OBVIOUS
<1>2. CASE id = 0
  BY <1>2
<1>3. CASE id # 0 /\ n < 8
  <2>1. n \div 8 = 0 /\ n % 8 = n
    BY <1>1, <1>3
  <2>2. new[0] = IdBits(id)
    BY <1>1, <1>3, <2>1
  <2> QED
    BY <1>3, <2>1, <2>2, Zenon DEF BitAt
<1>4. CASE id # 0 /\ ~(n < 8)
  <2>1. n \div 8 # 0
    BY <1>1, <1>4
  <2>2. new[n \div 8] = buf[n \div 8]
    BY <1>1, <1>4, <2>1
  <2> QED
    BY <1>4, <2>2, Zenon DEF BitAt
<1> QED
  BY <1>2, <1>3, <1>4

\* Encode() inserts what Writes() says, and nothing else.
LEMMA EncodingWrites ==
    ASSUME NEW m
    PROVE  Encoding(m) \in Seq(Writes(m, 1) \cup Writes(m, 2) \cup Writes(m, 3))
<1> DEFINE All == Writes(m, 1) \cup Writes(m, 2) \cup Writes(m, 3)
<1>1. ASSUME NEW S, S \subseteq All
      PROVE  AsSeq(S) \in Seq(All)
  <2> HIDE DEF All
  <2>1. CASE S = {}
    BY <2>1 DEF AsSeq
  <2>2. CASE S # {}
    <3>1. (CHOOSE s \in S : TRUE) \in All
      BY <2>2, <1>1
    <3> QED
      BY <3>1, <2>2 DEF AsSeq
  <2> QED
    BY <2>1, <2>2
<1>2. Writes(m, 1) \subseteq All /\ Writes(m, 2) \subseteq All /\ Writes(m, 3) \subseteq All
  OBVIOUS
<1> HIDE DEF All
<1>3. AsSeq(Writes(m, 1)) \in Seq(All) /\ AsSeq(Writes(m, 2)) \in Seq(All)
      /\ AsSeq(Writes(m, 3)) \in Seq(All)
  BY <1>1, <1>2
<1> QED
  BY <1>3 DEF Encoding, All

LEMMA EncodingFits ==
    ASSUME SetupInv, NEW m
    PROVE  /\ Len(Encoding(m)) \in Nat
           /\ \A p \in 1 .. Len(Encoding(m)) :
                /\ Fitting(Encoding(m)[p].attr)
                /\ \E j \in 1..3 : Encoding(m)[p] \in Writes(m, j)
<1> DEFINE All == Writes(m, 1) \cup Writes(m, 2) \cup Writes(m, 3)
<1>1. Encoding(m) \in Seq(All)
  BY EncodingWrites
<1>2. \A s \in All : \E j \in 1..3 : s \in Writes(m, j)
  OBVIOUS
<1> HIDE DEF All
<1>3. \A p \in 1 .. Len(Encoding(m)) : \E j \in 1..3 : Encoding(m)[p] \in Writes(m, j)
  BY <1>1, <1>2
<1> QED
  BY <1>1, <1>3, WritesFit

\* While the protocol and the movement stay, so does what Encode() inserts.
LEMMA EncodedStays ==
    ASSUME NEW w, UNCHANGED protocol, move'[w] = move[w]
    PROVE  Encoded(w)' = Encoded(w)
<1>1. \A i \in 1..3 : Writes(move[w], i)' = Writes(move[w], i)
  BY DEF Writes, Insertions, Accepted
<1>2. /\ Writes(move[w], 1)' = Writes(move[w], 1)
      /\ Writes(move[w], 2)' = Writes(move[w], 2)
      /\ Writes(move[w], 3)' = Writes(move[w], 3)
  BY <1>1
<1> QED
  BY <1>2 DEF Encoded, Encoding

\* A store of the (d+1)-th insertion decides its bits up to the next stop, and
\* disturbs no bit that the insertions before it decide.
LEMMA StoredProgress ==
    ASSUME NEW E, Len(E) \in Nat, NEW d \in Nat, d + 1 \in 1 .. Len(E),
           Fitting(E[d + 1].attr), NEW i \in Stops(E[d + 1].attr), NEW len \in Nat,
           NEW buf \in [0 .. len - 1 -> Byte], i \div 8 \in 0 .. len - 1,
           NEW new, new = WithBits(buf, E[d + 1].attr, E[d + 1].counts, i),
           NEW n \in 0 .. len * 8 - 1, NEW p \in 1 .. Len(E), Decides(E, p, n),
           p <= d \/ (p = d + 1 /\ n < i + BitCount(E[d + 1].attr, i)),
           p <= d \/ (p = d + 1 /\ n < i) =>
               (BitAt(buf, n) <=> Bit(E[p].counts, n - E[p].attr.offset))
    PROVE  BitAt(new, n) <=> Bit(E[p].counts, n - E[p].attr.offset)
<1>0. PICK attr, counts : attr = E[d + 1].attr /\ counts = E[d + 1].counts
  OBVIOUS
<1> PICK next : next = i + BitCount(attr, i)
  OBVIOUS
<1>1. /\ next \in Nat /\ i < next /\ next <= EndBit(attr)
      /\ n \in i .. next - 1 =>
           n \in BitsOf(attr) /\ (BitAt(new, n) <=> Bit(counts, n - attr.offset))
      /\ n \notin i .. next - 1 => (BitAt(new, n) <=> BitAt(buf, n))
  <2>1. /\ Fitting(attr) /\ i \in Stops(attr)
        /\ new = WithBits(buf, attr, counts, i)
    BY <1>0
  <2> QED
    BY <2>1, StoredBits
<1>2. i \in Nat /\ n \in Nat
  BY DEF Stops, Fitting, Attributes
<1>3. CASE p <= d
  <2>1. n \notin BitsOf(attr)
    BY <1>0, <1>3 DEF Decides
  <2> QED
    BY <1>1, <1>3, <2>1
<1>4. CASE p = d + 1 /\ n < i
  <2>1. n \notin i .. next - 1
    BY <1>2, <1>4
  <2> QED
    BY <1>1, <1>4, <2>1
<1>5. CASE p = d + 1 /\ ~(n < i) /\ n < next
  <2>1. n \in i .. next - 1
    BY <1>1, <1>2, <1>5
  <2> QED
    BY <1>0, <1>1, <1>5, <2>1
<1> QED
  BY <1>0, <1>1, <1>2, <1>3, <1>4, <1>5

\* So a store of the current insertion makes progress: to the next stop of its field,
\* or past its end to the first bit of the next insertion.
LEMMA StoreProgress ==
    ASSUME NEW E, Len(E) \in Nat, NEW d \in Nat, d + 1 \in 1 .. Len(E),
           \A p \in 1 .. Len(E) : Fitting(E[p].attr),
           NEW i \in Stops(E[d + 1].attr), NEW len \in Nat,
           NEW buf \in [0 .. len - 1 -> Byte], i \div 8 \in 0 .. len - 1,
           NEW new, new = WithBits(buf, E[d + 1].attr, E[d + 1].counts, i),
           NEW next, next = i + BitCount(E[d + 1].attr, i), NEW found,
           BitsDone(buf, len, E, d, i), BitsKept(buf, len, E, found)
    PROVE  /\ BitsDone(new, len, E, d, next)
           /\ BitsKept(new, len, E, found)
           /\ ~(next < EndBit(E[d + 1].attr)) => \A j :
                (d + 2 <= Len(E) => j = E[d + 2].attr.offset) => BitsDone(new, len, E, d + 1, j)
<1>1. ASSUME NEW n \in ReportBits(len), NEW p \in 1 .. Len(E), Decides(E, p, n),
             p <= d \/ (p = d + 1 /\ n < next)
      PROVE  BitAt(new, n) <=> Bit(E[p].counts, n - E[p].attr.offset)
  <2>1. p <= d \/ (p = d + 1 /\ n < i) =>
            (BitAt(buf, n) <=> Bit(E[p].counts, n - E[p].attr.offset))
    BY <1>1 DEF BitsDone
  <2>2. n \in 0 .. len * 8 - 1
    BY DEF ReportBits
  <2>3. /\ Fitting(E[d + 1].attr)
        /\ p <= d \/ (p = d + 1 /\ n < i + BitCount(E[d + 1].attr, i))
    BY <1>1
  <2> QED
    BY <1>1, <2>1, <2>2, <2>3, StoredProgress
<1>2. BitsDone(new, len, E, d, next)
  BY <1>1 DEF BitsDone
<1>3. PICK attr, counts : attr = E[d + 1].attr /\ counts = E[d + 1].counts
  OBVIOUS
<1>4. /\ Fitting(attr) /\ i \in Stops(attr) /\ i \in Nat
      /\ attr.offset \in Nat /\ attr.bit_sz \in Nat
      /\ new = WithBits(buf, attr, counts, i) /\ next = i + BitCount(attr, i)
  <2>1. Fitting(attr) /\ i \in Stops(attr)
    BY <1>3
  <2>2. attr.offset \in Nat /\ attr.bit_sz \in Nat
    BY <2>1 DEF Fitting, Attributes
  <2>3. i \in Nat
    BY <2>1, <2>2 DEF Stops, EndBit
  <2> QED
    BY <1>3, <2>1, <2>2, <2>3
<1>5. ASSUME NEW n \in ReportBits(len), Untouched(E, n)
      PROVE  BitAt(new, n) <=> n \in found
  <2>1. n \notin BitsOf(attr)
    BY <1>3, <1>5 DEF Untouched
  <2>2. n \in 0 .. len * 8 - 1
    BY DEF ReportBits
  <2>3. /\ n \in i .. next - 1 => n \in BitsOf(attr)
        /\ n \notin i .. next - 1 => (BitAt(new, n) <=> BitAt(buf, n))
    BY <1>4, <2>2, StoredBits
  <2>4. BitAt(new, n) <=> BitAt(buf, n)
    BY <2>1, <2>3
  <2> QED
    BY <1>5, <2>4 DEF BitsKept
<1>6. BitsKept(new, len, E, found)
  BY <1>5 DEF BitsKept
<1>7. ASSUME ~(next < EndBit(E[d + 1].attr)), NEW j, d + 2 <= Len(E) => j = E[d + 2].attr.offset,
             NEW n \in ReportBits(len), NEW p \in 1 .. Len(E), Decides(E, p, n),
             p <= d + 1 \/ (p = d + 1 + 1 /\ n < j)
      PROVE  BitAt(new, n) <=> Bit(E[p].counts, n - E[p].attr.offset)
  <2>0. n \in Nat
    BY DEF ReportBits
  <2>1. CASE p <= d
    BY <1>1, <1>7, <2>1
  <2>2. CASE p = d + 1
    <3>1. n \in BitsOf(attr)
      BY <1>3, <1>7, <2>2 DEF Decides
    <3>2. next \in Int
      <4>1. next <= EndBit(attr) /\ next \in Nat
        <5>1. n \in 0 .. len * 8 - 1
          BY DEF ReportBits
        <5> QED
          BY <1>4, <5>1, StoredBits
      <4> QED
        BY <4>1
    <3>3. n < next
      <4>1. ~(next < attr.offset + attr.bit_sz)
        BY <1>3, <1>7 DEF EndBit
      <4>2. n < attr.offset + attr.bit_sz
        BY <1>4, <2>0, <3>1 DEF BitsOf, EndBit
      <4> QED
        BY <1>4, <2>0, <3>2, <4>1, <4>2
    <3> QED
      BY <1>1, <1>7, <2>2, <3>3
  <2>3. CASE p = d + 2 /\ n < j
    <3>1. PICK a : a = E[p].attr
      OBVIOUS
    <3>2. n < a.offset /\ n \in BitsOf(a) /\ Fitting(a)
      BY <1>7, <2>3, <3>1 DEF Decides
    <3>3. a.offset \in Nat /\ a.bit_sz \in Nat
      BY <3>2 DEF Fitting, Attributes
    <3> QED
      BY <2>0, <3>2, <3>3 DEF BitsOf, EndBit
  <2> QED
    BY <1>7, <2>1, <2>2, <2>3
<1>8. ~(next < EndBit(E[d + 1].attr)) => \A j :
        (d + 2 <= Len(E) => j = E[d + 2].attr.offset) => BitsDone(new, len, E, d + 1, j)
  BY <1>7 DEF BitsDone
<1> QED
  BY <1>2, <1>6, <1>8

\* At the first bit of the first insertion nothing is done, and the report ID is all
\* that has changed.
LEMMA FirstProgress ==
    ASSUME NEW E, Len(E) \in Nat, \A p \in 1 .. Len(E) : Fitting(E[p].attr),
           NEW len \in Nat, NEW buf \in [0 .. len - 1 -> Byte], NEW id \in 0..255,
           NEW new, new = IF id = 0 THEN buf ELSE [buf EXCEPT ![0] = IdBits(id)],
           NEW j, Len(E) > 0 => j = E[1].attr.offset
    PROVE  BitsDone(new, len, E, 0, j) /\ BitsKept(new, len, E, WithId(buf, id, len))
<1>1. ASSUME NEW n \in ReportBits(len), NEW p \in 1 .. Len(E), Decides(E, p, n),
             p <= 0 \/ (p = 0 + 1 /\ n < j)
      PROVE  FALSE
  <2>1. p = 1 /\ n < j /\ j = E[1].attr.offset /\ Fitting(E[1].attr)
    BY <1>1
  <2>2. n \in BitsOf(E[1].attr)
    BY <1>1, <2>1 DEF Decides
  <2>3. PICK attr : attr = E[1].attr
    OBVIOUS
  <2>4. attr.offset \in Nat /\ attr.bit_sz \in Nat /\ n < attr.offset /\ n \in BitsOf(attr)
    BY <2>1, <2>2, <2>3 DEF Fitting, Attributes
  <2> QED
    BY <2>4 DEF BitsOf, EndBit
<1>2. \A n \in ReportBits(len) : BitAt(new, n) <=> n \in WithId(buf, id, len)
  <2> SUFFICES ASSUME NEW n \in ReportBits(len)
               PROVE  BitAt(new, n) <=> n \in WithId(buf, id, len)
    OBVIOUS
  <2>1. n \in 0 .. len * 8 - 1
    BY DEF ReportBits
  <2>2. BitAt(new, n) <=> IF id # 0 /\ n < 8 THEN n \in IdBits(id) ELSE BitAt(buf, n)
    BY <2>1, IdStored
  <2> QED
    BY <2>2 DEF WithId
<1> QED
  BY <1>1, <1>2 DEF BitsDone, BitsKept

LEMMA OnlyOneAlone ==
    ASSUME AloneInv, NEW w \in Workers, NEW u \in Workers, Alone(u), pc[w] # "idle"
    PROVE  u = w
  BY DEF AloneInv, AloneAt

-------------------------------------------------------------------------------
SequentialInv == AfterIdInv /\ CopyInv /\ DOMAIN before = Workers /\ AloneInv

LEMMA InitSequential == Init => SequentialInv
  BY DEF Init, SequentialInv, AfterIdInv, CopyInv, AloneInv, Alone, Unset

\* No field that MouseProtocol keeps is in the byte of the report ID.
LEMMA ParsedAfterId ==
    ASSUME NEW mouse \in Descriptors, NEW last \in DOMAIN mouse,
           mouse[last].report_id # 0
    PROVE  LET p == ParseReportDescriptor(mouse, last)
           IN  \A attr \in p.x \cup p.y \cup p.scroll : attr.offset >= 8
<1>1. mouse \in Seq(Report)
  BY DescriptorsAssumption
<1>2. \A p \in Places(mouse, last) : mouse[p[1]].fields[p[2]].attr.offset >= 8
  <2> SUFFICES ASSUME NEW i \in 1..last, NEW j \in DOMAIN mouse[i].fields
               PROVE  mouse[i].fields[j].attr.offset >= 8
    BY DEF Places
  <2>1. i \in DOMAIN mouse
    BY <1>1
  <2> QED
    BY <2>1, OffsetsAssumption
<1> QED
  BY <1>2 DEF ParseReportDescriptor

LEMMA InitProtocolSequential ==
    ASSUME TypeInv, SequentialInv, InitProtocol
    PROVE  SequentialInv'
<1>1. PICK i \in DOMAIN descriptor : protocol' = ParseReportDescriptor(descriptor, i)
  BY DEF InitProtocol
<1>2. descriptor \in Descriptors
  BY DEF TypeInv, SetupInv
<1>3. AfterIdInv'
  <2>1. protocol'.hid_report_id = descriptor[i].report_id
    BY <1>1 DEF ParseReportDescriptor
  <2> QED
    BY <1>1, <1>2, <2>1, ParsedAfterId DEF AfterIdInv
<1>4. \A w \in Workers : pc[w] = "new" /\ pc'[w] = "idle" /\ before'[w] = before[w]
  BY DEF InitProtocol, history
<1>5. CopyInv'
  BY <1>4 DEF InitProtocol, SequentialInv, CopyInv
<1>6. AloneInv'
  BY <1>4 DEF SequentialInv, AloneInv, AloneAt, Alone
<1> QED
  BY <1>3, <1>5, <1>6 DEF SequentialInv, InitProtocol, history

LEMMA InitThrowsSequential ==
    ASSUME TypeInv, SequentialInv, InitThrows
    PROVE  SequentialInv'
<1>1. \A w \in Workers : pc[w] = "new" /\ pc'[w] = "ended" /\ before'[w] = before[w]
  BY DEF InitThrows, history
<1>2. AfterIdInv' /\ CopyInv'
  BY <1>1 DEF InitThrows, SequentialInv, AfterIdInv, CopyInv, setup
<1>3. AloneInv'
  BY <1>1 DEF SequentialInv, AloneInv, AloneAt, Alone
<1> QED
  BY <1>2, <1>3 DEF SequentialInv, InitThrows, history

LEMMA SendSequential ==
    ASSUME TypeInv, SequentialInv, NEW w \in Workers, Send(w)
    PROVE  SequentialInv'
<1>1. /\ pc[w] = "idle" /\ pc' = [pc EXCEPT ![w] = "id"] /\ pc \in [Workers -> Stages]
      /\ buffer' = buffer /\ copied' = copied /\ protocol' = protocol
  BY DEF Send, setup, TypeInv, LocalInv
<1>2. AfterIdInv' /\ CopyInv'
  BY <1>1 DEF SequentialInv, AfterIdInv, CopyInv
<1>3. buffer \in [0 .. protocol.hid_report_length - 1 -> Byte]
  BY <1>1 DEF TypeInv, BufferInv, Off
<1>4. ASSUME NEW u \in Workers, Alone(u)'
      PROVE  u = w /\ before'[w] = buffer /\ \A v \in Workers : pc[v] = "idle"
  BY <1>4 DEF Send, Alone
<1>5. ASSUME Alone(w)' PROVE AloneAt(w)'
  <2>1. copied[w] = <<>>
    BY <1>1 DEF SequentialInv, CopyInv
  <2> QED
    BY <1>1, <1>3, <1>4, <1>5, <2>1 DEF AloneAt
<1>6. AloneInv'
  BY <1>1, <1>4, <1>5 DEF AloneInv
<1> QED
  BY <1>2, <1>6 DEF SequentialInv, Send

\* For a step of a worker inside of Send(), that worker is the one to look at.
LEMMA InsideSequential ==
    ASSUME TypeInv, SequentialInv, NEW w \in Workers, pc[w] # "idle",
           before' = before, UNCHANGED protocol, CopyInv',
           Alone(w) => AloneAt(w)' /\ (pc'[w] # "id" => ProgressAt(w)')
    PROVE  SequentialInv'
<1>1. AfterIdInv'
  BY DEF SequentialInv, AfterIdInv
<1>2. \A u \in Workers : Alone(u)' => Alone(u) /\ u = w
  BY OnlyOneAlone DEF SequentialInv, Alone
<1>3. AloneInv'
  BY <1>2 DEF AloneInv
<1> QED
  BY <1>1, <1>3 DEF SequentialInv

LEMMA LoadSequential ==
    ASSUME TypeInv, SequentialInv, NEW w \in Workers, Load(w)
    PROVE  SequentialInv'
<1>1. /\ pc[w] = "load" /\ pc' = [pc EXCEPT ![w] = "store"] /\ pc \in [Workers -> Stages]
      /\ value' = [value EXCEPT ![w] = buffer[index_bit[w] \div 8]]
      /\ value \in [Workers -> Byte]
      /\ UNCHANGED <<protocol, buffer, move, todo, index_bit, copied, before>>
  BY DEF Load, setup, history, TypeInv, LocalInv
<1>2. CopyInv'
  BY <1>1 DEF SequentialInv, CopyInv
<1>3. ASSUME Alone(w) PROVE AloneAt(w)'
  BY <1>1, <1>3 DEF SequentialInv, AloneInv, AloneAt
<1>4. ASSUME Alone(w) PROVE ProgressAt(w)'
  <2>1. Encoded(w)' = Encoded(w)
    BY <1>1, EncodedStays
  <2>2. ProgressAt(w)
    BY <1>1, <1>4 DEF SequentialInv, AloneInv
  <2>3. Done(w)' = Done(w)
    BY <1>1, <2>1 DEF Done
  <2> QED
    BY <1>1, <2>1, <2>2, <2>3 DEF ProgressAt, Found
<1> QED
  BY <1>1, <1>2, <1>3, <1>4, InsideSequential

LEMMA CopySequential ==
    ASSUME TypeInv, SequentialInv, NEW w \in Workers, Copy(w)
    PROVE  SequentialInv'
<1>1. /\ pc[w] = "write" /\ Len(copied[w]) < protocol.hid_report_length
      /\ copied' = [copied EXCEPT ![w] = Append(copied[w], buffer[Len(copied[w])])]
      /\ copied \in [Workers -> Seq(Byte)]
      /\ UNCHANGED <<protocol, buffer, pc, move, todo, index_bit, value, before>>
  BY DEF Copy, setup, history, TypeInv, LocalInv
<1>2. CopyInv'
  BY <1>1 DEF SequentialInv, CopyInv
<1>3. ASSUME Alone(w) PROVE AloneAt(w)'
  <2>1. copied[w] \in Seq(Byte) /\ copied'[w] = Append(copied[w], buffer[Len(copied[w])])
    BY <1>1
  <2>2. \A i \in DOMAIN copied[w] : copied[w][i] = buffer[i - 1]
    BY <1>3 DEF SequentialInv, AloneInv, AloneAt
  <2>3. ASSUME NEW i \in DOMAIN copied'[w] PROVE copied'[w][i] = buffer[i - 1]
    <3>1. i \in 1 .. Len(copied[w]) + 1 /\ Len(copied[w]) \in Nat
      BY <2>1, <2>3
    <3>2. CASE i = Len(copied[w]) + 1
      BY <2>1, <3>1, <3>2
    <3>3. CASE i # Len(copied[w]) + 1
      <4>1. i \in DOMAIN copied[w] /\ copied'[w][i] = copied[w][i]
        BY <2>1, <3>1, <3>3
      <4> QED
        BY <2>2, <4>1
    <3> QED
      BY <3>2, <3>3
  <2> QED
    BY <1>1, <1>3, <2>3 DEF SequentialInv, AloneInv, AloneAt
<1>4. ASSUME Alone(w) PROVE ProgressAt(w)'
  <2>1. Encoded(w)' = Encoded(w)
    BY <1>1, EncodedStays
  <2>2. ProgressAt(w)
    BY <1>1, <1>4 DEF SequentialInv, AloneInv
  <2>3. Done(w)' = Done(w)
    BY <1>1, <2>1 DEF Done
  <2> QED
    BY <1>1, <2>1, <2>2, <2>3 DEF ProgressAt, Found
<1> QED
  BY <1>1, <1>2, <1>3, <1>4, InsideSequential

LEMMA ReturnSequential ==
    ASSUME TypeInv, SequentialInv, NEW w \in Workers, Return(w)
    PROVE  SequentialInv'
<1>1. /\ pc[w] = "write" /\ pc' = [pc EXCEPT ![w] = "idle"] /\ pc \in [Workers -> Stages]
      /\ copied' = [copied EXCEPT ![w] = <<>>] /\ copied \in [Workers -> Seq(Byte)]
      /\ before' = [before EXCEPT ![w] = <<>>]
      /\ UNCHANGED protocol
  BY DEF Return, Written, setup, TypeInv, LocalInv
<1>2. AfterIdInv' /\ CopyInv'
  BY <1>1 DEF SequentialInv, AfterIdInv, CopyInv
<1>3. ASSUME NEW u \in Workers, Alone(u)' PROVE FALSE
  BY <1>1, <1>3, OnlyOneAlone DEF SequentialInv, Alone
<1> QED
  BY <1>1, <1>2, <1>3 DEF SequentialInv, AloneInv

LEMMA StutterSequential ==
    ASSUME SequentialInv, UNCHANGED vars
    PROVE  SequentialInv'
<1> USE DEF vars, setup, local, history
<1>1. \A w \in Workers : Encoded(w)' = Encoded(w)
  BY EncodedStays
<1>2. \A w \in Workers : Done(w)' = Done(w)
  BY <1>1 DEF Done
<1> QED
  BY <1>1, <1>2 DEF SequentialInv, AfterIdInv, CopyInv, AloneInv, AloneAt, Alone,
     ProgressAt, Found

LEMMA StoreIdSequential ==
    ASSUME TypeInv, SequentialInv, NEW w \in Workers, StoreId(w)
    PROVE  SequentialInv'
<1>0. PICK E, len, id : E = Encoding(move[w]) /\ len = protocol.hid_report_length
                        /\ id = protocol.hid_report_id
  OBVIOUS
<1>1. /\ pc[w] = "id" /\ pc \in [Workers -> Stages]
      /\ todo \in [Workers -> Seq(GivenInsertions)] /\ index_bit \in [Workers -> Nat]
      /\ buffer' = IF id = 0 THEN buffer ELSE [buffer EXCEPT ![0] = IdBits(id)]
      /\ BeginInsertion(w, E)
      /\ UNCHANGED <<protocol, move, value, copied, before>>
  BY <1>0 DEF StoreId, setup, history, TypeInv, LocalInv
<1>2. /\ E \in Seq(Writes(move[w], 1) \cup Writes(move[w], 2) \cup Writes(move[w], 3))
      /\ Len(E) \in Nat /\ \A p \in 1 .. Len(E) : Fitting(E[p].attr)
  BY <1>0, EncodingFits, EncodingWrites DEF TypeInv
<1>3. /\ todo'[w] = E
      /\ \A v \in Workers : v # w => pc'[v] = pc[v]
      /\ E = <<>> => pc'[w] = "write"
      /\ E # <<>> => pc'[w] = "load" /\ index_bit'[w] = E[1].attr.offset
  BY <1>1, <1>2 DEF BeginInsertion
<1>4. Encoded(w)' = E
  BY <1>0, <1>1, EncodedStays DEF Encoded
<1>5. CopyInv'
  BY <1>1, <1>3 DEF SequentialInv, CopyInv
<1>6. ASSUME Alone(w) PROVE AloneAt(w)'
  <2>1. AloneAt(w) /\ copied[w] = <<>>
    BY <1>1, <1>6 DEF SequentialInv, AloneInv, CopyInv
  <2>2. pc'[w] \in {"load", "write"}
    BY <1>3
  <2>3. copied'[w] = <<>>
    BY <1>1, <2>1
  <2>4. \A v \in Workers : v # w => pc'[v] = "idle"
    BY <1>3, <2>1 DEF AloneAt
  <2> QED
    BY <1>1, <2>1, <2>2, <2>3, <2>4 DEF AloneAt
<1>7. ASSUME Alone(w) PROVE ProgressAt(w)'
  <2>1. Done(w)' = 0
    BY <1>2, <1>3, <1>4 DEF Done
  <2>2. /\ buffer = before[w] /\ buffer \in [0 .. len - 1 -> Byte]
        /\ len \in Nat /\ id \in 0..255
    BY <1>0, <1>1, <1>7 DEF SequentialInv, AloneInv, AloneAt, TypeInv, SetupInv
  <2>3. PICK j, buf, new : j = index_bit'[w] /\ buf = buffer /\ new = buffer'
    OBVIOUS
  <2>4. Len(E) > 0 => j = E[1].attr.offset
    BY <1>2, <1>3, <2>3
  <2>5. BitsDone(new, len, E, 0, j) /\ BitsKept(new, len, E, WithId(buf, id, len))
    <3>1. /\ buf \in [0 .. len - 1 -> Byte]
          /\ new = IF id = 0 THEN buf ELSE [buf EXCEPT ![0] = IdBits(id)]
      BY <1>1, <2>2, <2>3
    <3>2. Len(E) \in Nat /\ \A p \in 1 .. Len(E) : Fitting(E[p].attr)
      BY <1>2
    <3> QED
      BY <2>2, <2>4, <3>1, <3>2, FirstProgress
  <2>6. Found(w)' = WithId(buf, id, len)
    BY <1>0, <1>1, <2>2, <2>3 DEF Found
  <2>7. \A i \in 1 .. Len(todo'[w]) : todo'[w][i] = E[0 + i]
    BY <1>2, <1>3
  <2>8. pc'[w] = "write" => todo'[w] = <<>>
    BY <1>3
  <2> QED
    BY <1>0, <1>1, <1>4, <2>1, <2>3, <2>5, <2>6, <2>7, <2>8 DEF ProgressAt
<1> QED
  BY <1>1, <1>5, <1>6, <1>7, InsideSequential

LEMMA StoreSequential ==
    ASSUME TypeInv, SequentialInv, NEW w \in Workers, Store(w)
    PROVE  SequentialInv'
<1>0. PICK E, len, d, i, now, next :
        /\ E = Encoding(move[w]) /\ len = protocol.hid_report_length /\ d = Done(w)
        /\ i = index_bit[w] /\ now = Head(todo[w]) /\ next = i + BitCount(now.attr, i)
  OBVIOUS
<1>1. /\ pc[w] = "store" /\ pc \in [Workers -> Stages]
      /\ todo \in [Workers -> Seq(GivenInsertions)] /\ index_bit \in [Workers -> Nat]
      /\ UNCHANGED <<protocol, move, value, copied, before>>
  BY DEF Store, setup, history, TypeInv, LocalInv
<1>2. /\ todo[w] \in Seq(GivenInsertions) /\ todo[w] # <<>> /\ i \in Stops(now.attr)
      /\ now \in GivenInsertions /\ len \in Nat
  BY <1>0, <1>1 DEF TypeInv, LoopInv, SetupInv
<1>3. Fitting(now.attr) /\ i \div 8 \in 0 .. len - 1 /\ i \in Nat
  BY <1>0, <1>2, GivenFit, StopsInBuffer DEF TypeInv
<1>4. buffer \in [0 .. len - 1 -> Byte]
  BY <1>0, <1>1 DEF TypeInv, BufferInv, Off
<1>5. /\ \A v \in Workers : v # w => pc'[v] = pc[v]
      /\ pc'[w] \in {"load", "write"}
      /\ \/ next < EndBit(now.attr) /\ pc'[w] = "load" /\ index_bit'[w] = next /\ todo'[w] = todo[w]
         \/ /\ ~(next < EndBit(now.attr)) /\ todo'[w] = Tail(todo[w])
            /\ Tail(todo[w]) # <<>> =>
                 pc'[w] = "load" /\ index_bit'[w] = Head(Tail(todo[w])).attr.offset
  BY <1>0, <1>1 DEF Store, BeginInsertion
<1>6. Encoded(w)' = E
  BY <1>0, <1>1, EncodedStays DEF Encoded
<1>7. CopyInv'
  BY <1>1, <1>5 DEF SequentialInv, CopyInv
<1>8. ASSUME Alone(w)
      PROVE  /\ AloneAt(w) /\ ProgressAt(w) /\ copied[w] = <<>>
             /\ value[w] = buffer[i \div 8]
  BY <1>0, <1>1, <1>8 DEF SequentialInv, AloneInv, AloneAt, CopyInv
<1>9. ASSUME Alone(w) PROVE AloneAt(w)'
  <2>1. AloneAt(w) /\ copied'[w] = <<>>
    BY <1>1, <1>8, <1>9
  <2>2. \A v \in Workers : v # w => pc'[v] = "idle"
    BY <1>5, <2>1 DEF AloneAt
  <2> QED
    BY <1>1, <1>5, <2>1, <2>2 DEF AloneAt
<1>10. ASSUME Alone(w) PROVE ProgressAt(w)'
  <2>0. PICK buf, new, found : buf = buffer /\ new = buffer' /\ found = Found(w)
    OBVIOUS
  <2>1. /\ d \in Nat /\ Len(E) \in Nat /\ Len(todo[w]) = Len(E) - d
        /\ \A k \in 1 .. Len(todo[w]) : todo[w][k] = E[d + k]
        /\ BitsDone(buf, len, E, d, i) /\ BitsKept(buf, len, E, found)
    <3>1. Len(E) \in Nat /\ Len(todo[w]) \in Nat
      BY <1>0, <1>2, EncodingFits DEF TypeInv
    <3> QED
      <4>1. Encoded(w) = E /\ d = Len(E) - Len(todo[w])
        BY <1>0 DEF Done, Encoded
      <4>2. /\ d \in Nat
            /\ \A k \in 1 .. Len(todo[w]) : todo[w][k] = E[d + k]
            /\ BitsDone(buf, len, E, d, i) /\ BitsKept(buf, len, E, found)
        BY <1>0, <1>8, <1>10, <2>0, <4>1 DEF ProgressAt
      <4> QED
        <5>1. Len(todo[w]) = Len(E) - d
          <6>1. PICK le \in Nat, lt \in Nat : le = Len(E) /\ lt = Len(todo[w])
            BY <3>1
          <6> QED
            BY <4>1, <4>2, <6>1
        <5> QED
          BY <3>1, <4>2, <5>1
  <2>2. Len(todo[w]) \in Nat /\ Len(todo[w]) > 0 /\ d + 1 \in 1 .. Len(E)
    BY <1>2, <2>1
  <2>3. now = E[d + 1]
    BY <1>0, <1>2, <2>1, <2>2
  <2>4. new = WithBits(buf, E[d + 1].attr, E[d + 1].counts, i)
    BY <1>0, <1>8, <1>10, <2>0, <2>3 DEF Store, WithBits
  <2>5. \A p \in 1 .. Len(E) : Fitting(E[p].attr)
    BY <1>0, EncodingFits DEF TypeInv
  <2>6. i \in Stops(E[d + 1].attr) /\ next = i + BitCount(E[d + 1].attr, i)
    BY <1>0, <1>2, <2>3
  <2>7. buf \in [0 .. len - 1 -> Byte]
    BY <1>4, <2>0
  <2>8. /\ BitsDone(new, len, E, d, next)
        /\ BitsKept(new, len, E, found)
        /\ ~(next < EndBit(E[d + 1].attr)) => \A j :
             (d + 2 <= Len(E) => j = E[d + 2].attr.offset) => BitsDone(new, len, E, d + 1, j)
    <3>1. Len(E) \in Nat /\ d \in Nat /\ d + 1 \in 1 .. Len(E) /\ len \in Nat
          /\ i \div 8 \in 0 .. len - 1 /\ BitsDone(buf, len, E, d, i)
          /\ BitsKept(buf, len, E, found)
      BY <1>2, <1>3, <2>1, <2>2
    <3> QED
      BY ONLY <2>4, <2>5, <2>6, <2>7, <3>1, StoreProgress
  <2>9. Found(w)' = found
    BY <1>1, <2>0 DEF Found
  <2>10. CASE next < EndBit(now.attr)
    <3>1. todo'[w] = todo[w] /\ index_bit'[w] = next /\ pc'[w] = "load"
      BY <1>5, <2>10
    <3>2. Done(w)' = d
      BY <1>6, <2>1, <3>1 DEF Done
    <3> QED
      BY <1>0, <1>1, <1>6, <2>0, <2>1, <2>8, <2>9, <3>1, <3>2 DEF ProgressAt
  <2>11. CASE ~(next < EndBit(now.attr))
    <3>1. todo'[w] = Tail(todo[w])
      BY <1>5, <2>11
    <3>2. /\ Len(Tail(todo[w])) = Len(todo[w]) - 1
          /\ \A k \in 1 .. Len(todo[w]) - 1 : Tail(todo[w])[k] = todo[w][k + 1]
      BY <1>2
    <3>3. /\ Len(todo'[w]) = Len(E) - (d + 1)
          /\ \A k \in 1 .. Len(todo'[w]) : todo'[w][k] = E[d + 1 + k]
      <4>1. Len(todo'[w]) = Len(E) - (d + 1)
        BY <2>1, <2>2, <3>1, <3>2
      <4>2. ASSUME NEW k \in 1 .. Len(todo'[w])
            PROVE  todo'[w][k] = E[d + 1 + k]
        <5>1. k \in 1 .. Len(todo[w]) - 1 /\ k + 1 \in 1 .. Len(todo[w]) /\ k \in Nat
          BY <2>2, <3>1, <3>2, <4>2
        <5>2. todo'[w][k] = todo[w][k + 1]
          BY <3>1, <3>2, <5>1
        <5>3. todo[w][k + 1] = E[d + (k + 1)] /\ d + (k + 1) = d + 1 + k
          BY <2>1, <5>1
        <5> QED
          BY <5>2, <5>3
      <4> QED
        BY <4>1, <4>2
    <3>4. Done(w)' = d + 1
      BY <1>6, <2>1, <2>2, <3>3 DEF Done
    <3>5. pc'[w] = "write" => todo'[w] = <<>>
      BY <1>5, <2>11
    <3>6. PICK j : j = index_bit'[w]
      OBVIOUS
    <3>7. d + 2 <= Len(E) => j = E[d + 2].attr.offset
      <4>1. ASSUME d + 2 <= Len(E) PROVE j = E[d + 2].attr.offset
        <5>1. Len(todo[w]) > 1 /\ Tail(todo[w])[1] = E[d + 2] /\ Tail(todo[w]) # <<>>
          <6>1. Len(todo[w]) > 1 /\ todo[w][2] = E[d + 2]
            BY <2>1, <2>2, <4>1
          <6>2. Tail(todo[w])[1] = todo[w][2] /\ Len(Tail(todo[w])) > 0
            BY <2>2, <3>2, <6>1
          <6> QED
            <7>1. Tail(todo[w]) # <<>>
              BY <2>2, <3>2, <6>1
            <7> QED
              BY ONLY <6>1, <6>2, <7>1
        <5>2. Head(Tail(todo[w])) = E[d + 2]
          BY <5>1
        <5> QED
          BY <1>5, <2>11, <3>6, <5>1, <5>2
      <4> QED
        BY <4>1
    <3>8. BitsDone(new, len, E, d + 1, j)
      BY <2>3, <2>8, <2>11, <3>7
    <3> QED
      <4>1. d + 1 \in Nat /\ protocol'.hid_report_length = len
        BY <1>0, <1>1, <2>1
      <4> QED
        BY <1>6, <2>0, <2>8, <2>9, <3>3, <3>4, <3>5, <3>6, <3>8, <4>1 DEF ProgressAt
  <2> QED
    BY <2>10, <2>11
<1> QED
  BY <1>1, <1>7, <1>9, <1>10, InsideSequential

\* It is preserved by every step.
LEMMA SequentialStep ==
    ASSUME TypeInv, SequentialInv, [Next]_vars
    PROVE  SequentialInv'
<1>1. CASE UNCHANGED vars
  BY <1>1, StutterSequential
<1>2. CASE Next
  BY <1>2, InitProtocolSequential, InitThrowsSequential, SendSequential, StoreIdSequential,
     LoadSequential, StoreSequential, CopySequential, ReturnSequential DEF Next
<1> QED
  BY <1>1, <1>2

LEMMA SequentialHolds == Spec => [](TypeInv /\ SequentialInv)
<1>1. Init => SequentialInv
  BY InitSequential
<1>2. TypeInv /\ SequentialInv /\ [Next]_vars => SequentialInv'
  BY SequentialStep
<1> QED
  BY <1>1, <1>2, InvariantHolds, PTL DEF Spec

\* What is on the wire when write() returns is what is in the buffer.
LEMMA WireIsBuffer ==
    ASSUME TypeInv, SequentialInv, NEW w \in Workers, Written(w), Alone(w)
    PROVE  /\ protocol.hid_report_length \in Nat
           /\ \A n \in ReportBits(protocol.hid_report_length) :
                BitAt(wire(w), n) <=> BitAt(buffer, n)
<1>0. PICK len : len = protocol.hid_report_length
  OBVIOUS
<1>1. len \in Nat /\ copied[w] \in Seq(Byte) /\ Len(copied[w]) = len
  BY <1>0 DEF TypeInv, SetupInv, LocalInv, Written
<1>2. \A i \in DOMAIN copied[w] : copied[w][i] = buffer[i - 1]
  BY DEF SequentialInv, AloneInv, AloneAt
<1>3. \A k \in 0 .. len - 1 : wire(w)[k] = buffer[k]
  BY <1>1, <1>2 DEF wire
<1>4. \A n \in ReportBits(len) : n \div 8 \in 0 .. len - 1
  BY <1>1 DEF ReportBits
<1> QED
  BY <1>0, <1>1, <1>3, <1>4 DEF BitAt

\* A Send() that no other overlaps writes exactly the report that Encode() describes,
\* byte by byte as its loads, stores and copies are (proxy_mouse.cpp, report.cpp).
THEOREM SendAloneIsAtomic == Spec => []AloneIsSequential
<1>1. TypeInv /\ SequentialInv => AloneIsSequential
  <2> SUFFICES ASSUME TypeInv, SequentialInv, NEW w \in Workers, Written(w), Alone(w),
                      NEW n \in ReportBits(protocol.hid_report_length)
               PROVE  /\ \A p \in 1 .. Len(Encoded(w)) :
                           Decides(Encoded(w), p, n) =>
                             (BitAt(wire(w), n) <=> Bit(Encoded(w)[p].counts,
                                                        n - Encoded(w)[p].attr.offset))
                      /\ Untouched(Encoded(w), n) => (BitAt(wire(w), n) <=> n \in Found(w))
    BY DEF AloneIsSequential
  <2>1. BitAt(wire(w), n) <=> BitAt(buffer, n)
    BY WireIsBuffer
  <2>2. ProgressAt(w) /\ todo[w] = <<>>
    BY DEF SequentialInv, AloneInv, Written, ProgressAt
  <2>3. Len(Encoded(w)) \in Nat
    BY EncodingFits DEF Encoded, TypeInv
  <2>4. Done(w) = Len(Encoded(w))
    BY <2>2, <2>3 DEF Done
  <2> QED
    BY <2>1, <2>2, <2>3, <2>4 DEF ProgressAt, BitsDone, BitsKept
<1> QED
  BY <1>1, SequentialHolds, PTL

\* What an insertion that Encode() ignores leaves: the bits of a field that is refused,
\* and that no insertion writes, are on the wire as the report before left them, in
\* every Send() that no other overlaps (mouse.cpp:66-85).
THEOREM RefusedRepeats == Spec => []RefusedIsRepeated
<1>1. TypeInv /\ SequentialInv => RefusedIsRepeated
  <2> SUFFICES ASSUME TypeInv, SequentialInv, NEW w \in Workers, Written(w), Alone(w),
                      NEW i \in 1..3, NEW ins \in Insertions(move[w])[i],
                      FieldFits(protocol.hid_report_length, ins.attr),
                      \A j \in 1..3 : \A other \in Writes(move[w], j) :
                          BitsOf(other.attr) \cap BitsOf(ins.attr) = {},
                      NEW n \in BitsOf(ins.attr)
               PROVE  n % 8 \in wire(w)[n \div 8] <=> n % 8 \in before[w][n \div 8]
    BY DEF RefusedIsRepeated
  <2>0. PICK attr, len : attr = ins.attr /\ len = protocol.hid_report_length
    OBVIOUS
  <2>1. attr \in protocol.x \cup protocol.y \cup protocol.scroll
    BY <2>0 DEF Insertions
  <2>2. attr.offset \in Nat /\ attr.bit_sz \in Nat /\ len \in Nat
    BY <2>0, <2>1 DEF TypeInv, SetupInv, Attributes
  <2>3. n \in Nat /\ n \in ReportBits(len) /\ attr.offset <= n
    BY <2>0, <2>2 DEF BitsOf, EndBit, FieldFits, ReportBits
  <2>4. BitAt(wire(w), n) <=> BitAt(buffer, n)
    BY <2>0, <2>3, WireIsBuffer
  <2>5. Untouched(Encoded(w), n)
    <3> SUFFICES ASSUME NEW p \in 1 .. Len(Encoding(move[w]))
                 PROVE  n \notin BitsOf(Encoding(move[w])[p].attr)
      BY DEF Untouched, Encoded
    <3>1. PICK j \in 1..3 : Encoding(move[w])[p] \in Writes(move[w], j)
      BY EncodingFits DEF TypeInv
    <3> QED
      BY <3>1
  <2>6. ProgressAt(w)
    BY DEF SequentialInv, AloneInv, Written
  <2>7. BitAt(buffer, n) <=> n \in Found(w)
    BY <2>0, <2>3, <2>5, <2>6 DEF ProgressAt, BitsKept
  <2>8. protocol.hid_report_id # 0 => ~(n < 8)
    <3>1. protocol.hid_report_id # 0 => attr.offset >= 8
      BY <2>1 DEF SequentialInv, AfterIdInv
    <3> QED
      BY <2>2, <2>3, <3>1
  <2>9. n \in Found(w) <=> BitAt(before[w], n)
    BY <2>0, <2>3, <2>8 DEF Found, WithId
  <2> QED
    BY <2>4, <2>7, <2>9, Zenon DEF BitAt
<1> QED
  BY <1>1, SequentialHolds, PTL

-------------------------------------------------------------------------------
(* Induction, and the powers of two.                                       *)

\* Induction over the natural numbers, for a set instead of a predicate.
LEMMA SetInduction ==
    ASSUME NEW S, 0 \in S, \A n \in Nat : n \in S => n + 1 \in S
    PROVE  Nat \subseteq S
<1> DEFINE T == Nat \ S
<1> DEFINE R == OpToRel(<, Nat)
<1>1. SUFFICES ASSUME T # {} PROVE FALSE
  BY Zenon
<1>2. IsWellFoundedOn(R, Nat)
  BY NatLessThanWellFounded, Zenon
<1>3. \A x, y \in Nat : x < y => <<x, y>> \in R
  BY Zenon DEF OpToRel
<1> HIDE DEF R
<1>4. PICK x \in T : \A y \in T : ~ (<<y, x>> \in R)
  <2>1. T \subseteq Nat
    OBVIOUS
  <2> HIDE DEF T
  <2> QED
    BY <1>1, <1>2, <2>1, WFMin
<1>5. x \in Nat /\ x # 0
  OBVIOUS
<1>6. x - 1 \in Nat /\ x - 1 < x /\ (x - 1) + 1 = x
  BY <1>5
<1>7. x - 1 \notin T
  BY <1>3, <1>4, <1>5, <1>6
<1> QED
  BY <1>5, <1>6, <1>7

\* g is defined step by step up to N.
Steps(g, N, D, base, step) ==
    /\ g \in [0..N -> D]
    /\ \A n \in 0..N : g[n] = IF n = 0 THEN base ELSE step[n][g[n - 1]]

\* Step after step there is such a function.
LEMMA StepsExist ==
    ASSUME NEW N \in Nat, NEW D, NEW base \in D, NEW step,
           \A n \in 1..N : \A a \in D : step[n][a] \in D
    PROVE  \E g : Steps(g, N, D, base, step)
<1> DEFINE S == {m \in Nat : m <= N => \E g : Steps(g, m, D, base, step)}
<1>1. 0 \in S
  <2> DEFINE g == [n \in 0..0 |-> base]
  <2>1. g \in [0..0 -> D] /\ \A n \in 0..0 : n = 0 /\ g[n] = base
    OBVIOUS
  <2> HIDE DEF g
  <2>2. Steps(g, 0, D, base, step)
    BY <2>1 DEF Steps
  <2> QED
    BY <2>2
<1>2. ASSUME NEW m \in Nat, m \in S PROVE m + 1 \in S
  <2> SUFFICES ASSUME m + 1 <= N PROVE \E g : Steps(g, m + 1, D, base, step)
    OBVIOUS
  <2>1. PICK g : Steps(g, m, D, base, step)
    BY <1>2
  <2> DEFINE h == [n \in 0 .. m + 1 |-> IF n = 0 THEN base ELSE step[n][g[n - 1]]]
  <2>2. \A n \in 0 .. m + 1 : n # 0 => n - 1 \in 0..m /\ n \in 1..N
    OBVIOUS
  <2>3. h \in [0 .. m + 1 -> D]
    BY <2>1, <2>2 DEF Steps
  <2>4. \A n \in 0..m : h[n] = g[n]
    BY <2>1 DEF Steps
  <2>5. \A n \in 0 .. m + 1 : h[n] = IF n = 0 THEN base ELSE step[n][h[n - 1]]
    BY <2>2, <2>4
  <2> HIDE DEF h
  <2>6. Steps(h, m + 1, D, base, step)
    BY <2>3, <2>5 DEF Steps
  <2> QED
    BY <2>6
<1> HIDE DEF S
<1>3. Nat \subseteq S
  BY <1>1, <1>2, SetInduction
<1>4. N \in S
  BY <1>3
<1> QED
  BY <1>4 DEF S

\* 2^n, as far as the provers are told: so many subsets has a set of n elements.
LEMMA PowersOfTwo ==
    /\ 2^0 = 1
    /\ \A n \in Nat : 2^n \in Nat /\ 2^n > 0 /\ 2^(n + 1) = 2 * 2^n
<1>0. 2^0 = 1
  BY SMT
<1>1. \A n \in Nat : /\ IsFiniteSet(1..n) /\ Cardinality(1..n) = n
                     /\ IsFiniteSet(SUBSET (1..n)) /\ Cardinality(SUBSET (1..n)) = 2^n
                     /\ Cardinality(SUBSET (1..n)) \in Nat
  <2> SUFFICES ASSUME NEW n \in Nat
               PROVE  /\ IsFiniteSet(1..n) /\ Cardinality(1..n) = n
                      /\ IsFiniteSet(SUBSET (1..n)) /\ Cardinality(SUBSET (1..n)) = 2^n
                      /\ Cardinality(SUBSET (1..n)) \in Nat
    OBVIOUS
  <2>1. IsFiniteSet(1..n) /\ Cardinality(1..n) = n
    BY FS_Interval
  <2>2. IsFiniteSet(SUBSET (1..n)) /\ Cardinality(SUBSET (1..n)) = 2^Cardinality(1..n)
    BY <2>1, FS_SUBSET
  <2> QED
    BY <2>1, <2>2, FS_CardinalityType
<1>2. \A n \in Nat : 2^n \in Nat
  BY <1>1
<1>3. ASSUME NEW n \in Nat PROVE 2^(n + 1) = 2 * 2^n
  <2> DEFINE A == SUBSET (1..n)
             B == {s \in SUBSET (1 .. n + 1) : n + 1 \in s}
             f == [s \in A |-> s \cup {n + 1}]
  <2>1. f \in Bijection(A, B)
    <3>1. f \in [A -> B]
      OBVIOUS
    <3>2. \A s, t \in A : f[s] = f[t] => s = t
      <4> SUFFICES ASSUME NEW s \in A, NEW t \in A, s \cup {n + 1} = t \cup {n + 1}
                   PROVE  s = t
        OBVIOUS
      <4>1. n + 1 \notin s /\ n + 1 \notin t
        OBVIOUS
      <4> QED
        BY <4>1
    <3>3. \A b \in B : \E s \in A : f[s] = b
      <4> SUFFICES ASSUME NEW b \in B PROVE \E s \in A : f[s] = b
        OBVIOUS
      <4>1. b \ {n + 1} \in A
        <5> SUFFICES ASSUME NEW x \in b, x # n + 1 PROVE x \in 1..n
          OBVIOUS
        <5> QED
          OBVIOUS
      <4>2. f[b \ {n + 1}] = b
        BY <4>1
      <4> QED
        BY <4>1, <4>2
    <3> QED
      BY <3>1, <3>2, <3>3, Zenon DEF Bijection, Injection, Surjection, IsInjective
  <2>2. IsFiniteSet(B) /\ Cardinality(B) = Cardinality(A)
    <3> HIDE DEF A, B, f
    <3>1. ExistsBijection(A, B)
      BY <2>1 DEF ExistsBijection
    <3> QED
      BY <1>1, <3>1, FS_Bijection DEF A
  <2>3. SUBSET (1 .. n + 1) = A \cup B /\ A \cap B = {}
    <3>1. A \cap B = {}
      OBVIOUS
    <3>2. ASSUME NEW s \in SUBSET (1 .. n + 1), n + 1 \notin s PROVE s \in A
      <4> SUFFICES ASSUME NEW x \in s PROVE x \in 1..n
        OBVIOUS
      <4> QED
        BY <3>2
    <3>3. A \subseteq SUBSET (1 .. n + 1)
      <4> SUFFICES ASSUME NEW s \in A, NEW x \in s PROVE x \in 1 .. n + 1
        OBVIOUS
      <4> QED
        OBVIOUS
    <3> QED
      BY <3>1, <3>2, <3>3
  <2>4. Cardinality(A \cup B) = Cardinality(A) + Cardinality(B) - Cardinality(A \cap B)
    <3>1. IsFiniteSet(A)
      BY <1>1
    <3> HIDE DEF A, B
    <3> QED
      BY <2>2, <3>1, FS_Union
  <2>5. Cardinality(A \cap B) = 0
    BY <2>3, FS_EmptySet
  <2>6. Cardinality(A) = 2^n /\ 2^n \in Nat /\ Cardinality(SUBSET (1 .. n + 1)) = 2^(n + 1)
    <3>1. n + 1 \in Nat
      OBVIOUS
    <3> QED
      BY <1>1, <1>2, <3>1
  <2> HIDE DEF A, B
  <2>7. PICK a, b : a \in Nat /\ a = 2^n /\ b = 2^(n + 1)
    BY <2>6
  <2>8. Cardinality(A \cup B) = b /\ Cardinality(A) = a /\ Cardinality(B) = a
    BY <2>2, <2>3, <2>6, <2>7
  <2>9. b = a + a - 0
    BY <2>4, <2>5, <2>8
  <2> QED
    BY <2>7, <2>9
<1>4. \A n \in Nat : 2^n > 0
  <2> DEFINE S == {n \in Nat : 2^n > 0}
  <2>1. 0 \in S
    BY <1>0
  <2>2. \A n \in Nat : n \in S => n + 1 \in S
    BY <1>2, <1>3
  <2> HIDE DEF S
  <2>3. Nat \subseteq S
    BY <2>1, <2>2, SetInduction
  <2> QED
    BY <2>3 DEF S
<1> QED
  BY <1>0, <1>2, <1>3, <1>4

-------------------------------------------------------------------------------
(* The bits of a number, and what is left of a number of them.             *)

\* One bit more of a number.
LEMMA OneBitMore ==
    ASSUME NEW c \in Int, NEW p \in Nat, p > 0
    PROVE  /\ c % p \in 0 .. p - 1
           /\ (c \div p) % 2 \in 0..1
           /\ c % (2 * p) = (c % p) + (IF (c \div p) % 2 = 1 THEN p ELSE 0)
<1>1. PICK q \in Int, r \in 0 .. p - 1 : q = c \div p /\ r = c % p /\ c = q * p + r
  OBVIOUS
<1>2. PICK h \in Int, t \in 0..1 : h = q \div 2 /\ t = q % 2 /\ q = 2 * h + t
  OBVIOUS
<1>3. c = h * (2 * p) + (t * p + r)
  <2>1. c = (2 * h + t) * p + r
    BY ONLY <1>1, <1>2
  <2>2. (2 * h + t) * p = h * (2 * p) + t * p
    OBVIOUS
  <2> QED
    BY <2>1, <2>2
<1>4. t * p + r \in 0 .. 2 * p - 1 /\ t * p = IF t = 1 THEN p ELSE 0
  <2>1. t = 0 \/ t = 1
    OBVIOUS
  <2> QED
    BY <2>1
<1>5. PICK d \in Nat, s \in Nat : d = 2 * p /\ s = t * p + r
  BY <1>4
<1>6. c = h * d + s /\ s \in 0 .. d - 1
  BY <1>3, <1>4, <1>5
<1>7. c % d = s
  BY ONLY <1>6, h \in Int, d \in Nat, s \in Nat
<1> QED
  BY <1>1, <1>2, <1>4, <1>5, <1>7

\* The values of the bits of s below n, added up one after the other.
Adds(g, s, N) ==
    /\ g \in [0..N -> Nat]
    /\ g[0] = 0
    /\ \A n \in 1..N : g[n] = g[n - 1] + (IF n - 1 \in s THEN 2^(n - 1) ELSE 0)

\* There is such a sum,
LEMMA AddsExists ==
    ASSUME NEW N \in Nat, NEW s
    PROVE  \E g : Adds(g, s, N)
<1> DEFINE step == [n \in 1..N |-> [a \in Nat |-> a + (IF n - 1 \in s THEN 2^(n - 1) ELSE 0)]]
<1>1. \A n \in 1..N : n - 1 \in Nat /\ 2^(n - 1) \in Nat
  BY PowersOfTwo
<1>2. \A n \in 1..N : \A a \in Nat :
         /\ step[n][a] = a + (IF n - 1 \in s THEN 2^(n - 1) ELSE 0)
         /\ step[n][a] \in Nat
  BY <1>1
<1> HIDE DEF step
<1>3. PICK g : Steps(g, N, Nat, 0, step)
  <2>1. 0 \in Nat
    OBVIOUS
  <2> QED
    BY <1>2, <2>1, StepsExist
<1>4. \A n \in 1..N : n \in 0..N /\ n # 0 /\ n - 1 \in 0..N
  OBVIOUS
<1>5. 0 \in 0..N
  OBVIOUS
<1>6. g \in [0..N -> Nat] /\ g[0] = 0
  BY <1>3, <1>5 DEF Steps
<1>7. \A n \in 1..N : g[n] = step[n][g[n - 1]] /\ g[n - 1] \in Nat
  BY <1>3, <1>4, <1>6 DEF Steps
<1>8. Adds(g, s, N)
  BY <1>2, <1>6, <1>7 DEF Adds
<1> QED
  BY <1>8

\* Without one of the bits it is that bit's value less.
LEMMA AddsWithout ==
    ASSUME NEW N \in Nat, NEW s, NEW x \in s, x \in 0 .. N - 1,
           NEW g, Adds(g, s, N), NEW h, Adds(h, s \ {x}, N)
    PROVE  g[N] = h[N] + 2^x
<1> DEFINE S == {n \in Nat : n <= N => g[n] = h[n] + (IF x < n THEN 2^x ELSE 0)}
<1>1. x \in Nat /\ x < N /\ 2^x \in Nat
  BY PowersOfTwo
<1>2. 0 \in S
  BY <1>1 DEF Adds
<1>3. ASSUME NEW n \in Nat, n \in S PROVE n + 1 \in S
  <2> SUFFICES ASSUME n + 1 <= N PROVE g[n + 1] = h[n + 1] + (IF x < n + 1 THEN 2^x ELSE 0)
    OBVIOUS
  <2>0. n + 1 \in 1..N /\ n \in 0..N /\ (n + 1) - 1 = n /\ 2^n \in Nat
    BY PowersOfTwo
  <2>1. g[n] = h[n] + (IF x < n THEN 2^x ELSE 0) /\ g[n] \in Nat /\ h[n] \in Nat
    BY <1>3, <2>0 DEF Adds
  <2>2. g[n + 1] = g[n] + (IF n \in s THEN 2^n ELSE 0)
    BY <2>0 DEF Adds
  <2>3. h[n + 1] = h[n] + (IF n \in s \ {x} THEN 2^n ELSE 0)
    BY <2>0 DEF Adds
  <2>4. CASE n = x
    <3>1. g[n + 1] = g[n] + 2^n /\ h[n + 1] = h[n]
      BY <2>2, <2>3, <2>1, <2>4
    <3> QED
      BY <1>1, <2>1, <2>4, <3>1
  <2>5. CASE n # x
    <3>1. n \in s \ {x} <=> n \in s
      BY <2>5
    <3>2. x < n + 1 <=> x < n
      BY <1>1, <2>5
    <3>3. PICK add, low : /\ add = IF n \in s THEN 2^n ELSE 0
                          /\ low = IF x < n THEN 2^x ELSE 0
      OBVIOUS
    <3>4. /\ g[n + 1] = g[n] + add /\ h[n + 1] = h[n] + add /\ g[n] = h[n] + low
          /\ add \in Nat /\ low \in Nat /\ low = IF x < n + 1 THEN 2^x ELSE 0
      BY <1>1, <2>0, <2>1, <2>2, <2>3, <3>1, <3>2, <3>3
    <3>5. g[n + 1] = h[n + 1] + low
      BY ONLY <2>1, <3>4
    <3> QED
      BY <3>4, <3>5
  <2> QED
    BY <2>4, <2>5
<1> HIDE DEF S
<1>4. Nat \subseteq S
  BY <1>2, <1>3, SetInduction
<1>5. N \in S
  BY <1>4
<1> QED
  BY <1>1, <1>5 DEF S

\* The set may be summed in any order.
LEMMA SumAdds ==
    ASSUME NEW N \in Nat, NEW S \in SUBSET (0 .. N - 1), NEW g, Adds(g, S, N)
    PROVE  MapThenSumSet(LAMBDA b : 2^b, S) = g[N]
<1> DEFINE G(s) == CHOOSE k : Adds(k, s, N)
<1> DEFINE W == [s \in SUBSET S |-> G(s)[N]]
<1>1. \A s : Adds(G(s), s, N)
  BY AddsExists
<1> HIDE DEF G
<1>2. \A s \in SUBSET S : W[s] \in Nat
  BY <1>1 DEF Adds
<1>3. \A s \in SUBSET S : \A x \in s :
         s \ {x} \in SUBSET S /\ W[s] = W[s \ {x}] + 2^x /\ 2^x \in Nat /\ 2^x > 0
  <2> SUFFICES ASSUME NEW s \in SUBSET S, NEW x \in s
               PROVE  s \ {x} \in SUBSET S /\ W[s] = W[s \ {x}] + 2^x /\ 2^x \in Nat /\ 2^x > 0
    OBVIOUS
  <2>1. x \in 0 .. N - 1 /\ x \in Nat
    OBVIOUS
  <2>2. G(s)[N] = G(s \ {x})[N] + 2^x
    BY <1>1, <2>1, AddsWithout
  <2> QED
    BY <2>1, <2>2, PowersOfTwo
<1>4. \A k, l, s : Adds(k, s, N) /\ Adds(l, s, N) => k[N] = l[N]
  <2> SUFFICES ASSUME NEW k, NEW l, NEW s, Adds(k, s, N), Adds(l, s, N)
               PROVE  k[N] = l[N]
    OBVIOUS
  <2> DEFINE Z == {n \in Nat : n <= N => k[n] = l[n]}
  <2>1. 0 \in Z
    BY DEF Adds
  <2>2. ASSUME NEW n \in Nat, n \in Z PROVE n + 1 \in Z
    <3> SUFFICES ASSUME n + 1 <= N PROVE k[n + 1] = l[n + 1]
      OBVIOUS
    <3>1. n + 1 \in 1..N /\ (n + 1) - 1 = n
      OBVIOUS
    <3> QED
      BY <2>2, <3>1 DEF Adds
  <2> HIDE DEF Z
  <2>3. Nat \subseteq Z
    BY <2>1, <2>2, SetInduction
  <2>4. N \in Z
    BY <2>3
  <2> QED
    BY <2>4 DEF Z
<1>5. W[{}] = 0
  <2> DEFINE zero == [n \in 0..N |-> 0]
  <2>1. Adds(zero, {}, N)
    BY DEF Adds
  <2>2. zero[N] = 0
    OBVIOUS
  <2> HIDE DEF zero
  <2> QED
    BY <1>1, <1>4, <2>1, <2>2
<1>11. W[S] = g[N]
  BY <1>1, <1>4
<1> HIDE DEF W
<1> DEFINE F(it) == it = [s \in SUBSET S |->
                            IF s = {} THEN 0
                            ELSE 2^(CHOOSE x \in s : TRUE) + it[s \ {CHOOSE x \in s : TRUE}]]
<1>6. F(W)
  <2>1. \A s \in SUBSET S : s # {} =>
           W[s] = 2^(CHOOSE x \in s : TRUE) + W[s \ {CHOOSE x \in s : TRUE}]
    <3> SUFFICES ASSUME NEW s \in SUBSET S, s # {}
                 PROVE  W[s] = 2^(CHOOSE x \in s : TRUE) + W[s \ {CHOOSE x \in s : TRUE}]
      OBVIOUS
    <3>1. PICK x \in s : x = CHOOSE y \in s : TRUE
      OBVIOUS
    <3>2. W[s] = W[s \ {x}] + 2^x /\ W[s \ {x}] \in Nat /\ 2^x \in Nat
      BY <1>2, <1>3
    <3> QED
      BY <3>1, <3>2
  <2>2. W = [s \in SUBSET S |-> W[s]]
    BY DEF W
  <2> QED
    BY <1>5, <2>1, <2>2
<1>7. PICK it : it = CHOOSE kt : F(kt)
  OBVIOUS
<1>8. F(it)
  <2> HIDE DEF F
  <2>1. \E kt : F(kt)
    BY <1>6
  <2> QED
    BY <1>7, <2>1, Zenon
<1>9. MapThenSumSet(LAMBDA b : 2^b, S) = it[S]
  BY <1>7, Zenon DEF MapThenSumSet, MapThenFoldSet
<1>10. \A s \in SUBSET S : it[s] = W[s]
  <2> DEFINE Upto(n) == \A s \in SUBSET S : W[s] <= n => it[s] = W[s]
  <2> DEFINE Z == {n \in Nat : Upto(n)}
  <2>1. \A s \in SUBSET S : s = {} => it[s] = W[s]
    BY <1>5, <1>8
  <2>2. ASSUME NEW s \in SUBSET S, s # {} PROVE W[s] > 0
    <3>1. PICK x \in s : TRUE
      BY <2>2
    <3>2. W[s] = W[s \ {x}] + 2^x /\ W[s \ {x}] \in Nat /\ 2^x \in Nat /\ 2^x > 0
      BY <1>2, <1>3
    <3> QED
      BY <3>2
  <2>3. 0 \in Z
    <3>1. ASSUME NEW s \in SUBSET S, W[s] <= 0 PROVE s = {}
      <4>1. W[s] \in Nat
        BY <1>2
      <4>2. s # {} => W[s] > 0
        BY <2>2
      <4> QED
        BY <3>1, <4>1, <4>2
    <3> QED
      BY <2>1, <3>1
  <2>4. ASSUME NEW n \in Nat, n \in Z PROVE n + 1 \in Z
    <3> SUFFICES Upto(n + 1)
      <4> HIDE DEF Upto
      <4> QED
        OBVIOUS
    <3> SUFFICES ASSUME NEW s \in SUBSET S, W[s] <= n + 1 PROVE it[s] = W[s]
      OBVIOUS
    <3> SUFFICES ASSUME s # {} PROVE it[s] = W[s]
      BY <2>1
    <3>1. PICK x \in s : x = CHOOSE y \in s : TRUE
      OBVIOUS
    <3>2. /\ s \ {x} \in SUBSET S /\ W[s] = W[s \ {x}] + 2^x /\ 2^x \in Nat /\ 2^x > 0
          /\ W[s \ {x}] \in Nat
      BY <1>2, <1>3
    <3>3. W[s \ {x}] <= n
      BY <1>2, <3>2
    <3>4. it[s \ {x}] = W[s \ {x}]
      BY <2>4, <3>2, <3>3
    <3>5. it[s] = 2^x + it[s \ {x}]
      BY <1>8, <3>1
    <3> QED
      BY <3>2, <3>4, <3>5
  <2> HIDE DEF Z
  <2>5. Nat \subseteq Z
    BY <2>3, <2>4, SetInduction
  <2> SUFFICES ASSUME NEW s \in SUBSET S PROVE it[s] = W[s]
    OBVIOUS
  <2>6. W[s] \in Z
    BY <1>2, <2>5
  <2> QED
    BY <1>2, <2>6 DEF Z
<1> QED
  BY <1>9, <1>10, <1>11

\* The bits of a number below the N-th are what is left of it.
LEMMA BitsMakeNumber ==
    ASSUME NEW N \in Nat, NEW c \in Int, NEW S \in SUBSET (0 .. N - 1),
           \A b \in 0 .. N - 1 : b \in S <=> Bit(c, b)
    PROVE  MapThenSumSet(LAMBDA b : 2^b, S) = c % 2^N
<1>1. PICK g : Adds(g, S, N)
  BY AddsExists
<1> DEFINE Z == {n \in Nat : n <= N => g[n] = c % 2^n}
<1>2. 0 \in Z
  <2>1. c % 1 = 0
    OBVIOUS
  <2> QED
    BY <1>1, <2>1, PowersOfTwo DEF Adds
<1>3. ASSUME NEW n \in Nat, n \in Z PROVE n + 1 \in Z
  <2> SUFFICES ASSUME n + 1 <= N PROVE g[n + 1] = c % 2^(n + 1)
    OBVIOUS
  <2>1. n + 1 \in 1..N /\ (n + 1) - 1 = n /\ n \in 0 .. N - 1
    OBVIOUS
  <2>2. g[n + 1] = g[n] + (IF n \in S THEN 2^n ELSE 0)
    BY <1>1, <2>1 DEF Adds
  <2>3. n \in S <=> (c \div 2^n) % 2 = 1
    BY <2>1 DEF Bit
  <2>4. PICK p \in Nat : p = 2^n /\ p > 0 /\ 2^(n + 1) = 2 * p
    BY PowersOfTwo
  <2>5. c % (2 * p) = (c % p) + (IF (c \div p) % 2 = 1 THEN p ELSE 0)
    BY <2>4, OneBitMore
  <2>6. g[n] = c % p
    BY <1>3, <2>1, <2>4
  <2> QED
    BY <2>2, <2>3, <2>4, <2>5, <2>6
<1> HIDE DEF Z
<1>4. Nat \subseteq Z
  BY <1>2, <1>3, SetInduction
<1>5. N \in Z
  BY <1>4
<1>6. g[N] = c % 2^N
  BY <1>5 DEF Z
<1> QED
  BY <1>1, <1>6, SumAdds

\* A number with room for it is what its lowest bits say,
LEMMA UnsignedIsLeft ==
    ASSUME NEW n \in Nat, NEW c \in 0 .. 2^n - 1
    PROVE  c % 2^n = c
<1>1. PICK p \in Nat : p = 2^n /\ p > 0
  BY PowersOfTwo
<1>2. c \in 0 .. p - 1
  BY <1>1
<1>3. c % p = c
  BY ONLY <1>1, <1>2
<1> QED
  BY <1>1, <1>3

\* and with the highest of them for the sign.
LEMMA SignedIsLeft ==
    ASSUME NEW n \in Nat, n > 0, NEW c \in -(2^(n - 1)) .. 2^(n - 1) - 1
    PROVE  SignExtendFromNBits(c % 2^n, n) = c
<1>1. PICK p \in Nat : p = 2^(n - 1) /\ p > 0 /\ 2^n = 2 * p
  <2>1. n - 1 \in Nat /\ (n - 1) + 1 = n
    OBVIOUS
  <2> QED
    BY <2>1, PowersOfTwo
<1>2. c \in -p .. p - 1 /\ c \in Int
  BY <1>1
<1>3. CASE c >= 0
  <2>1. c % (2 * p) = c
    BY ONLY <1>1, <1>2, <1>3
  <2>2. c \div p = 0
    BY ONLY <1>1, <1>2, <1>3
  <2>3. ~Bit(c, n - 1)
    BY <1>1, <2>2 DEF Bit
  <2> QED
    BY <1>1, <2>1, <2>3 DEF SignExtendFromNBits
<1>4. CASE c < 0
  <2>1. PICK e \in Int : e = c + 2 * p
    BY <1>2
  <2>2. e \in p .. 2 * p - 1 /\ e - 2 * p = c
    BY ONLY <1>1, <1>2, <1>4, <2>1
  <2>3. c % (2 * p) = e
    <3>1. PICK d \in Nat : d = 2 * p /\ d > 0
      BY <1>1
    <3>2. c = (-1) * d + e /\ e \in 0 .. d - 1
      BY ONLY <1>1, <1>2, <2>1, <2>2, <3>1
    <3>3. c % d = e
      BY ONLY <3>1, <3>2, <2>1, <1>2
    <3> QED
      BY <3>1, <3>3
  <2>4. e \div p = 1
    <3>1. e = 1 * p + (e - p) /\ e - p \in 0 .. p - 1
      BY ONLY <1>1, <2>1, <2>2
    <3> QED
      BY ONLY <1>1, <2>1, <3>1
  <2>5. Bit(e, n - 1)
    BY <1>1, <2>4 DEF Bit
  <2> QED
    BY <1>1, <2>2, <2>3, <2>5 DEF SignExtendFromNBits
<1> QED
  BY <1>2, <1>3, <1>4

-------------------------------------------------------------------------------
(* Factors and their inverses.                                             *)

Positive == Nat \ {0}

\* A factor, and its inverse.
IsRatio(q, r) ==
    \E a, b \in Positive : q = <<a, b>> /\ r = <<b, a>>

\* Products of positive numbers are positive,
LEMMA Products ==
    ASSUME NEW a \in Positive, NEW b \in Positive
    PROVE  a * b \in Positive
  BY DEF Positive

\* and products of factors have the products of their inverses for inverses.
LEMMA RatioScaled ==
    ASSUME NEW q, NEW r, IsRatio(q, r), NEW f, NEW g, IsRatio(f, g)
    PROVE  IsRatio(Scale(q, f), Scale(r, g))
<1>1. PICK a \in Positive, b \in Positive : q = <<a, b>> /\ r = <<b, a>>
  BY DEF IsRatio
<1>2. PICK c \in Positive, d \in Positive : f = <<c, d>> /\ g = <<d, c>>
  BY DEF IsRatio
<1>3. Scale(q, f) = <<a * c, b * d>> /\ Scale(r, g) = <<b * d, a * c>>
  BY <1>1, <1>2 DEF Scale
<1>4. a * c \in Positive /\ b * d \in Positive
  BY Products
<1> QED
  BY <1>3, <1>4 DEF IsRatio

\* The loop of Power().
Multiplied(q, times) ==
    LET product[n \in 0..times] == IF n = 0 THEN <<1, 1>> ELSE Scale(product[n - 1], q)
    IN  product[times]

\* The loop's rounds, one after the other,
LEMMA MultipliedUnfolds ==
    ASSUME NEW a \in Positive, NEW b \in Positive, NEW N \in Nat
    PROVE  \E g : /\ Multiplied(<<a, b>>, N) = g[N]
                  /\ g[0] = <<1, 1>>
                  /\ \A n \in 1..N : g[n] = Scale(g[n - 1], <<a, b>>)
<1>0. PICK q : q = <<a, b>>
  OBVIOUS
<1> DEFINE D == Positive \X Positive
<1> DEFINE step == [n \in 1..N |-> [p \in D |-> Scale(p, q)]]
<1>1. \A n \in 1..N : \A p \in D : step[n][p] = Scale(p, q) /\ Scale(p, q) \in D
  <2> SUFFICES ASSUME NEW p \in D PROVE Scale(p, q) \in D
    OBVIOUS
  <2>1. PICK c \in Positive, d \in Positive : p = <<c, d>>
    OBVIOUS
  <2>2. Scale(p, q) = <<c * a, d * b>>
    BY <1>0, <2>1 DEF Scale
  <2> QED
    BY <2>2, Products
<1>2. <<1, 1>> \in D
  BY DEF Positive
<1> HIDE DEF step, D
<1>3. PICK g : Steps(g, N, D, <<1, 1>>, step)
  <2>1. \A n \in 1..N : \A p \in D : step[n][p] \in D
    BY <1>1
  <2>2. PICK base : base = <<1, 1>>
    OBVIOUS
  <2>3. \E g : Steps(g, N, D, base, step)
    BY <1>2, <2>1, <2>2, StepsExist
  <2> QED
    BY <2>2, <2>3
<1> DEFINE F(h) == h = [n \in 0..N |-> IF n = 0 THEN <<1, 1>> ELSE Scale(h[n - 1], q)]
<1>4. F(g)
  <2>1. g \in [0..N -> D]
    BY <1>3 DEF Steps
  <2>2. ASSUME NEW n \in 0..N PROVE g[n] = IF n = 0 THEN <<1, 1>> ELSE Scale(g[n - 1], q)
    <3>1. CASE n = 0
      BY <1>3, <2>2, <3>1 DEF Steps
    <3>2. CASE n # 0
      <4>1. n \in 1..N /\ n - 1 \in 0..N
        BY <3>2
      <4>2. g[n - 1] \in D
        BY <2>1, <4>1
      <4>3. g[n] = step[n][g[n - 1]]
        BY <1>3, <3>2 DEF Steps
      <4> QED
        BY <1>1, <3>2, <4>1, <4>2, <4>3
    <3> QED
      BY <3>1, <3>2
  <2> QED
    BY <2>1, <2>2
<1>5. PICK h : h = CHOOSE k : F(k)
  OBVIOUS
<1>6. F(h)
  <2> HIDE DEF F
  <2>1. \E k : F(k)
    BY <1>4
  <2> QED
    BY <1>5, <2>1, Zenon
<1>7. Multiplied(q, N) = h[N]
  BY <1>5, Zenon DEF Multiplied
<1>8. \A n \in 0..N : h[n] = IF n = 0 THEN <<1, 1>> ELSE Scale(h[n - 1], q)
  BY <1>6
<1>9. h[0] = <<1, 1>> /\ \A n \in 1..N : h[n] = Scale(h[n - 1], q)
  <2>1. 0 \in 0..N /\ \A n \in 1..N : n \in 0..N /\ n # 0
    OBVIOUS
  <2> QED
    BY <1>8, <2>1
<1> QED
  BY <1>0, <1>7, <1>9

\* multiply the factor's inverse to the inverse.
LEMMA MultipliedInverts ==
    ASSUME NEW a \in Positive, NEW b \in Positive, NEW N \in Nat
    PROVE  IsRatio(Multiplied(<<a, b>>, N), Multiplied(<<b, a>>, N))
<1>1. PICK g : /\ Multiplied(<<a, b>>, N) = g[N]
               /\ g[0] = <<1, 1>>
               /\ \A n \in 1..N : g[n] = Scale(g[n - 1], <<a, b>>)
  BY MultipliedUnfolds
<1>2. PICK h : /\ Multiplied(<<b, a>>, N) = h[N]
               /\ h[0] = <<1, 1>>
               /\ \A n \in 1..N : h[n] = Scale(h[n - 1], <<b, a>>)
  BY MultipliedUnfolds
<1> DEFINE S == {n \in Nat : n <= N => IsRatio(g[n], h[n])}
<1>3. 0 \in S
  <2>1. 1 \in Positive
    BY DEF Positive
  <2> QED
    BY <1>1, <1>2, <2>1 DEF IsRatio
<1>4. ASSUME NEW n \in Nat, n \in S PROVE n + 1 \in S
  <2> SUFFICES ASSUME n + 1 <= N PROVE IsRatio(g[n + 1], h[n + 1])
    OBVIOUS
  <2>1. n + 1 \in 1..N /\ (n + 1) - 1 = n /\ IsRatio(g[n], h[n])
    BY <1>4
  <2>2. g[n + 1] = Scale(g[n], <<a, b>>) /\ h[n + 1] = Scale(h[n], <<b, a>>)
    BY <1>1, <1>2, <2>1
  <2>3. IsRatio(<<a, b>>, <<b, a>>)
    BY DEF IsRatio
  <2> QED
    BY <2>1, <2>2, <2>3, RatioScaled
<1> HIDE DEF S
<1>5. Nat \subseteq S
  BY <1>3, <1>4, SetInduction
<1>6. N \in S
  BY <1>5
<1>7. IsRatio(g[N], h[N])
  BY <1>6 DEF S
<1> QED
  BY <1>1, <1>2, <1>7

\* The power of the inverse, and the one with the opposite exponent.
LEMMA PowerInverts ==
    ASSUME NEW a \in Positive, NEW b \in Positive, NEW e \in Int
    PROVE  /\ IsRatio(Power(<<a, b>>, e), Power(<<b, a>>, e))
           /\ IsRatio(Power(<<a, b>>, e), Power(<<a, b>>, -e))
           /\ Power(<<a, b>>, 0) = <<1, 1>>
<1>1. \A q : e >= 0 => Power(q, e) = Multiplied(q, e)
  BY DEF Power, Multiplied
<1>2. \A c, d : ~(e >= 0) => Power(<<c, d>>, e) = Multiplied(<<d, c>>, -e)
  BY DEF Power, Multiplied
<1>3. \A q : -e >= 0 => Power(q, -e) = Multiplied(q, -e)
  BY DEF Power, Multiplied
<1>4. \A c, d : ~(-e >= 0) => Power(<<c, d>>, -e) = Multiplied(<<d, c>>, -(-e))
  BY DEF Power, Multiplied
<1>5. \A c, d \in Positive : Multiplied(<<c, d>>, 0) = <<1, 1>>
  BY MultipliedUnfolds
<1>6. Power(<<a, b>>, 0) = <<1, 1>>
  <2>1. Power(<<a, b>>, 0) = Multiplied(<<a, b>>, 0)
    BY DEF Power, Multiplied
  <2> QED
    BY <1>5, <2>1
<1>7. CASE e > 0
  <2>1. -(-e) = e /\ e \in Nat /\ e >= 0 /\ ~(-e >= 0)
    BY <1>7
  <2>2. IsRatio(Multiplied(<<a, b>>, e), Multiplied(<<b, a>>, e))
    BY <2>1, MultipliedInverts
  <2> QED
    BY <1>1, <1>4, <1>6, <2>1, <2>2
<1>8. CASE e = 0
  <2>1. Power(<<a, b>>, e) = <<1, 1>> /\ Power(<<b, a>>, e) = <<1, 1>>
        /\ Power(<<a, b>>, -e) = <<1, 1>>
    <3>1. e >= 0
      BY <1>8
    <3>2. -e = e
      <4>1. PICK z \in Int : z = -e
        OBVIOUS
      <4>2. z + e = 0
        BY <4>1
      <4>3. z = e
        BY <1>8, <4>2
      <4> QED
        BY <4>1, <4>3
    <3> QED
      BY <1>6, <1>8, <3>1, <3>2
  <2>2. IsRatio(<<1, 1>>, <<1, 1>>)
    BY DEF IsRatio, Positive
  <2> QED
    BY <1>6, <2>1, <2>2
<1>9. CASE e < 0
  <2>1. -e \in Nat /\ -e >= 0 /\ ~(e >= 0)
    BY <1>9
  <2>2. IsRatio(Multiplied(<<b, a>>, -e), Multiplied(<<a, b>>, -e))
    BY <2>1, MultipliedInverts
  <2> QED
    BY <1>2, <1>3, <1>6, <2>1, <2>2
<1> QED
  BY <1>7, <1>8, <1>9

-------------------------------------------------------------------------------
(* Every conversion between two units is inverted by the opposite one.     *)

Values == Int \X Positive

\* A factor makes a value of a value, never the answer of a conversion that fails;
LEMMA ScaledValue ==
    ASSUME NEW val \in Values, NEW q, NEW r, IsRatio(q, r)
    PROVE  Scale(val, q) \in Values /\ Scale(val, q) # Impossible
<1>1. PICK n \in Int, d \in Positive : val = <<n, d>>
  BY DEF Values
<1>2. PICK a \in Positive, b \in Positive : q = <<a, b>>
  BY DEF IsRatio
<1>3. Scale(val, q) = <<n * a, d * b>>
  BY <1>1, <1>2 DEF Scale
<1>4. n * a \in Int /\ d * b \in Positive /\ d * b # 0
  BY Products DEF Positive
<1> QED
  BY <1>3, <1>4 DEF Values, Impossible

\* the factor one leaves it as it is,
LEMMA ScaleOnce ==
    ASSUME NEW val \in Values
    PROVE  Scale(val, <<1, 1>>) = val
  BY DEF Values, Scale, Positive

\* and two factors are one.
LEMMA ScaleTwice ==
    ASSUME NEW val \in Values, NEW q, NEW r, IsRatio(q, r), NEW f, NEW g, IsRatio(f, g)
    PROVE  Scale(Scale(val, q), f) = Scale(val, Scale(q, f))
<1>1. PICK n \in Int, m \in Int : val = <<n, m>>
  BY DEF Values, Positive
<1>2. PICK a \in Int, b \in Int : q = <<a, b>>
  BY DEF IsRatio, Positive
<1>3. PICK c \in Int, d \in Int : f = <<c, d>>
  BY DEF IsRatio, Positive
<1>4. (n * a) * c = n * (a * c) /\ (m * b) * d = m * (b * d)
  OBVIOUS
<1> QED
  BY <1>1, <1>2, <1>3, <1>4 DEF Scale

\* One is its own inverse.
LEMMA OneIsRatio == IsRatio(<<1, 1>>, <<1, 1>>)
  BY DEF IsRatio, Positive

\* The systems between which lengths are converted, there and back.
LEMMA LengthFactors ==
    ASSUME NEW s, NEW t
    PROVE  /\ <<s, t>> \in DOMAIN LengthFactor <=>
                <<s, t>> \in {<<"si_linear", "eng_linear">>, <<"eng_linear", "si_linear">>,
                              <<"eng_rotation", "si_rotation">>, <<"si_rotation", "eng_rotation">>}
           /\ <<s, t>> \in DOMAIN LengthFactor =>
                /\ <<t, s>> \in DOMAIN LengthFactor
                /\ s # t
                /\ \E a, b \in Positive : /\ LengthFactor[<<s, t>>] = <<a, b>>
                                          /\ LengthFactor[<<t, s>>] = <<b, a>>
<1> DEFINE P1 == <<"si_linear", "eng_linear">>
           P2 == <<"eng_linear", "si_linear">>
           P3 == <<"eng_rotation", "si_rotation">>
           P4 == <<"si_rotation", "eng_rotation">>
<1>1. P1 # P2 /\ P1 # P3 /\ P1 # P4 /\ P2 # P3 /\ P2 # P4 /\ P3 # P4
  OBVIOUS
<1>2. /\ DOMAIN LengthFactor = {P1, P2, P3, P4}
      /\ LengthFactor[P1] = <<100, 254>> /\ LengthFactor[P2] = <<254, 100>>
      /\ LengthFactor[P3] = <<71, 4068>> /\ LengthFactor[P4] = <<4068, 71>>
  BY DEF LengthFactor
<1>3. {100, 254, 71, 4068} \subseteq Positive
  BY DEF Positive
<1> SUFFICES ASSUME <<s, t>> \in {P1, P2, P3, P4}
             PROVE  /\ <<t, s>> \in {P1, P2, P3, P4}
                    /\ s # t
                    /\ \E a, b \in Positive : /\ LengthFactor[<<s, t>>] = <<a, b>>
                                              /\ LengthFactor[<<t, s>>] = <<b, a>>
  BY <1>2
<1>4. CASE <<s, t>> = P1
  <2>1. <<t, s>> = P2 /\ s # t
    BY <1>4
  <2> QED
    BY <1>2, <1>3, <1>4, <2>1
<1>5. CASE <<s, t>> = P2
  <2>1. <<t, s>> = P1 /\ s # t
    BY <1>5
  <2> QED
    BY <1>2, <1>3, <1>5, <2>1
<1>6. CASE <<s, t>> = P3
  <2>1. <<t, s>> = P4 /\ s # t
    BY <1>6
  <2> QED
    BY <1>2, <1>3, <1>6, <2>1
<1>7. CASE <<s, t>> = P4
  <2>1. <<t, s>> = P3 /\ s # t
    BY <1>7
  <2> QED
    BY <1>2, <1>3, <1>7, <2>1
<1> QED
  BY <1>4, <1>5, <1>6, <1>7

\* What a conversion does with a value, and what the opposite one does: nothing is
\* converted, or the one multiplies with the inverse of what the other does.
Opposite(there, back) ==
    \/ \A val \in Values : there[val] = Impossible /\ back[val] = Impossible
    \/ \E q, r : /\ IsRatio(q, r)
                 /\ \A val \in Values : there[val] = Scale(val, q) /\ back[val] = Scale(val, r)

\* Values that are left as they are in both directions.
LEMMA Unchanged ==
    ASSUME NEW there, NEW back, \A val \in Values : there[val] = val /\ back[val] = val
    PROVE  Opposite(there, back)
<1>1. \A val \in Values : there[val] = Scale(val, <<1, 1>>) /\ back[val] = Scale(val, <<1, 1>>)
  BY ScaleOnce
<1> QED
  BY <1>1, OneIsRatio DEF Opposite

\* The sign of a nibble is extended.
LEMMA ExponentsAreIntegers ==
    ASSUME NEW u \in Unit, NEW n \in Nibbles
    PROVE  Exponent(u, n) \in Int /\ (Exponent(u, n) = 0 <=> u.type[n] = 0)
<1>1. u.type[n] \in 0..15
  BY DEF Unit
<1> QED
  BY <1>1 DEF Exponent

\* Lengths are multiplied by the inverse of what they are multiplied by on the way back,
LEMMA DistanceInverts ==
    ASSUME NEW u \in Unit, NEW v \in Unit, u.type["length"] = v.type["length"]
    PROVE  Opposite([val \in Values |-> ConvertDistance(val, u, v)],
                    [val \in Values |-> ConvertDistance(val, v, u)])
<1>0. PICK e, s, t : /\ e \in Int
                     /\ e = Exponent(u, "length") /\ e = Exponent(v, "length")
                     /\ s = GetSystem(u) /\ t = GetSystem(v)
  <2>1. "length" \in Nibbles
    BY DEF Nibbles
  <2>2. Exponent(u, "length") \in Int
    BY <2>1, ExponentsAreIntegers
  <2> QED
    BY <2>2 DEF Exponent
<1> DEFINE there == [val \in Values |-> ConvertDistance(val, u, v)]
           back == [val \in Values |-> ConvertDistance(val, v, u)]
<1>1. \A val \in Values : /\ there[val] = ConvertDistance(val, u, v)
                         /\ back[val] = ConvertDistance(val, v, u)
  OBVIOUS
<1> HIDE DEF there, back
<1>2. CASE e = 0 \/ s = t
  <2>1. \A val : <<s, t>> \in DOMAIN LengthFactor => s # t
    BY LengthFactors
  <2>2. \A val : <<t, s>> \in DOMAIN LengthFactor => s # t
    BY LengthFactors
  <2>3. \A val \in Values : ConvertDistance(val, u, v) = val /\ ConvertDistance(val, v, u) = val
    BY <1>0, <1>2, <2>1, <2>2 DEF ConvertDistance
  <2> QED
    BY <1>1, <2>3, Unchanged DEF there, back
<1>3. CASE e # 0 /\ s # t /\ <<s, t>> \in DOMAIN LengthFactor
  <2>1. PICK a \in Positive, b \in Positive :
           /\ <<t, s>> \in DOMAIN LengthFactor
           /\ LengthFactor[<<s, t>>] = <<a, b>> /\ LengthFactor[<<t, s>>] = <<b, a>>
    <3>1. /\ <<t, s>> \in DOMAIN LengthFactor
          /\ \E a, b \in Positive : /\ LengthFactor[<<s, t>>] = <<a, b>>
                                    /\ LengthFactor[<<t, s>>] = <<b, a>>
      <4>1. <<s, t>> \in DOMAIN LengthFactor
        BY <1>3
      <4> QED
        BY <4>1, LengthFactors, Zenon
    <3> QED
      BY <3>1
  <2>2. PICK q, r : q = Power(<<a, b>>, e) /\ r = Power(<<b, a>>, e) /\ IsRatio(q, r)
    BY <1>0, PowerInverts
  <2>3. \A val \in Values : ConvertDistance(val, u, v) = Scale(val, q)
    BY <1>0, <1>3, <2>1, <2>2 DEF ConvertDistance
  <2>4. \A val \in Values : ConvertDistance(val, v, u) = Scale(val, r)
    BY <1>0, <1>3, <2>1, <2>2 DEF ConvertDistance
  <2> QED
    BY <1>1, <2>2, <2>3, <2>4 DEF Opposite, there, back
<1>4. CASE e # 0 /\ s # t /\ <<s, t>> \notin DOMAIN LengthFactor
  <2>1. <<t, s>> \notin DOMAIN LengthFactor
    BY <1>4, LengthFactors
  <2>2. \A val \in Values : /\ ConvertDistance(val, u, v) = Impossible
                            /\ ConvertDistance(val, v, u) = Impossible
    BY <1>0, <1>4, <2>1 DEF ConvertDistance
  <2> QED
    BY <1>1, <2>2 DEF Opposite, there, back
<1> QED
  BY <1>2, <1>3, <1>4

\* and so are masses.
LEMMA MassInverts ==
    ASSUME NEW u \in Unit, NEW v \in Unit, u.type["mass"] = v.type["mass"]
    PROVE  Opposite([val \in Values |-> ConvertMass(val, u, v)],
                    [val \in Values |-> ConvertMass(val, v, u)])
<1>0. PICK e, s, t : /\ e \in Int
                     /\ e = Exponent(u, "mass") /\ e = Exponent(v, "mass")
                     /\ s = GetSystem(u) /\ t = GetSystem(v)
  <2>1. "mass" \in Nibbles
    BY DEF Nibbles
  <2>2. Exponent(u, "mass") \in Int
    BY <2>1, ExponentsAreIntegers
  <2> QED
    BY <2>2 DEF Exponent
<1> DEFINE there == [val \in Values |-> ConvertMass(val, u, v)]
           back == [val \in Values |-> ConvertMass(val, v, u)]
<1>1. \A val \in Values : /\ there[val] = ConvertMass(val, u, v)
                         /\ back[val] = ConvertMass(val, v, u)
  OBVIOUS
<1> HIDE DEF there, back
<1>2. Si \cap Eng = {}
  BY DEF Si, Eng
<1>3. CASE e = 0 \/ s = t
  <2>1. \A val \in Values : ConvertMass(val, u, v) = val /\ ConvertMass(val, v, u) = val
    BY <1>0, <1>2, <1>3 DEF ConvertMass
  <2> QED
    BY <1>1, <2>1, Unchanged DEF there, back
<1>4. PICK q, r : q = Power(<<10, 145939>>, e) /\ r = Power(<<145939, 10>>, e) /\ IsRatio(q, r)
                  /\ IsRatio(r, q)
  <2>1. 10 \in Positive /\ 145939 \in Positive
    BY DEF Positive
  <2> QED
    BY <1>0, <2>1, PowerInverts
<1>5. CASE e # 0 /\ s # t /\ s \in Si /\ t \in Eng
  <2>1. \A val \in Values : /\ ConvertMass(val, u, v) = Scale(val, q)
                            /\ ConvertMass(val, v, u) = Scale(val, r)
    BY <1>0, <1>2, <1>4, <1>5 DEF ConvertMass
  <2> QED
    BY <1>1, <1>4, <2>1 DEF Opposite, there, back
<1>6. CASE e # 0 /\ s # t /\ s \in Eng /\ t \in Si
  <2>1. \A val \in Values : /\ ConvertMass(val, u, v) = Scale(val, r)
                            /\ ConvertMass(val, v, u) = Scale(val, q)
    BY <1>0, <1>2, <1>4, <1>6 DEF ConvertMass
  <2> QED
    BY <1>1, <1>4, <2>1 DEF Opposite, there, back
<1>7. CASE e # 0 /\ s # t /\ ~(s \in Si /\ t \in Eng) /\ ~(s \in Eng /\ t \in Si)
  <2>1. \A val \in Values : /\ ConvertMass(val, u, v) = Impossible
                            /\ ConvertMass(val, v, u) = Impossible
    BY <1>0, <1>7 DEF ConvertMass
  <2> QED
    BY <1>1, <2>1 DEF Opposite, there, back
<1> QED
  BY <1>3, <1>5, <1>6, <1>7

\* Nothing that the program converts has a temperature.
LEMMA NoTemperature ==
    ASSUME NEW u \in Unit, NEW v, u.type["temperature"] = 0, NEW val
    PROVE  ConvertTemperature(val, u, v) = val
<1>1. "temperature" \in Nibbles
  BY DEF Nibbles
<1>2. Exponent(u, "temperature") = 0
  BY <1>1, ExponentsAreIntegers
<1> QED
  BY <1>2 DEF ConvertTemperature

\* What can be converted can be converted back,
LEMMA CanConvertSymmetric ==
    ASSUME NEW u, NEW v, CanConvertUnits(u, v)
    PROVE  CanConvertUnits(v, u)
<1>0. PICK s, t : s = GetSystem(u) /\ t = GetSystem(v)
  OBVIOUS
<1>1. SameButSystem(u, v) => SameButSystem(v, u)
  BY DEF SameButSystem
<1>2. <<s, t>> \in DOMAIN LengthFactor => <<t, s>> \in DOMAIN LengthFactor
  BY LengthFactors, Zenon
<1>3. CASE u.type["length"] # 0 \/ v.type["length"] # 0
  <2>1. CASE s = t
    <3>1. u.type = v.type
      BY <1>0, <1>3, <2>1 DEF CanConvertUnits
    <3> QED
      BY <1>0, <1>3, <2>1, <3>1 DEF CanConvertUnits
  <2>2. CASE s # t
    <3>1. <<s, t>> \in DOMAIN LengthFactor /\ SameButSystem(u, v)
      BY <1>0, <1>3, <2>2 DEF CanConvertUnits
    <3> QED
      BY <1>0, <1>1, <1>2, <1>3, <2>2, <3>1 DEF CanConvertUnits
  <2> QED
    BY <2>1, <2>2
<1>4. CASE ~(u.type["length"] # 0 \/ v.type["length"] # 0)
  BY <1>1, <1>4 DEF CanConvertUnits
<1> QED
  BY <1>3, <1>4

\* and differs in the system at most.
LEMMA ConvertibleUnits ==
    ASSUME NEW u, NEW v, CanConvertUnits(u, v)
    PROVE  u.type = v.type \/ SameButSystem(u, v)
<1>1. CASE u.type["length"] # 0 \/ v.type["length"] # 0
  BY <1>1 DEF CanConvertUnits
<1>2. CASE ~(u.type["length"] # 0 \/ v.type["length"] # 0)
  BY <1>2 DEF CanConvertUnits
<1> QED
  BY <1>1, <1>2

\* Whatever is converted is converted back by the opposite conversion.
LEMMA ConvertInverts ==
    ASSUME NEW u \in Unit, NEW v \in Unit,
           u.type["temperature"] = 0, v.type["temperature"] = 0
    PROVE  Opposite([val \in Values |-> ConvertUnits(u, val, v)],
                    [val \in Values |-> ConvertUnits(v, val, u)])
<1> DEFINE there == [val \in Values |-> ConvertUnits(u, val, v)]
           back == [val \in Values |-> ConvertUnits(v, val, u)]
<1>0. \A val \in Values : /\ there[val] = ConvertUnits(u, val, v)
                         /\ back[val] = ConvertUnits(v, val, u)
  OBVIOUS
<1> HIDE DEF there, back
<1>1. PICK p, o : /\ p = Power(<<10, 1>>, u.exp - v.exp) /\ o = Power(<<10, 1>>, v.exp - u.exp)
                  /\ IsRatio(p, o)
  <2>1. u.exp \in Int /\ v.exp \in Int
    BY DEF Unit
  <2>2. PICK e \in Int : e = u.exp - v.exp /\ -e = v.exp - u.exp
    BY <2>1
  <2>3. 10 \in Positive /\ 1 \in Positive
    BY DEF Positive
  <2>4. IsRatio(Power(<<10, 1>>, e), Power(<<10, 1>>, -e))
    BY <2>3, PowerInverts
  <2> QED
    BY <2>2, <2>4
<1>2. CASE ~CanConvertUnits(u, v)
  <2>1. ~CanConvertUnits(v, u) /\ u.type # v.type
    <3>1. u.type = v.type => CanConvertUnits(u, v)
      BY DEF CanConvertUnits, GetSystem, SameButSystem
    <3> QED
      BY <1>2, <3>1, CanConvertSymmetric
  <2>2. \A val : ConvertUnits(u, val, v) = Impossible /\ ConvertUnits(v, val, u) = Impossible
    BY <1>2, <2>1 DEF ConvertUnits
  <2> QED
    BY <1>0, <2>2 DEF Opposite, there, back
<1>3. CASE CanConvertUnits(u, v) /\ u.type = v.type
  <2>1. CanConvertUnits(v, u)
    BY <1>3, CanConvertSymmetric
  <2>2. \A val \in Values : Scale(val, p) # Impossible /\ Scale(val, o) # Impossible
    <3>1. IsRatio(o, p)
      BY <1>1 DEF IsRatio
    <3> QED
      BY <1>1, <3>1, ScaledValue
  <2>3. GetSystem(u) = GetSystem(v)
    BY <1>3 DEF GetSystem
  <2>4. \A val : ConvertDistance(val, u, v) = val /\ ConvertDistance(val, v, u) = val
    <3>1. \A s : <<s, s>> \notin DOMAIN LengthFactor
      BY LengthFactors
    <3> QED
      BY <2>3, <3>1 DEF ConvertDistance
  <2>5. \A val : ConvertMass(val, u, v) = val /\ ConvertMass(val, v, u) = val
    <3>1. Si \cap Eng = {}
      BY DEF Si, Eng
    <3> QED
      BY <2>3, <3>1 DEF ConvertMass
  <2>6. \A val \in Values : /\ ConvertUnits(u, val, v) = Scale(val, p)
                            /\ ConvertUnits(v, val, u) = Scale(val, o)
    BY <1>1, <1>3, <2>1, <2>2, <2>4, <2>5 DEF ConvertUnits
  <2> QED
    BY <1>0, <1>1, <2>6 DEF Opposite, there, back
<1>4. CASE CanConvertUnits(u, v) /\ u.type # v.type
  <2>1. CanConvertUnits(v, u) /\ SameButSystem(u, v)
    BY <1>4, CanConvertSymmetric, ConvertibleUnits
  <2>2. u.type["length"] = v.type["length"] /\ u.type["mass"] = v.type["mass"]
    BY <2>1 DEF SameButSystem, Nibbles
  <2>3. IsRatio(o, p)
    BY <1>1 DEF IsRatio
  <2> DEFINE dthere == [val \in Values |-> ConvertDistance(val, u, v)]
             dback == [val \in Values |-> ConvertDistance(val, v, u)]
             mthere == [val \in Values |-> ConvertMass(val, u, v)]
             mback == [val \in Values |-> ConvertMass(val, v, u)]
  <2>4. Opposite(dthere, dback) /\ Opposite(mthere, mback)
    BY <2>2, DistanceInverts, MassInverts
  <2>5. \A val \in Values : /\ dthere[val] = ConvertDistance(val, u, v)
                            /\ dback[val] = ConvertDistance(val, v, u)
                            /\ mthere[val] = ConvertMass(val, u, v)
                            /\ mback[val] = ConvertMass(val, v, u)
    OBVIOUS
  <2>6. \A val \in Values : Scale(val, p) \in Values /\ Scale(val, o) \in Values
    BY <1>1, <2>3, ScaledValue
  <2> HIDE DEF dthere, dback, mthere, mback
  <2>7. CASE \A val \in Values : dthere[val] = Impossible /\ dback[val] = Impossible
    <3>1. \A val \in Values : /\ ConvertUnits(u, val, v) = Impossible
                              /\ ConvertUnits(v, val, u) = Impossible
      <4> SUFFICES ASSUME NEW val \in Values
                   PROVE  /\ ConvertUnits(u, val, v) = Impossible
                          /\ ConvertUnits(v, val, u) = Impossible
        OBVIOUS
      <4>1. /\ ConvertDistance(Scale(val, p), u, v) = Impossible
            /\ ConvertDistance(Scale(val, o), v, u) = Impossible
        BY <2>5, <2>6, <2>7
      <4> QED
        BY <1>1, <1>4, <2>1, <4>1 DEF ConvertUnits
    <3> QED
      BY <1>0, <3>1 DEF Opposite, there, back
  <2>8. ASSUME NEW q, NEW r, IsRatio(q, r),
               \A val \in Values : dthere[val] = Scale(val, q) /\ dback[val] = Scale(val, r)
        PROVE  Opposite(there, back)
    <3>0. IsRatio(r, q)
      BY <2>8 DEF IsRatio
    <3>1. \A val \in Values : /\ ConvertDistance(Scale(val, p), u, v) = Scale(Scale(val, p), q)
                              /\ ConvertDistance(Scale(val, o), v, u) = Scale(Scale(val, o), r)
                              /\ Scale(Scale(val, p), q) # Impossible
                              /\ Scale(Scale(val, o), r) # Impossible
                              /\ Scale(Scale(val, p), q) \in Values
                              /\ Scale(Scale(val, o), r) \in Values
      BY <2>5, <2>6, <2>8, <3>0, ScaledValue
    <3>2. CASE \A val \in Values : mthere[val] = Impossible /\ mback[val] = Impossible
      <4>1. \A val \in Values : /\ ConvertUnits(u, val, v) = Impossible
                                /\ ConvertUnits(v, val, u) = Impossible
        <5> SUFFICES ASSUME NEW val \in Values
                     PROVE  /\ ConvertUnits(u, val, v) = Impossible
                            /\ ConvertUnits(v, val, u) = Impossible
          OBVIOUS
        <5>1. /\ ConvertMass(Scale(Scale(val, p), q), u, v) = Impossible
              /\ ConvertMass(Scale(Scale(val, o), r), v, u) = Impossible
          BY <2>5, <3>1, <3>2
        <5> QED
          BY <1>1, <1>4, <2>1, <3>1, <5>1 DEF ConvertUnits
      <4> QED
        BY <1>0, <4>1 DEF Opposite, there, back
    <3>3. ASSUME NEW f, NEW g, IsRatio(f, g),
                 \A val \in Values : mthere[val] = Scale(val, f) /\ mback[val] = Scale(val, g)
          PROVE  Opposite(there, back)
      <4>0. IsRatio(g, f)
        BY <3>3 DEF IsRatio
      <4>1. PICK x, y : x = Scale(Scale(p, q), f) /\ y = Scale(Scale(o, r), g)
        OBVIOUS
      <4>2. IsRatio(x, y) /\ IsRatio(Scale(p, q), Scale(o, r)) /\ IsRatio(Scale(o, r), Scale(p, q))
        <5>1. IsRatio(Scale(p, q), Scale(o, r))
          BY <1>1, <2>8, RatioScaled
        <5>2. IsRatio(x, y)
          BY <3>3, <4>1, <5>1, RatioScaled
        <5> QED
          BY <5>1, <5>2 DEF IsRatio
      <4>3. \A val \in Values : /\ ConvertUnits(u, val, v) = Scale(val, x)
                                /\ ConvertUnits(v, val, u) = Scale(val, y)
        <5> SUFFICES ASSUME NEW val \in Values
                     PROVE  /\ ConvertUnits(u, val, v) = Scale(val, x)
                            /\ ConvertUnits(v, val, u) = Scale(val, y)
          OBVIOUS
        <5>1. PICK d1, d2, m1, m2 :
                 /\ d1 \in Values /\ d2 \in Values
                 /\ d1 = Scale(Scale(val, p), q) /\ d1 = ConvertDistance(Scale(val, p), u, v)
                 /\ d2 = Scale(Scale(val, o), r) /\ d2 = ConvertDistance(Scale(val, o), v, u)
                 /\ d1 # Impossible /\ d2 # Impossible
                 /\ m1 = ConvertMass(d1, u, v) /\ m2 = ConvertMass(d2, v, u)
          BY <3>1
        <5>2. m1 = Scale(d1, f) /\ m2 = Scale(d2, g)
          BY <2>5, <3>3, <5>1
        <5>3. m1 # Impossible /\ m2 # Impossible
          BY <5>1, <3>3, <4>0, <5>2, ScaledValue
        <5>4. ConvertTemperature(m1, u, v) = m1 /\ ConvertTemperature(m2, v, u) = m2
          BY NoTemperature
        <5>5. ConvertUnits(u, val, v) = m1 /\ ConvertUnits(v, val, u) = m2
          BY <1>1, <1>4, <2>1, <5>1, <5>3, <5>4 DEF ConvertUnits
        <5>6. d1 = Scale(val, Scale(p, q)) /\ d2 = Scale(val, Scale(o, r))
          BY <1>1, <2>3, <2>8, <3>0, <5>1, ScaleTwice
        <5>7. m1 = Scale(val, x) /\ m2 = Scale(val, y)
          BY <3>3, <4>0, <4>1, <4>2, <5>2, <5>6, ScaleTwice
        <5> QED
          BY <5>5, <5>7
      <4> QED
        BY <1>0, <4>2, <4>3 DEF Opposite, there, back
    <3> QED
      BY <2>4, <3>2, <3>3 DEF Opposite
  <2>9. Opposite(there, back)
    <3>1. CASE \E q, r : /\ IsRatio(q, r)
                         /\ \A val \in Values : /\ dthere[val] = Scale(val, q)
                                                /\ dback[val] = Scale(val, r)
      BY <2>8, <3>1
    <3>2. \/ \A val \in Values : dthere[val] = Impossible /\ dback[val] = Impossible
          \/ \E q, r : /\ IsRatio(q, r)
                       /\ \A val \in Values : /\ dthere[val] = Scale(val, q)
                                              /\ dback[val] = Scale(val, r)
      BY <2>4 DEF Opposite
    <3> QED
      BY <2>7, <3>1, <3>2, Zenon DEF there, back
  <2> QED
    BY <2>9 DEF there, back
<1> QED
  BY <1>2, <1>3, <1>4 DEF there, back

-------------------------------------------------------------------------------
(* The table of units, there and back.                                     *)

\* What the units of the table have in common: a dimension, which is no temperature.
HasDimension(u) ==
    u \in Unit /\ u.type["temperature"] = 0 /\ \E n \in Nibbles \ {"system"} : u.type[n] # 0

\* A unit that is made with an exponent that is not zero has one.
LEMMA MadeUnit ==
    ASSUME NEW system \in 0..15,
           NEW exponents, \A n \in DOMAIN exponents : exponents[n] \in Int,
           NEW exp \in Int, "temperature" \notin DOMAIN exponents,
           NEW n \in Nibbles \ {"system"}, n \in DOMAIN exponents, exponents[n] % 16 # 0
    PROVE  HasDimension(MakeUnit(system, exponents, exp))
<1> DEFINE type == [m \in Nibbles |-> CASE m = "system" -> system
                                        [] m \in DOMAIN exponents -> exponents[m] % 16
                                        [] OTHER -> 0]
<1>1. MakeUnit(system, exponents, exp) = [type |-> type, exp |-> exp]
  BY DEF MakeUnit
<1>2. \A m \in DOMAIN exponents : exponents[m] % 16 \in 0..15
  OBVIOUS
<1>3. ASSUME NEW m \in Nibbles PROVE type[m] \in 0..15
  <2>1. CASE m = "system"
    BY <2>1
  <2>2. CASE m # "system" /\ m \in DOMAIN exponents
    BY <1>2, <2>2
  <2>3. CASE m # "system" /\ m \notin DOMAIN exponents
    BY <2>3
  <2> QED
    BY <2>1, <2>2, <2>3
<1>4. type \in [Nibbles -> 0..15]
  BY <1>3
<1>5. type["temperature"] = 0
  BY DEF Nibbles
<1>6. type[n] # 0
  <2>1. type[n] = exponents[n] % 16
    OBVIOUS
  <2> QED
    BY <2>1
<1> HIDE DEF type
<1> QED
  BY <1>1, <1>4, <1>5, <1>6 DEF HasDimension, Unit

\* defined_units.
LEMMA UnitsTable ==
    /\ DOMAIN DefinedUnits = 1..10
    /\ \A i \in 1..10 : /\ HasDimension(DefinedUnits[i].unit)
                        /\ DefinedUnits[i].type \notin {"None", "Other"}
    /\ \A i, j \in 1..10 : DefinedUnits[i].type = DefinedUnits[j].type => i = j
<1>1. {"length", "mass", "time", "current", "luminous"} \subseteq Nibbles \ {"system"}
  BY DEF Nibbles
<1>2. /\ HasDimension(MakeUnit(1, [length |-> 1], -4))
      /\ HasDimension(MakeUnit(1, [mass |-> 1], -3))
      /\ HasDimension(MakeUnit(4, [length |-> 1], -4))
  <2>1. \A k \in {1, 4}, e \in Int : HasDimension(MakeUnit(k, [length |-> 1], e))
    BY <1>1, MadeUnit
  <2>2. \A e \in Int : HasDimension(MakeUnit(1, [mass |-> 1], e))
    BY <1>1, MadeUnit
  <2> QED
    BY <2>1, <2>2
<1>3. /\ HasDimension(MakeUnit(2, [length |-> 1, time |-> -1], -3))
      /\ HasDimension(MakeUnit(1, [length |-> 1, time |-> -1], -1))
      /\ HasDimension(MakeUnit(1, [length |-> 1, time |-> -2], -1))
  <2>1. \A k \in 1..2, e, t \in Int : HasDimension(MakeUnit(k, [length |-> 1, time |-> t], e))
    BY <1>1, MadeUnit
  <2> QED
    BY <2>1
<1>4. HasDimension(MakeUnit(1, [mass |-> 1, current |-> -1, time |-> -2], 1))
  <2>1. \A c, t \in Int : HasDimension(MakeUnit(1, [mass |-> 1, current |-> c, time |-> t], 1))
    BY <1>1, MadeUnit
  <2> QED
    BY <2>1
<1>5. /\ HasDimension(MakeUnit(1, [luminous |-> 1], 0))
      /\ HasDimension(MakeUnit(1, [luminous |-> 1, length |-> -2], -2))
  <2>1. HasDimension(MakeUnit(1, [luminous |-> 1], 0))
    BY <1>1, MadeUnit
  <2>2. \A l, e \in Int : HasDimension(MakeUnit(1, [luminous |-> 1, length |-> l], e))
    BY <1>1, MadeUnit
  <2> QED
    BY <2>1, <2>2
<1>6. HasDimension(MakeUnit(1, [mass |-> 1, length |-> 1, time |-> -2], -2))
  <2>1. \A t, e \in Int : HasDimension(MakeUnit(1, [mass |-> 1, length |-> 1, time |-> t], e))
    BY <1>1, MadeUnit
  <2> QED
    BY <2>1
<1>7. \A i \in 1..10 : i \in {1, 2, 3, 4, 5, 6, 7, 8, 9, 10}
  OBVIOUS
<1>8. DOMAIN DefinedUnits = 1..10
  BY DEF DefinedUnits
<1>9. \A i \in 1..10 : HasDimension(DefinedUnits[i].unit)
  BY <1>2, <1>3, <1>4, <1>5, <1>6, <1>7 DEF DefinedUnits
<1> DEFINE names == <<"Distance", "Weight", "Rotation", "AngularVelocity", "LinearVelocity",
                      "Acceleration", "MagneticFlux", "Light", "Lux", "Pressure">>
<1>10. \A i \in 1..10 : DefinedUnits[i].type = names[i]
  BY <1>7 DEF DefinedUnits
<1>11. \A i \in 1..10 : names[i] \notin {"None", "Other"}
  BY <1>7
<1>12. \A i, j \in 1..10 : names[i] = names[j] => i = j
  BY <1>7
<1> HIDE DEF names
<1> QED
  BY <1>8, <1>9, <1>10, <1>11, <1>12

\* A set of natural numbers has a least one.
LEMMA Least ==
    ASSUME NEW S, S \subseteq Nat, S # {}
    PROVE  \E i \in S : \A j \in S : i <= j
<1> DEFINE R == OpToRel(<, Nat)
<1>1. IsWellFoundedOn(R, Nat)
  BY NatLessThanWellFounded, Zenon
<1>2. \A x, y \in Nat : x < y => <<x, y>> \in R
  BY Zenon DEF OpToRel
<1> HIDE DEF R
<1>3. PICK i \in S : \A j \in S : ~ (<<j, i>> \in R)
  BY <1>1, WFMin
<1>4. \A j \in S : j \in Nat /\ i \in Nat /\ ~ (j < i)
  BY <1>2, <1>3
<1> QED
  BY <1>4

\* The first entry of the table for which something holds: what CHOOSE finds.
LEMMA FirstEntry ==
    ASSUME NEW S, S \subseteq 1..10, NEW k \in S
    PROVE  \E i \in S : /\ i = CHOOSE n \in 1..10 : n \in S /\ \A j \in 1 .. n - 1 : j \notin S
                        /\ \A j \in 1 .. i - 1 : j \notin S
<1>1. PICK i \in S : \A j \in S : i <= j
  BY Least
<1>2. \A j \in 1 .. i - 1 : j \notin S
  BY <1>1
<1> DEFINE F(n) == n \in 1..10 /\ n \in S /\ \A j \in 1 .. n - 1 : j \notin S
<1>3. F(i)
  BY <1>2
<1>4. PICK m : m = CHOOSE n : F(n)
  OBVIOUS
<1>5. F(m)
  <2> HIDE DEF F
  <2>1. \E n : F(n)
    BY <1>3
  <2> QED
    BY <1>4, <2>1, Zenon
<1>6. m = CHOOSE n \in 1..10 : n \in S /\ \A j \in 1 .. n - 1 : j \notin S
  BY <1>4
<1> QED
  BY <1>5, <1>6

\* GetUnitTypeFromUnit() answers the first entry that can be converted,
LEMMA FirstConvertible ==
    ASSUME NEW u, NEW k \in 1..10, CanConvertUnits(DefinedUnits[k].unit, u)
    PROVE  \E i \in 1..10 : /\ CanConvertUnits(DefinedUnits[i].unit, u)
                            /\ \A j \in 1 .. i - 1 : ~CanConvertUnits(DefinedUnits[j].unit, u)
                            /\ GetUnitTypeFromUnit(u) = DefinedUnits[i].type
<1> DEFINE S == {i \in 1..10 : CanConvertUnits(DefinedUnits[i].unit, u)}
<1>1. S \subseteq 1..10 /\ k \in S
  OBVIOUS
<1>2. PICK i \in S : /\ i = CHOOSE n \in 1..10 : n \in S /\ \A j \in 1 .. n - 1 : j \notin S
                     /\ \A j \in 1 .. i - 1 : j \notin S
  <2> HIDE DEF S
  <2> QED
    BY <1>1, FirstEntry
<1>3. \A j \in 1 .. i - 1 : ~CanConvertUnits(DefinedUnits[j].unit, u)
  BY <1>2
<1>4. DOMAIN DefinedUnits = 1..10
  BY UnitsTable
<1> DEFINE F(n) == /\ CanConvertUnits(DefinedUnits[n].unit, u)
                   /\ \A j \in 1 .. n - 1 : ~CanConvertUnits(DefinedUnits[j].unit, u)
<1>5. i = CHOOSE n \in 1..10 : F(n)
  <2>1. \A n \in 1..10 : (n \in S /\ \A j \in 1 .. n - 1 : j \notin S) <=> F(n)
    OBVIOUS
  <2> DEFINE G(n) == n \in S /\ \A j \in 1 .. n - 1 : j \notin S
  <2>2. i = CHOOSE n \in 1..10 : G(n)
    BY <1>2
  <2>3. \A n \in 1..10 : G(n) <=> F(n)
    BY <2>1
  <2> HIDE DEF G, F
  <2> QED
    BY <2>2, <2>3
<1>6. GetUnitTypeFromUnit(u) = DefinedUnits[CHOOSE n \in 1..10 : F(n)].type
  BY <1>1, <1>4 DEF GetUnitTypeFromUnit, First
<1> QED
  BY <1>3, <1>5, <1>6

\* GetUnitFromUnitType() finds an entry by its name.
LEMMA NamedUnit ==
    ASSUME NEW k \in 1..10
    PROVE  GetUnitFromUnitType(DefinedUnits[k].type) = DefinedUnits[k].unit
<1>0. PICK name : name = DefinedUnits[k].type
  OBVIOUS
<1>1. DOMAIN DefinedUnits = 1..10
  BY UnitsTable
<1> DEFINE F(n) == /\ DefinedUnits[n].type = name
                   /\ \A j \in 1 .. n - 1 : ~(DefinedUnits[j].type = name)
<1>2. \A n \in 1..10 : F(n) <=> n = k
  <2>1. \A n \in 1..10 : DefinedUnits[n].type = name <=> n = k
    BY <1>0, UnitsTable
  <2>2. \A j \in 1 .. k - 1 : j \in 1..10 /\ j # k
    OBVIOUS
  <2> QED
    BY <2>1, <2>2
<1>3. k = CHOOSE n \in 1..10 : F(n)
  <2> HIDE DEF F
  <2>1. PICK m : m = CHOOSE n : n \in 1..10 /\ F(n)
    OBVIOUS
  <2>2. \E n : n \in 1..10 /\ F(n)
    BY <1>2
  <2>3. m \in 1..10 /\ F(m)
    BY <2>1, <2>2, Zenon
  <2> QED
    BY <1>2, <2>1, <2>3
<1>4. GetUnitFromUnitType(name) = DefinedUnits[CHOOSE n \in 1..10 : F(n)].unit
  BY <1>0, <1>1 DEF GetUnitFromUnitType, First
<1> QED
  BY <1>0, <1>3, <1>4

\* A name that the table does not have.
LEMMA UnnamedUnit ==
    ASSUME NEW name \in {"None", "Other"}
    PROVE  GetUnitFromUnitType(name) = [type |-> NoType, exp |-> 0]
  BY UnitsTable DEF GetUnitFromUnitType

\* GetUnitTypeFromUnit() answers such a name when no entry can be converted.
LEMMA InconvertibleUnit ==
    ASSUME NEW u, \A k \in 1..10 : ~CanConvertUnits(DefinedUnits[k].unit, u)
    PROVE  GetUnitTypeFromUnit(u) \in {"None", "Other"}
  BY UnitsTable DEF GetUnitTypeFromUnit

\* ConvertValToUnitType() converts to the first entry to which it succeeds,
LEMMA ConvertsToFirst ==
    ASSUME NEW u, NEW val, NEW i \in 1..10,
           ConvertUnits(u, val, DefinedUnits[i].unit) # Impossible,
           \A j \in 1 .. i - 1 : ConvertUnits(u, val, DefinedUnits[j].unit) = Impossible
    PROVE  ConvertValToUnitType(u, val) = ConvertUnits(u, val, DefinedUnits[i].unit)
<1>1. DOMAIN DefinedUnits = 1..10
  BY UnitsTable
<1> DEFINE F(n) == /\ ConvertUnits(u, val, DefinedUnits[n].unit) # Impossible
                   /\ \A j \in 1 .. n - 1 : ~(ConvertUnits(u, val, DefinedUnits[j].unit) # Impossible)
<1>2. \A n \in 1..10 : F(n) <=> n = i
  <2>1. F(i)
    OBVIOUS
  <2>2. ASSUME NEW n \in 1..10, F(n), n # i PROVE FALSE
    <3>1. n \in 1 .. i - 1 \/ i \in 1 .. n - 1
      BY <2>2
    <3> HIDE DEF F
    <3>2. CASE n \in 1 .. i - 1
      BY <2>2, <3>2 DEF F
    <3>3. CASE i \in 1 .. n - 1
      BY <2>2, <3>3 DEF F
    <3> QED
      BY <3>1, <3>2, <3>3
  <2> HIDE DEF F
  <2> QED
    BY <2>1, <2>2
<1>3. i = CHOOSE n \in 1..10 : F(n)
  <2> HIDE DEF F
  <2>1. PICK m : m = CHOOSE n : n \in 1..10 /\ F(n)
    OBVIOUS
  <2>2. \E n : n \in 1..10 /\ F(n)
    BY <1>2
  <2>3. m \in 1..10 /\ F(m)
    BY <2>1, <2>2, Zenon
  <2> QED
    BY <1>2, <2>1, <2>3
<1>4. ConvertValToUnitType(u, val)
          = ConvertUnits(u, val, DefinedUnits[CHOOSE n \in 1..10 : F(n)].unit)
  BY <1>1 DEF ConvertValToUnitType, First
<1> QED
  BY <1>3, <1>4

\* or, when there is none, leaves the value as it is.
LEMMA ConvertsToNone ==
    ASSUME NEW u, NEW val,
           \A k \in 1..10 : ConvertUnits(u, val, DefinedUnits[k].unit) = Impossible
    PROVE  ConvertValToUnitType(u, val) = val
  BY UnitsTable DEF ConvertValToUnitType

\* ConvertUnits() fails for units that cannot be converted.
LEMMA Inconvertible ==
    ASSUME NEW u, NEW v, ~CanConvertUnits(u, v)
    PROVE  \A val : ConvertUnits(u, val, v) = Impossible
<1>1. u.type = v.type => CanConvertUnits(u, v)
  BY DEF CanConvertUnits, GetSystem, SameButSystem
<1> QED
  BY <1>1 DEF ConvertUnits

\* The value that is inserted is converted to the field's unit and back again: the way
\* in, by what is convertible, and the way out, by what converts, are inverse to each
\* other, or the way in is refused.
LEMMA UnitRoundTrip ==
    ASSUME NEW u \in Unit,
           ~(u.exp # 0 /\ \A n \in Nibbles \ {"system"} : u.type[n] = 0)
    PROVE  \/ \A val \in Values :
                ConvertUnits(GetUnitFromUnitType(GetUnitTypeFromUnit(u)), val, u) = Impossible
           \/ \E q, r : /\ IsRatio(q, r)
                        /\ \A val \in Values :
                             /\ ConvertUnits(GetUnitFromUnitType(GetUnitTypeFromUnit(u)), val, u)
                                    = Scale(val, q)
                             /\ ConvertValToUnitType(u, val) = Scale(val, r)
<1>1. CASE \E k \in 1..10 : CanConvertUnits(DefinedUnits[k].unit, u)
  <2>1. PICK i \in 1..10 : /\ CanConvertUnits(DefinedUnits[i].unit, u)
                           /\ \A j \in 1 .. i - 1 : ~CanConvertUnits(DefinedUnits[j].unit, u)
                           /\ GetUnitTypeFromUnit(u) = DefinedUnits[i].type
    BY <1>1, FirstConvertible
  <2>2. PICK d \in Unit : d = DefinedUnits[i].unit /\ HasDimension(d)
    BY UnitsTable DEF HasDimension
  <2>3. GetUnitFromUnitType(GetUnitTypeFromUnit(u)) = d
    BY <2>1, <2>2, NamedUnit
  <2>4. u.type["temperature"] = 0 /\ d.type["temperature"] = 0
    <3>1. u.type = d.type \/ SameButSystem(d, u)
      BY <2>1, <2>2, ConvertibleUnits
    <3>2. d.type["temperature"] = 0
      BY <2>2 DEF HasDimension
    <3> QED
      BY <3>1, <3>2 DEF SameButSystem, Nibbles
  <2>5. Opposite([val \in Values |-> ConvertUnits(d, val, u)],
                 [val \in Values |-> ConvertUnits(u, val, d)])
    BY <2>4, ConvertInverts
  <2>6. CASE \A val \in Values : ConvertUnits(d, val, u) = Impossible
    BY <2>3, <2>6
  <2>7. ASSUME NEW q, NEW r, IsRatio(q, r),
               \A val \in Values : /\ ConvertUnits(d, val, u) = Scale(val, q)
                                   /\ ConvertUnits(u, val, d) = Scale(val, r)
        PROVE  \A val \in Values : ConvertValToUnitType(u, val) = Scale(val, r)
    <3> SUFFICES ASSUME NEW val \in Values PROVE ConvertValToUnitType(u, val) = Scale(val, r)
      OBVIOUS
    <3>1. IsRatio(r, q)
      BY <2>7 DEF IsRatio
    <3>2. ConvertUnits(u, val, DefinedUnits[i].unit) = Scale(val, r)
      BY <2>2, <2>7
    <3>3. Scale(val, r) # Impossible
      BY <3>1, ScaledValue
    <3>4. \A j \in 1 .. i - 1 : ConvertUnits(u, val, DefinedUnits[j].unit) = Impossible
      <4> SUFFICES ASSUME NEW j \in 1 .. i - 1
                   PROVE  ConvertUnits(u, val, DefinedUnits[j].unit) = Impossible
        OBVIOUS
      <4>1. ~CanConvertUnits(u, DefinedUnits[j].unit)
        BY <2>1, CanConvertSymmetric
      <4> QED
        BY <4>1, Inconvertible
    <3> QED
      BY <3>2, <3>3, <3>4, ConvertsToFirst
  <2>8. \/ \A val \in Values : ConvertUnits(d, val, u) = Impossible
        \/ \E q, r : /\ IsRatio(q, r)
                     /\ \A val \in Values : /\ ConvertUnits(d, val, u) = Scale(val, q)
                                            /\ ConvertUnits(u, val, d) = Scale(val, r)
    BY <2>5 DEF Opposite
  <2> QED
    BY <2>3, <2>6, <2>7, <2>8
<1>2. CASE \A k \in 1..10 : ~CanConvertUnits(DefinedUnits[k].unit, u)
  <2>1. PICK d : d = [type |-> NoType, exp |-> 0]
    OBVIOUS
  <2>2. GetUnitFromUnitType(GetUnitTypeFromUnit(u)) = d
    BY <1>2, <2>1, InconvertibleUnit, UnnamedUnit
  <2>3. CASE ~CanConvertUnits(d, u)
    <3>1. \A val : ConvertUnits(d, val, u) = Impossible
      BY <2>3, Inconvertible
    <3> QED
      BY <2>2, <3>1
  <2>4. CASE CanConvertUnits(d, u)
    <3>1. \A n \in Nibbles : d.type[n] = 0
      BY <2>1 DEF NoType
    <3>2. \A n \in Nibbles \ {"system"} : u.type[n] = 0
      <4>1. d.type = u.type \/ SameButSystem(d, u)
        BY <2>4, ConvertibleUnits
      <4> QED
        BY <3>1, <4>1 DEF SameButSystem
    <3>3. u.exp = 0 /\ d.exp = 0
      BY <2>1, <3>2
    <3>4. d \in Unit
      BY <2>1 DEF Unit, NoType
    <3>5. \A n \in Nibbles \ {"system"} : Exponent(d, n) = 0
      BY <3>1, <3>4, ExponentsAreIntegers
    <3>6. {"length", "mass", "temperature"} \subseteq Nibbles \ {"system"}
      BY DEF Nibbles
    <3>7. Power(<<10, 1>>, d.exp - u.exp) = <<1, 1>>
      <4>1. d.exp - u.exp = 0
        BY <3>3
      <4>2. 10 \in Positive /\ 1 \in Positive /\ 0 \in Int
        BY DEF Positive
      <4> QED
        BY <4>1, <4>2, PowerInverts
    <3>8. \A val \in Values : ConvertUnits(d, val, u) = val
      <4> SUFFICES ASSUME NEW val \in Values PROVE ConvertUnits(d, val, u) = val
        OBVIOUS
      <4>1. Scale(val, <<1, 1>>) = val /\ val # Impossible
        BY OneIsRatio, ScaleOnce, ScaledValue
      <4>2. /\ ConvertDistance(val, d, u) = val
            /\ ConvertMass(val, d, u) = val
            /\ ConvertTemperature(val, d, u) = val
        BY <3>5, <3>6 DEF ConvertDistance, ConvertMass, ConvertTemperature
      <4> QED
        BY <2>4, <3>7, <4>1, <4>2 DEF ConvertUnits
    <3>9. \A val : ConvertValToUnitType(u, val) = val
      <4> SUFFICES ASSUME NEW val PROVE ConvertValToUnitType(u, val) = val
        OBVIOUS
      <4>1. ASSUME NEW k \in 1..10
            PROVE  ConvertUnits(u, val, DefinedUnits[k].unit) = Impossible
        <5>1. ~CanConvertUnits(u, DefinedUnits[k].unit)
          BY <1>2, CanConvertSymmetric
        <5> QED
          BY <5>1, Inconvertible
      <4> QED
        BY <4>1, ConvertsToNone
    <3>10. \A val \in Values : /\ ConvertUnits(d, val, u) = Scale(val, <<1, 1>>)
                               /\ ConvertValToUnitType(u, val) = Scale(val, <<1, 1>>)
      BY <3>8, <3>9, ScaleOnce
    <3> QED
      BY <2>2, <3>10, OneIsRatio
  <2> QED
    BY <2>3, <2>4
<1> QED
  BY <1>1, <1>2

-------------------------------------------------------------------------------
(* What is read from a field is what was written.                          *)

\* The stop at whose byte a bit of a field is, and its place there.
LEMMA StopOfBit ==
    ASSUME NEW attr \in Attributes, NEW b \in 0 .. attr.bit_sz - 1
    PROVE  \E i \in Stops(attr) :
               /\ (attr.offset + b) \div 8 = i \div 8
               /\ (attr.offset + b) % 8 \in (i % 8) .. (i % 8) + BitCount(attr, i) - 1
               /\ b = i - attr.offset + ((attr.offset + b) % 8) - (i % 8)
<1>1. PICK o \in Nat, s \in Nat, n \in Nat :
         /\ o = attr.offset /\ s = attr.bit_sz /\ n = o + b /\ n < o + s /\ o <= n
         /\ EndBit(attr) = o + s /\ b \in Nat
  BY DEF Attributes, EndBit
<1>2. PICK qn \in Nat, rn \in 0..7 : qn = n \div 8 /\ rn = n % 8 /\ n = 8 * qn + rn
  BY <1>1
<1>3. PICK i \in Nat : i = IF 8 * qn < o THEN o ELSE 8 * qn
  BY <1>1, <1>2
<1>4. PICK qi \in Nat, ri \in 0..7 : qi = i \div 8 /\ ri = i % 8 /\ i = 8 * qi + ri
  BY <1>3
<1>a. n = 8 * qn + rn
  BY <1>2
<1>b. i = 8 * qi + ri
  BY <1>4
<1>c. b \in Nat /\ n = o + b /\ n < o + s /\ o <= n
  BY <1>1
<1>5. PICK c \in Nat : c = IF 8 - ri < o + s - i THEN 8 - ri ELSE o + s - i
  <2>1. i <= n
    BY <1>3, <1>a, <1>c
  <2>2. o + s - i \in Nat /\ 8 - ri \in Nat
    BY <1>c, <2>1
  <2> QED
    BY <2>2
<1>6. /\ o <= i /\ i <= n /\ qi = qn
      /\ i = o \/ ri = 0
      /\ rn \in ri .. ri + c - 1
      /\ b = i - o + rn - ri
  <2>1. o <= n /\ 8 * qn <= n
    BY <1>a, <1>c
  <2>2. o <= i /\ 8 * qn <= i /\ i <= n
    BY <1>3, <2>1
  <2>3. qi = qn
    BY <1>a, <1>b, <2>2
  <2>4. i = o \/ ri = 0
    BY <1>3, <1>b, <2>3
  <2>5. n - i = rn - ri /\ ri <= rn
    BY <1>a, <1>b, <2>2, <2>3
  <2>6. rn < ri + c
    BY <1>5, <1>c, <2>5
  <2>7. b = i - o + rn - ri
    BY <1>c, <2>5
  <2> QED
    BY <2>2, <2>3, <2>4, <2>5, <2>6, <2>7
<1>7. i \in Stops(attr)
  BY <1>1, <1>4, <1>6 DEF Stops
<1>8. c = BitCount(attr, i)
  BY <1>1, <1>4, <1>5 DEF BitCount, Smaller
<1> QED
  BY <1>1, <1>2, <1>4, <1>6, <1>7, <1>8

\* What a stop contributes are bits of the field.
LEMMA BitOfStop ==
    ASSUME NEW attr \in Attributes, NEW i \in Stops(attr),
           NEW r \in (i % 8) .. (i % 8) + BitCount(attr, i) - 1,
           NEW b, b = i - attr.offset + r - (i % 8)
    PROVE  /\ b \in 0 .. attr.bit_sz - 1
           /\ (attr.offset + b) \div 8 = i \div 8
           /\ (attr.offset + b) % 8 = r
<1>1. PICK o \in Nat, s \in Nat :
         o = attr.offset /\ s = attr.bit_sz /\ EndBit(attr) = o + s
  BY DEF Attributes, EndBit
<1>2. i \in Nat /\ o <= i /\ i < o + s
  BY <1>1 DEF Stops
<1>3. PICK qi \in Nat, ri \in 0..7 : qi = i \div 8 /\ ri = i % 8 /\ i = 8 * qi + ri
  BY <1>2
<1>4. PICK c \in Nat : c = BitCount(attr, i) /\ c = IF 8 - ri < o + s - i THEN 8 - ri ELSE o + s - i
  BY <1>1, <1>2, <1>3 DEF BitCount, Smaller
<1>5. r \in Nat /\ ri <= r /\ r < ri + c
  BY <1>3, <1>4
<1>6. b \in Nat /\ b = i - o + r - ri
  BY <1>1, <1>2, <1>3, <1>5
<1>7. b < s /\ r < 8
  BY ONLY <1>1, <1>2, <1>3, <1>4, <1>5, <1>6
<1>8. o + b = 8 * qi + r
  BY ONLY <1>1, <1>2, <1>3, <1>5, <1>6
<1>9. (8 * qi + r) \div 8 = qi /\ (8 * qi + r) % 8 = r
  BY ONLY <1>3, <1>5, <1>7
<1> QED
  BY <1>1, <1>3, <1>6, <1>7, <1>8, <1>9

\* ExtractUint() puts the bits of a field together again.
LEMMA ExtractedBits ==
    ASSUME NEW report, NEW attr \in Attributes, NEW c \in Int,
           \A b \in 0 .. attr.bit_sz - 1 : BitAt(report, attr.offset + b) <=> Bit(c, b)
    PROVE  ExtractUint(report, attr) = c % 2^attr.bit_sz
<1> DEFINE mask(i) == (i % 8) .. (i % 8) + BitCount(attr, i) - 1
           bits(i) == {i - attr.offset + b - (i % 8) : b \in report[i \div 8] \cap mask(i)}
           S == UNION {bits(i) : i \in Stops(attr)}
<1>1. ExtractUint(report, attr) = MapThenSumSet(LAMBDA b : 2^b, S)
  BY DEF ExtractUint
<1>2. ASSUME NEW b \in S PROVE b \in 0 .. attr.bit_sz - 1 /\ Bit(c, b)
  <2>1. PICK i \in Stops(attr) : b \in bits(i)
    OBVIOUS
  <2>2. PICK r \in mask(i) : r \in report[i \div 8] /\ b = i - attr.offset + r - (i % 8)
    BY <2>1
  <2>3. /\ b \in 0 .. attr.bit_sz - 1
        /\ (attr.offset + b) \div 8 = i \div 8
        /\ (attr.offset + b) % 8 = r
    BY <2>2, BitOfStop
  <2>4. BitAt(report, attr.offset + b)
    BY <2>2, <2>3 DEF BitAt
  <2> QED
    BY <2>3, <2>4
<1>3. ASSUME NEW b \in 0 .. attr.bit_sz - 1, Bit(c, b) PROVE b \in S
  <2>1. PICK i \in Stops(attr) :
               /\ (attr.offset + b) \div 8 = i \div 8
               /\ (attr.offset + b) % 8 \in mask(i)
               /\ b = i - attr.offset + ((attr.offset + b) % 8) - (i % 8)
    BY StopOfBit
  <2>2. PICK r \in mask(i) : r = (attr.offset + b) % 8
    BY <2>1
  <2>3. BitAt(report, attr.offset + b)
    BY <1>3
  <2>4. r \in report[i \div 8]
    BY <2>1, <2>2, <2>3 DEF BitAt
  <2>5. b \in bits(i)
    BY <2>1, <2>2, <2>4
  <2> HIDE DEF bits
  <2> QED
    BY <2>5
<1> HIDE DEF S
<1>4. attr.bit_sz \in Nat
  BY DEF Attributes
<1>5. S \in SUBSET (0 .. attr.bit_sz - 1)
  BY <1>2
<1>6. MapThenSumSet(LAMBDA b : 2^b, S) = c % 2^attr.bit_sz
  BY <1>2, <1>3, <1>4, <1>5, BitsMakeNumber
<1> QED
  BY <1>1, <1>6

\* The counts of a field are its value times its resolution, without the fraction.
LEMMA Truncated ==
    ASSUME NEW n \in Int, NEW d \in Positive
    PROVE  \E t \in Int : /\ t = Truncate(<<n, d>>)
                          /\ n - t * d < d /\ t * d - n < d
<1>0. d \in Nat /\ d > 0
  BY DEF Positive
<1>1. CASE n >= 0
  <2>1. PICK t \in Int, r \in 0 .. d - 1 : t = n \div d /\ n = t * d + r
    BY <1>0
  <2>2. n - t * d = r
    <3>1. PICK x \in Int : x = t * d
      BY <1>0
    <3>2. n = x + r
      BY <2>1, <3>1
    <3> QED
      BY <3>1, <3>2
  <2>3. n - t * d < d /\ t * d - n < d
    BY <1>0, <2>2
  <2> QED
    BY <1>1, <2>1, <2>3 DEF Truncate
<1>2. CASE ~(n >= 0)
  <2>1. PICK m \in Int : m = -n
    OBVIOUS
  <2>2. PICK s \in Int, r \in 0 .. d - 1 : s = m \div d /\ m = s * d + r
    BY <1>0
  <2>3. PICK t \in Int : t = -s
    OBVIOUS
  <2>4. t * d = -(s * d)
    BY <1>0, <2>3
  <2>5. n - t * d < d /\ t * d - n < d
    BY <1>0, <2>1, <2>2, <2>4
  <2> QED
    BY <1>2, <2>1, <2>2, <2>3, <2>5 DEF Truncate
<1> QED
  BY <1>1, <1>2

\* A range that is not empty as it is kept is not widened.
LEMMA WidenedRange ==
    ASSUME NEW mm \in Int \X Int
    PROVE  /\ Widened(mm) \in Int \X Int
           /\ mm[1] < mm[2] => Widened(mm) = mm
<1>1. PICK big \in Int : big = 2^32
  OBVIOUS
<1>2. mm[1] \in Int /\ mm[2] \in Int /\ mm = <<mm[1], mm[2]>>
  OBVIOUS
<1>3. CASE mm[1] < 0 \/ mm[2] >= 0
  BY <1>3 DEF Widened
<1>4. CASE ~(mm[1] < 0 \/ mm[2] >= 0)
  <2>1. Widened(mm) = <<mm[1], mm[2] + big>>
    BY <1>1, <1>4 DEF Widened
  <2> QED
    BY <1>2, <1>4, <2>1
<1> QED
  BY <1>3, <1>4

\* A field with ranges that are not empty has counts per unit.
LEMMA PositiveResolution ==
    ASSUME NEW attr \in Attributes, NEW counts, Representable(attr, counts)
    PROVE  Resolution(attr)[1] \in Positive /\ Resolution(attr)[2] \in Positive
<1>1. attr.logc \in Int \X Int /\ PhysRange(attr) \in Int \X Int
  BY WidenedRange DEF Attributes, PhysRange
<1>2. PICK l \in Int, h \in Int, p \in Int, m \in Int :
         /\ l = attr.logc[1] /\ h = attr.logc[2]
         /\ p = PhysRange(attr)[1] /\ m = PhysRange(attr)[2]
  BY <1>1
<1>3. l < h /\ p < m
  BY <1>2 DEF Representable
<1>4. Widened(attr.logc) = attr.logc
  BY <1>1, <1>2, <1>3, WidenedRange
<1>5. Resolution(attr)[1] = h - l /\ Resolution(attr)[2] = m - p
  BY <1>2, <1>4 DEF Resolution
<1> QED
  BY <1>3, <1>5 DEF Positive

\* Counts for which there is room are decoded from their bits.
LEMMA DecodedCounts ==
    ASSUME NEW report, NEW len, NEW attr \in Attributes, NEW c \in Int,
           InsertUintAccepts(len, attr), Representable(attr, c),
           \A b \in 0 .. attr.bit_sz - 1 : BitAt(report, attr.offset + b) <=> Bit(c, b)
    PROVE  ExtractAsUnit(report, len, attr) = <<c * Resolution(attr)[2], Resolution(attr)[1]>>
<1>1. PICK n \in Nat, l \in Int, h \in Int :
         n = attr.bit_sz /\ l = attr.logc[1] /\ h = attr.logc[2]
  BY DEF Attributes
<1>2. ExtractUint(report, attr) = c % 2^n
  BY <1>1, ExtractedBits
<1>3. l <= c /\ c <= h
  BY <1>1 DEF Representable
<1>4. n <= 32 /\ FieldFits(len, attr)
  BY <1>1 DEF InsertUintAccepts
<1>5. CASE l < 0
  <2>1. n \in 1..31 /\ c \in -(2^(n - 1)) .. 2^(n - 1) - 1
    BY <1>1, <1>5 DEF Representable
  <2>2. SignExtendFromNBits(c % 2^n, n) = c
    BY <2>1, SignedIsLeft
  <2> QED
    BY <1>1, <1>2, <1>3, <1>4, <1>5, <2>2 DEF ExtractAsUnit
<1>6. CASE ~(l < 0)
  <2>1. c \in 0 .. 2^n - 1
    BY <1>1, <1>6 DEF Representable
  <2>2. c % 2^n = c
    BY <2>1, UnsignedIsLeft
  <2> QED
    BY <1>1, <1>2, <1>3, <1>4, <1>6, <2>2 DEF ExtractAsUnit
<1> QED
  BY <1>5, <1>6

\* What is decoded is what was encoded, up to one count.
LEMMA FieldReadsBack ==
    ASSUME NEW report, NEW len, NEW attr \in Attributes, NEW v \in Int,
           InsertUintAccepts(len, attr),
           InUnitOf(attr, <<v, 1>>) # Impossible,
           Representable(attr, Counts(attr, <<v, 1>>)),
           ~ScaledWithoutUnit(attr),
           \A b \in 0 .. attr.bit_sz - 1 :
               BitAt(report, attr.offset + b) <=> Bit(Counts(attr, <<v, 1>>), b)
    PROVE  \E n, d, one \in Int : /\ ExtractAsUnitType(report, len, attr) = <<n, d>>
                                  /\ <<n, d>> # Impossible
                                  /\ OneCount(attr)[1] = one
                                  /\ n - v * d < one /\ -(n - v * d) < one
<1>1. attr.unit \in Unit
  BY DEF Attributes
<1>2. <<v, 1>> \in Values
  BY DEF Values, Positive
<1>3. PICK q, r : /\ IsRatio(q, r)
                  /\ InUnitOf(attr, <<v, 1>>) = Scale(<<v, 1>>, q)
                  /\ \A val \in Values : ConvertValToUnitType(attr.unit, val) = Scale(val, r)
  <2>1. ~(attr.unit.exp # 0 /\ \A n \in Nibbles \ {"system"} : attr.unit.type[n] = 0)
    BY DEF ScaledWithoutUnit
  <2> DEFINE conv(val) ==
        ConvertUnits(GetUnitFromUnitType(GetUnitTypeFromUnit(attr.unit)), val, attr.unit)
  <2>2. InUnitOf(attr, <<v, 1>>) = conv(<<v, 1>>)
    BY DEF InUnitOf
  <2>3. \/ \A val \in Values : conv(val) = Impossible
        \/ \E q, r : /\ IsRatio(q, r)
                     /\ \A val \in Values : /\ conv(val) = Scale(val, q)
                                            /\ ConvertValToUnitType(attr.unit, val) = Scale(val, r)
    BY <1>1, <2>1, UnitRoundTrip
  <2> HIDE DEF conv
  <2> QED
    BY <1>2, <2>2, <2>3
<1>4. PICK a \in Positive, b \in Positive : q = <<a, b>> /\ r = <<b, a>>
  BY <1>3 DEF IsRatio
<1>5. PICK R1 \in Positive, R2 \in Positive :
         Resolution(attr)[1] = R1 /\ Resolution(attr)[2] = R2
  BY PositiveResolution
<1>6. Positive \subseteq Int
  BY DEF Positive
<1>7. PICK num \in Int, den \in Positive : num = (v * a) * R1 /\ den = b * R2
  BY <1>6, Products
<1>8. PICK c \in Int : /\ c = Counts(attr, <<v, 1>>)
                       /\ num - c * den < den /\ c * den - num < den
  <2>1. PICK t \in Int : /\ t = Truncate(<<num, den>>)
                         /\ num - t * den < den /\ t * den - num < den
    BY Truncated
  <2>2. Scale(Scale(<<v, 1>>, q), Resolution(attr)) = <<num, den>>
    <3>1. Scale(<<v, 1>>, q) = <<v * a, 1 * b>> /\ 1 * b = b
      BY <1>4, <1>6 DEF Scale
    <3> QED
      BY <1>5, <1>7, <3>1 DEF Scale
  <2>3. Counts(attr, <<v, 1>>) = t
    BY <1>3, <2>1, <2>2 DEF Counts
  <2> QED
    BY <2>1, <2>3
<1>9. ExtractAsUnit(report, len, attr) = <<c * R2, R1>>
  BY <1>5, <1>8, DecodedCounts
<1>10. <<c * R2, R1>> \in Values /\ <<c * R2, R1>> # Impossible /\ <<R2, R1>> \in Values
  BY <1>6 DEF Values, Impossible, Positive
<1>11. PICK n \in Int, d \in Positive, one \in Positive :
          n = (c * R2) * b /\ d = R1 * a /\ one = R2 * b
  BY <1>6, Products
<1>12. ExtractAsUnitType(report, len, attr) = <<n, d>>
  BY <1>3, <1>4, <1>9, <1>10, <1>11 DEF ExtractAsUnitType, Scale
<1>13. OneCount(attr)[1] = one
  BY <1>3, <1>4, <1>5, <1>10, <1>11 DEF OneCount, Scale
<1>14. n = c * den /\ v * d = num /\ one = den
  <2>1. (c * R2) * b = c * (b * R2) /\ v * (R1 * a) = (v * a) * R1 /\ R2 * b = b * R2
    BY <1>6
  <2> QED
    BY <1>7, <1>11, <2>1
<1>15. n - v * d < one /\ -(n - v * d) < one
  <2>1. PICK x \in Int, y \in Int : x = c * den /\ y = num /\ n = x /\ v * d = y
    BY <1>6, <1>14
  <2>2. y - x < one /\ x - y < one
    BY <1>8, <1>14, <2>1
  <2> QED
    BY <1>6, <2>1, <2>2
<1>16. <<n, d>> # Impossible
  BY DEF Impossible, Positive
<1> QED
  BY <1>6, <1>12, <1>13, <1>15, <1>16

-------------------------------------------------------------------------------
(* A movement is received.                                                 *)

\* Each std::optional of MouseProtocol has at most one field.
AtMostOne(S) == \A a, b \in S : a = b
SingleInv == AtMostOne(protocol.x) /\ AtMostOne(protocol.y) /\ AtMostOne(protocol.scroll)

\* Of several fields the last one is kept.
LEMMA ParsedOnce ==
    ASSUME NEW reports \in Seq(Report), NEW last \in DOMAIN reports,
           NEW p, p = ParseReportDescriptor(reports, last)
    PROVE  AtMostOne(p.x) /\ AtMostOne(p.y) /\ AtMostOne(p.scroll)
<1> DEFINE FieldAt(o) == reports[o[1]].fields[o[2]]
           With(usage) == {o \in Places(reports, last) : FieldAt(o).usage = usage}
           is_absolute == \E o \in With("X") : FieldAt(o).absolute
           OfKind(usage) == {o \in With(usage) : FieldAt(o).absolute = is_absolute}
           LastOf(places) == {FieldAt(o).attr : o \in
                                {q \in places : \A r \in places : ~Earlier(q, r)}}
<1>1. \A o \in Places(reports, last) : \E i, j \in Nat : o = <<i, j>>
  <2> SUFFICES ASSUME NEW i \in 1..last, NEW j \in DOMAIN reports[i].fields
               PROVE  i \in Nat /\ j \in Nat
    BY DEF Places
  <2>1. reports[i] \in Report
    OBVIOUS
  <2>2. reports[i].fields \in Seq(Field)
    BY <2>1 DEF Report
  <2> QED
    BY <2>2
<1>2. ASSUME NEW places \in SUBSET Places(reports, last) PROVE AtMostOne(LastOf(places))
  <2> SUFFICES ASSUME NEW q \in places, NEW r \in places,
                      \A o \in places : ~Earlier(q, o), \A o \in places : ~Earlier(r, o)
               PROVE  q = r
    BY DEF AtMostOne
  <2>1. ~Earlier(q, r) /\ ~Earlier(r, q)
    OBVIOUS
  <2>2. PICK i \in Nat, j \in Nat : q = <<i, j>>
    BY <1>1
  <2>3. PICK k \in Nat, l \in Nat : r = <<k, l>>
    BY <1>1
  <2> QED
    BY <2>1, <2>2, <2>3 DEF Earlier
<1>3. p.x = LastOf(OfKind("X")) /\ p.y = LastOf(OfKind("Y")) /\ p.scroll = LastOf(With("wheel"))
  BY DEF ParseReportDescriptor
<1>4. /\ OfKind("X") \in SUBSET Places(reports, last)
      /\ OfKind("Y") \in SUBSET Places(reports, last)
      /\ With("wheel") \in SUBSET Places(reports, last)
  OBVIOUS
<1> HIDE DEF LastOf, OfKind, With
<1> QED
  BY <1>2, <1>3, <1>4

\* The std::optionals are set once, by InitProtocol().
LEMMA SingleStep == TypeInv /\ SingleInv /\ [Next]_vars => SingleInv'
<1> SUFFICES ASSUME TypeInv, SingleInv, [Next]_vars PROVE SingleInv'
  OBVIOUS
<1>1. CASE UNCHANGED protocol
  BY <1>1 DEF SingleInv
<1>2. CASE InitProtocol
  <2>1. PICK i \in DOMAIN descriptor : protocol' = ParseReportDescriptor(descriptor, i)
    BY <1>2 DEF InitProtocol
  <2>2. descriptor \in Seq(Report)
    BY DescriptorsAssumption DEF TypeInv, SetupInv
  <2> QED
    BY <2>1, <2>2, ParsedOnce DEF SingleInv
<1>3. ASSUME NEW w \in Workers,
             Send(w) \/ StoreId(w) \/ Load(w) \/ Store(w) \/ Copy(w) \/ Return(w)
      PROVE  UNCHANGED protocol
  BY <1>3 DEF Send, StoreId, Load, Store, Copy, Return, setup
<1>4. InitThrows => UNCHANGED protocol
  BY DEF InitThrows, setup
<1>5. UNCHANGED vars => UNCHANGED protocol
  BY DEF vars, setup
<1> QED
  BY <1>1, <1>2, <1>3, <1>4, <1>5 DEF Next

\* So it stays.
LEMMA SingleHolds == Spec => []SingleInv
<1>1. Init => SingleInv
  BY DEF Init, Unset, SingleInv, AtMostOne
<1>2. TypeInv /\ SingleInv /\ [Next]_vars => SingleInv'
  BY SingleStep
<1> QED
  BY <1>1, <1>2, InvariantHolds, PTL DEF Spec

\* The elements of two sequences one after the other.
LEMMA Joined ==
    ASSUME NEW U, NEW s \in Seq(U), NEW t \in Seq(U)
    PROVE  /\ s \o t \in Seq(U) /\ Len(s \o t) = Len(s) + Len(t)
           /\ \A n \in 1 .. Len(s) : (s \o t)[n] = s[n]
           /\ \A n \in 1 .. Len(t) : (s \o t)[Len(s) + n] = t[n]
  OBVIOUS

\* Where the encoding has an insertion, and which ones come after it.
LEMMA EncodingAt ==
    ASSUME NEW m, NEW i \in 1..3, NEW ins, Writes(m, i) = {ins}
    PROVE  \E p \in 1 .. Len(Encoding(m)) :
               /\ Encoding(m)[p] = ins
               /\ \A q \in p + 1 .. Len(Encoding(m)) :
                    \E j \in i + 1 .. 3 : Encoding(m)[q] \in Writes(m, j)
<1> DEFINE U == Writes(m, 1) \cup Writes(m, 2) \cup Writes(m, 3)
<1>1. ASSUME NEW S, S \subseteq U
      PROVE  /\ AsSeq(S) \in Seq(U) /\ Len(AsSeq(S)) \in Nat
             /\ \A n \in 1 .. Len(AsSeq(S)) : AsSeq(S)[n] \in S
  <2> HIDE DEF U
  <2>1. CASE S = {}
    BY <2>1 DEF AsSeq
  <2>2. CASE S # {}
    <3>1. PICK s \in S : s = CHOOSE t \in S : TRUE
      BY <2>2
    <3>2. AsSeq(S) = <<s>>
      BY <2>2, <3>1 DEF AsSeq
    <3> QED
      BY <1>1, <3>1, <3>2
  <2> QED
    BY <2>1, <2>2
<1>2. Writes(m, 1) \subseteq U /\ Writes(m, 2) \subseteq U /\ Writes(m, 3) \subseteq U
  OBVIOUS
<1>3. PICK A, B, C : /\ A = AsSeq(Writes(m, 1))
                     /\ B = AsSeq(Writes(m, 2))
                     /\ C = AsSeq(Writes(m, 3))
                     /\ Encoding(m) = (A \o B) \o C
  BY DEF Encoding
<1> HIDE DEF U
<1>4. A \in Seq(U) /\ B \in Seq(U) /\ C \in Seq(U)
  BY <1>1, <1>2, <1>3
<1>5. PICK a \in Nat, b \in Nat, c \in Nat : a = Len(A) /\ b = Len(B) /\ c = Len(C)
  BY <1>4
<1>6. /\ \A n \in 1..a : A[n] \in Writes(m, 1)
      /\ \A n \in 1..b : B[n] \in Writes(m, 2)
      /\ \A n \in 1..c : C[n] \in Writes(m, 3)
  BY <1>1, <1>2, <1>3, <1>5
<1>7. PICK E : /\ E = Encoding(m) /\ Len(E) = a + b + c
               /\ \A n \in 1..a : E[n] = A[n]
               /\ \A n \in 1..b : E[a + n] = B[n]
               /\ \A n \in 1..c : E[a + b + n] = C[n]
  <2>1. PICK D : D = A \o B
    OBVIOUS
  <2>2. PICK k \in Nat : k = a + b
    OBVIOUS
  <2>3. /\ D \in Seq(U) /\ Len(D) = k
        /\ \A n \in 1..a : D[n] = A[n]
        /\ \A n \in 1..b : D[a + n] = B[n]
    BY <1>4, <1>5, <2>1, <2>2, Joined
  <2>4. PICK F : F = D \o C
    OBVIOUS
  <2>5. /\ Len(F) = k + c
        /\ \A n \in 1..k : F[n] = D[n]
        /\ \A n \in 1..c : F[k + n] = C[n]
    <3>1. D \in Seq(U) /\ C \in Seq(U) /\ Len(D) = k /\ Len(C) = c
      BY <1>4, <1>5, <2>3
    <3>2. /\ Len(F) = Len(D) + Len(C)
          /\ \A n \in 1 .. Len(D) : F[n] = D[n]
          /\ \A n \in 1 .. Len(C) : F[Len(D) + n] = C[n]
      <4>1. /\ Len(D \o C) = Len(D) + Len(C)
            /\ \A n \in 1 .. Len(D) : (D \o C)[n] = D[n]
            /\ \A n \in 1 .. Len(C) : (D \o C)[Len(D) + n] = C[n]
        BY <3>1
      <4> QED
        BY <2>4, <4>1, Zenon
    <3> QED
      BY <3>1, <3>2
  <2>6. \A n \in 1..a : F[n] = A[n]
    BY <2>2, <2>3, <2>5
  <2>7. \A n \in 1..b : F[a + n] = B[n]
    <3>1. \A n \in 1..b : a + n \in 1..k
      BY <2>2
    <3> QED
      BY <2>3, <2>5, <3>1
  <2>8. Len(F) = a + b + c /\ \A n \in 1..c : F[a + b + n] = C[n]
    BY <2>2, <2>5
  <2>9. F = Encoding(m)
    BY <1>3, <2>1, <2>4
  <2> QED
    BY <2>6, <2>7, <2>8, <2>9
<1>8. \A n \in a + 1 .. a + b + c : E[n] \in Writes(m, 2) \/ E[n] \in Writes(m, 3)
  <2> SUFFICES ASSUME NEW n \in a + 1 .. a + b + c
               PROVE  E[n] \in Writes(m, 2) \/ E[n] \in Writes(m, 3)
    OBVIOUS
  <2>1. CASE n <= a + b
    <3>1. PICK j \in 1..b : a + j = n
      <4>1. n - a \in 1..b /\ a + (n - a) = n
        BY <2>1
      <4> QED
        BY <4>1
    <3>2. E[a + j] = B[j]
      BY <1>7
    <3>3. B[j] \in Writes(m, 2)
      BY <1>6
    <3> QED
      BY ONLY <3>1, <3>2, <3>3
  <2>2. CASE ~(n <= a + b)
    <3>1. PICK j \in 1..c : a + b + j = n
      <4>1. n - a - b \in 1..c /\ a + b + (n - a - b) = n
        BY <2>2
      <4> QED
        BY <4>1
    <3>2. E[a + b + j] = C[j]
      BY <1>7
    <3>3. C[j] \in Writes(m, 3)
      BY <1>6
    <3> QED
      BY ONLY <3>1, <3>2, <3>3
  <2> QED
    BY <2>1, <2>2
<1>9. \A n \in a + b + 1 .. a + b + c : E[n] \in Writes(m, 3)
  <2> SUFFICES ASSUME NEW n \in a + b + 1 .. a + b + c PROVE E[n] \in Writes(m, 3)
    OBVIOUS
  <2>1. PICK j \in 1..c : a + b + j = n
    <3>1. n - a - b \in 1..c /\ a + b + (n - a - b) = n
      OBVIOUS
    <3> QED
      BY <3>1
  <2>2. E[a + b + j] = C[j]
    BY <1>7
  <2>3. C[j] \in Writes(m, 3)
    BY <1>6
  <2> QED
    BY ONLY <2>1, <2>2, <2>3
<1>10. AsSeq({ins}) = <<ins>>
  <2>1. PICK s \in {ins} : s = CHOOSE t \in {ins} : TRUE
    OBVIOUS
  <2> QED
    BY <2>1 DEF AsSeq
<1>11. CASE i = 1
  <2>0. A = <<ins>>
    BY <1>3, <1>10, <1>11
  <2>1. a = 1 /\ A[1] = ins
    BY <1>5, <2>0
  <2>2. E[1] = ins /\ 1 \in 1 .. Len(E)
    BY <1>7, <2>1
  <2>3. \A q \in 1 + 1 .. Len(E) : \E j \in 2..3 : E[q] \in Writes(m, j)
    BY <1>7, <1>8, <2>1
  <2> QED
    BY <1>7, <1>11, <2>2, <2>3
<1>12. CASE i = 2
  <2>0. B = <<ins>>
    BY <1>3, <1>10, <1>12
  <2>1. b = 1 /\ B[1] = ins
    BY <1>5, <2>0
  <2>2. E[a + 1] = ins /\ a + 1 \in 1 .. Len(E)
    BY <1>7, <2>1
  <2>3. \A q \in (a + 1) + 1 .. Len(E) : E[q] \in Writes(m, 3)
    BY <1>7, <1>9, <2>1
  <2>4. 3 \in i + 1 .. 3
    BY <1>12
  <2> QED
    BY <1>7, <2>2, <2>3, <2>4
<1>13. CASE i = 3
  <2>0. C = <<ins>>
    BY <1>3, <1>10, <1>13
  <2>1. c = 1 /\ C[1] = ins
    BY <1>5, <2>0
  <2>2. E[a + b + 1] = ins /\ a + b + 1 \in 1 .. Len(E)
    BY <1>7, <2>1
  <2>3. \A q \in (a + b + 1) + 1 .. Len(E) : FALSE
    BY <1>7, <2>1
  <2> QED
    BY <1>7, <2>2, <2>3
<1> QED
  BY <1>11, <1>12, <1>13

\* What the host decodes from each field of a report that Send() alone wrote is the
\* movement, up to one count (mouse.cpp:66-85, report.cpp).
THEOREM MovementIsReceived == Spec => []SentIsReceived
<1>1. TypeInv /\ SequentialInv /\ SingleInv /\ AloneIsSequential => SentIsReceived
  <2> SUFFICES ASSUME TypeInv, SequentialInv, SingleInv, AloneIsSequential,
                      NEW w \in Workers, Written(w), Alone(w),
                      NEW i \in 1..3, NEW ins \in Insertions(move[w])[i],
                      Accepted(ins), ~Overwritten(move[w], i),
                      Representable(ins.attr, Counts(ins.attr, ins.value)),
                      ~ScaledWithoutUnit(ins.attr)
               PROVE  ReadsBack(w, ins)
    BY DEF SentIsReceived
  <2>0. PICK attr, len : attr = ins.attr /\ len = protocol.hid_report_length
    OBVIOUS
  <2>1. PICK m : m = move[w] /\ m \in Moves
    BY DEF TypeInv, LocalInv, Written
  <2>2. m.x \in Int /\ m.y \in Int
    BY <2>1, MovesAssumption
  <2>3. PICK v \in Int : /\ ins = [attr |-> attr, value |-> <<v, 1>>]
                         /\ \A other \in Insertions(m)[i] : other = ins
    <3>1. CASE i = 1
      BY <2>0, <2>1, <2>2, <3>1 DEF Insertions, SingleInv, AtMostOne
    <3>2. CASE i = 2
      BY <2>0, <2>1, <2>2, <3>2 DEF Insertions, SingleInv, AtMostOne
    <3>3. CASE i = 3
      BY <2>0, <2>1, <2>2, <3>3 DEF Insertions, SingleInv, AtMostOne
    <3> QED
      BY <3>1, <3>2, <3>3
  <2>4. attr \in Attributes
    <3>1. attr \in protocol.x \cup protocol.y \cup protocol.scroll
      BY <2>0 DEF Insertions
    <3> QED
      BY <3>1 DEF TypeInv, SetupInv
  <2>5. ins.value = <<v, 1>> /\ attr.offset \in Nat /\ attr.bit_sz \in Nat /\ len \in Nat
    BY <2>0, <2>3, <2>4 DEF Attributes, TypeInv, SetupInv
  <2>6. InUnitOf(attr, <<v, 1>>) # Impossible /\ InsertUintAccepts(len, attr)
    BY <2>0, <2>5 DEF Accepted, InsertAsUnitTypeAccepts, InsertAsUnitAccepts
  <2>7. PICK counts : counts = Counts(attr, <<v, 1>>)
    OBVIOUS
  <2>8. ASSUME NEW b \in 0 .. attr.bit_sz - 1
        PROVE  BitAt(wire(w), attr.offset + b) <=> Bit(counts, b)
    <3> DEFINE written == [attr |-> attr, counts |-> counts]
    <3>1. Writes(m, i) = {written}
      <4>1. attr.bit_sz > 0
        BY <2>5, <2>8
      <4>2. \A s \in Insertions(m)[i] : s = ins
        BY <2>3
      <4>3. {s \in Insertions(m)[i] : Accepted(s) /\ s.attr.bit_sz > 0} = {ins}
        BY <2>0, <2>1, <4>1, <4>2
      <4> QED
        BY <2>0, <2>5, <2>7, <4>3 DEF Writes
    <3>2. written.attr = attr /\ written.counts = counts
      OBVIOUS
    <3> HIDE DEF written
    <3>3. PICK p \in 1 .. Len(Encoding(m)) :
               /\ Encoding(m)[p] = written
               /\ \A q \in p + 1 .. Len(Encoding(m)) :
                    \E j \in i + 1 .. 3 : Encoding(m)[q] \in Writes(m, j)
      BY <3>1, EncodingAt
    <3>a. PICK o \in Nat, s \in Nat : o = attr.offset /\ s = attr.bit_sz /\ EndBit(attr) = o + s
      BY <2>5 DEF EndBit
    <3>b. b \in Nat /\ b < s
      BY <3>a
    <3>4. PICK n \in Nat : n = o + b /\ n - o = b
      BY <3>a, <3>b
    <3>5. n \in BitsOf(attr) /\ n \in ReportBits(len)
      <4>1. o + s <= len * 8
        BY <2>6, <3>a DEF InsertUintAccepts, FieldFits
      <4>2. n \in o .. o + s - 1 /\ n \in 0 .. len * 8 - 1
        <5>1. len * 8 \in Int
          BY <2>5
        <5>2. o <= n /\ n < o + s /\ n \in Nat
          BY <3>b, <3>4
        <5> QED
          BY <4>1, <5>1, <5>2
      <4> QED
        BY <3>a, <4>2 DEF BitsOf, ReportBits
    <3>6. \A j \in i + 1 .. 3 : \A later \in Writes(m, j) : n \notin BitsOf(later.attr)
      BY <2>0, <2>1, <3>5 DEF Overwritten
    <3>7. Decides(Encoding(m), p, n)
      BY <3>2, <3>3, <3>5, <3>6 DEF Decides
    <3>8. BitAt(wire(w), n) <=> Bit(Encoding(m)[p].counts, n - Encoding(m)[p].attr.offset)
      BY <2>0, <2>1, <3>5, <3>7 DEF AloneIsSequential, Encoded
    <3> QED
      BY <3>2, <3>3, <3>4, <3>8, <3>a
  <2>9. PICK n \in Int, d \in Int, one \in Int :
             /\ ExtractAsUnitType(wire(w), len, attr) = <<n, d>>
             /\ <<n, d>> # Impossible
             /\ OneCount(attr)[1] = one
             /\ n - v * d < one /\ -(n - v * d) < one
    BY <2>0, <2>4, <2>5, <2>6, <2>7, <2>8, FieldReadsBack
  <2> QED
    BY <2>0, <2>5, <2>9 DEF ReadsBack, ReadFromWire
<1> QED
  BY <1>1, SequentialHolds, SingleHolds, SendAloneIsAtomic, PTL
==================================================================================
