-------------------------------- MODULE HIDReport -------------------------------
(***************************************************************************)
(* core/usb/hid-parser/report.cpp: reading the fields of a report and      *)
(* writing them.                                                           *)
(*                                                                         *)
(* A report is a function from the indices of its bytes to the bits set in *)
(* each of them. A field is described by an attribute: offset and bit_sz   *)
(* say where its bits are; logc and phys are the ranges of its counts and  *)
(* of its values, <<min, max>>; unit is the unit of the values.            *)
(***************************************************************************)
EXTENDS HIDUnits, FiniteSetsExt

Attributes == [unit : Unit, logc : Int \X Int, phys : Int \X Int, bit_sz : Nat, offset : Nat]

EndBit(attr) == attr.offset + attr.bit_sz

FieldFits(report_len, attr) == EndBit(attr) <= report_len * 8

Smaller(a, b) == IF a < b THEN a ELSE b

\* Mutant of BitCount: the bits left, whatever byte they are in.
BitCountToFieldEnd(attr, index_bit) == Smaller(8, EndBit(attr) - index_bit)

\* How many bits the loops take in one go: up to the end of the byte or of the field.
BitCount(attr, index_bit) == Smaller(8 - (index_bit % 8), EndBit(attr) - index_bit)

\* Bit i of an integer in two's complement.
Bit(value, i) == (value \div 2^i) % 2 = 1

\* Mutant of InsertBits: the value's bits are counted from its start in every byte.
InsertFirstBits(data, attr, value_in, index_bit) ==
    LET mask == (index_bit % 8) .. (index_bit % 8) + BitCount(attr, index_bit) - 1
    IN  (data \ mask) \cup {b \in mask : Bit(value_in, b - (index_bit % 8))}

\* Mutant of InsertBits: the value is not masked.
InsertUnmasked(data, attr, value_in, index_bit) ==
    LET mask == (index_bit % 8) .. (index_bit % 8) + BitCount(attr, index_bit) - 1
    IN  (data \ mask) \cup {b \in (index_bit % 8) .. 7 :
                              Bit(value_in, index_bit - attr.offset + b - (index_bit % 8))}

\* The body of InsertUint()'s loop: the byte at index_bit, whose value was data.
InsertBits(data, attr, value_in, index_bit) ==
    LET begin == index_bit % 8
        mask == begin .. begin + BitCount(attr, index_bit) - 1
    IN  (data \ mask) \cup {b \in mask : Bit(value_in, index_bit - attr.offset + b - begin)}

\* Where the loops are when they come to a byte of the field.
Stops(attr) == {i \in attr.offset .. EndBit(attr) - 1 : i = attr.offset \/ i % 8 = 0}

\* ExtractUint() into 32 bits, when the field fits: the bits of every stop, shifted
\* to their place.
ExtractUint(report, attr) ==
    LET mask(i) == (i % 8) .. (i % 8) + BitCount(attr, i) - 1
        bits(i) == {i - attr.offset + b - (i % 8) : b \in report[i \div 8] \cap mask(i)}
    IN  MapThenSumSet(LAMBDA b : 2^b, UNION {bits(i) : i \in Stops(attr)})

\* For 1 <= n_bits <= 31.
SignExtendFromNBits(data, n_bits) ==
    IF Bit(data, n_bits - 1) THEN data - 2^n_bits ELSE data

\* A range whose minimum is not negative has an unsigned maximum, whatever the sign of
\* the int32_t it is kept in. The descriptors of the runs have no such maximum: TLC does
\* not compute 2^32.
Widened(mm) == IF mm[1] < 0 \/ mm[2] >= 0 THEN mm ELSE <<mm[1], mm[2] + 2^32>>

\* The physical range, or the logical one when there is none.
PhysRange(attr) == Widened(IF attr.phys = <<0, 0>> THEN attr.logc ELSE attr.phys)

\* Counts per unit.
Resolution(attr) ==
    <<Widened(attr.logc)[2] - attr.logc[1], PhysRange(attr)[2] - PhysRange(attr)[1]>>

\* The value is compared with the maximum as it is kept (report.cpp:128-129).
ExtractAsUnit(report, report_len, attr) ==
    LET uint_out == ExtractUint(report, attr)
        val == IF attr.logc[1] < 0 THEN SignExtendFromNBits(uint_out, attr.bit_sz) ELSE uint_out
    IN  CASE attr.bit_sz > 32 \/ ~FieldFits(report_len, attr) -> Impossible
          [] OTHER -> IF val < attr.logc[1] \/ val > attr.logc[2] THEN Impossible
                      ELSE <<val * Resolution(attr)[2], Resolution(attr)[1]>>

ExtractAsUnitType(report, report_len, attr) ==
    LET val_out == ExtractAsUnit(report, report_len, attr)
    IN  IF val_out = Impossible THEN Impossible ELSE ConvertValToUnitType(attr.unit, val_out)

\* static_cast<int32_t> of a double: towards zero.
Truncate(q) == IF q[1] >= 0 THEN q[1] \div q[2] ELSE -((-q[1]) \div q[2])

\* q compared with an integer; denominators are positive.
Below(q, n) == q[1] < n * q[2]
Above(q, n) == q[1] > n * q[2]

-------------------------------------------------------------------------------
(* The insertions: whether they are refused, before anything is written,   *)
(* and which counts they write otherwise.                                  *)

InsertUintAccepts(report_len, attr) == attr.bit_sz <= 32 /\ FieldFits(report_len, attr)

InsertAsUnitAccepts(report_len, attr, value_in) ==
    /\ ~Below(value_in, PhysRange(attr)[1])
    /\ ~Above(value_in, PhysRange(attr)[2])
    /\ InsertUintAccepts(report_len, attr)

\* InsertAsUnitType(): value_in is in the unit of the type that is the closest one.
InUnitOf(attr, value_in) ==
    ConvertUnits(GetUnitFromUnitType(GetUnitTypeFromUnit(attr.unit)), value_in, attr.unit)

InsertAsUnitTypeAccepts(report_len, attr, value_in) ==
    /\ InUnitOf(attr, value_in) # Impossible
    /\ InsertAsUnitAccepts(report_len, attr, InUnitOf(attr, value_in))

Counts(attr, value_in) == Truncate(Scale(InUnitOf(attr, value_in), Resolution(attr)))
=================================================================================
