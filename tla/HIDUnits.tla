-------------------------------- MODULE HIDUnits --------------------------------
(***************************************************************************)
(* core/usb/hid-parser/units.cpp: what the units of a report field mean    *)
(* and how a value is converted from one unit to another.                  *)
(*                                                                         *)
(* The 32 bits of Unit.type are its eight nibbles. A double is a rational, *)
(* <<numerator, denominator>>, and the factors of the code, which have six *)
(* digits, are fractions with small terms: rounding is left out.           *)
(***************************************************************************)
EXTENDS Integers, Sequences

\* From bit 0 upwards; the last one has no meaning, but takes part in comparisons.
Nibbles == {"system", "length", "mass", "time", "temperature", "current",
            "luminous", "unused"}

Unit == [type : [Nibbles -> 0..15], exp : Int]

NoType == [n \in Nibbles |-> 0]

\* The answer of a conversion that returns false.
Impossible == <<0, 0>>

Scale(val, q) == <<val[1] * q[1], val[2] * q[2]>>

\* pow(), with an integer for the exponent.
Power(q, e) ==
    LET factor == IF e >= 0 THEN q ELSE <<q[2], q[1]>>
        times == IF e >= 0 THEN e ELSE -e
        product[n \in 0..times] == IF n = 0 THEN <<1, 1>> ELSE Scale(product[n - 1], factor)
    IN  product[times]

\* SignExtendFromNibble(): bit 3 of a nibble is its sign.
Exponent(unit, n) == IF unit.type[n] > 7 THEN unit.type[n] - 16 ELSE unit.type[n]

GetSystem(unit) ==
    LET s == unit.type["system"]
    IN  IF s \in 1..4 THEN <<"si_linear", "si_rotation", "eng_linear", "eng_rotation">>[s]
        ELSE "reserved"

Si == {"si_linear", "si_rotation"}
Eng == {"eng_linear", "eng_rotation"}

SameButSystem(unit_in, unit_out) ==
    \A n \in Nibbles \ {"system"} : unit_in.type[n] = unit_out.type[n]

\* The pairs of systems between which lengths are converted: one unit of the
\* first is this many of the second.
LengthFactor ==
    [systems \in {<<"si_linear", "eng_linear">>, <<"eng_linear", "si_linear">>,
                  <<"eng_rotation", "si_rotation">>, <<"si_rotation", "eng_rotation">>} |->
        CASE systems[1] = "si_linear" -> <<100, 254>>
          [] systems[1] = "eng_linear" -> <<254, 100>>
          [] systems[1] = "eng_rotation" -> <<71, 4068>>
          [] systems[1] = "si_rotation" -> <<4068, 71>>]

CanConvertUnits(unit_in, unit_out) ==
    LET systems == <<GetSystem(unit_in), GetSystem(unit_out)>>
        lengths == unit_in.type["length"] # 0 \/ unit_out.type["length"] # 0
    IN  CASE lengths /\ systems[1] = systems[2] -> unit_in.type = unit_out.type
          [] lengths /\ systems[1] # systems[2] ->
               systems \in DOMAIN LengthFactor /\ SameButSystem(unit_in, unit_out)
          [] OTHER -> SameButSystem(unit_in, unit_out)

ConvertDistance(val, unit_in, unit_out) ==
    LET systems == <<GetSystem(unit_in), GetSystem(unit_out)>>
        e == Exponent(unit_in, "length")
    IN  CASE e = 0 \/ systems[1] = systems[2] -> val
          [] e # 0 /\ systems \in DOMAIN LengthFactor ->
               Scale(val, Power(LengthFactor[systems], e))
          [] OTHER -> Impossible

ConvertMass(val, unit_in, unit_out) ==
    LET in == GetSystem(unit_in)
        out == GetSystem(unit_out)
        e == Exponent(unit_in, "mass")
    IN  CASE e = 0 \/ in = out -> val
          [] e # 0 /\ in \in Si /\ out \in Eng -> Scale(val, Power(<<10, 145939>>, e))
          [] e # 0 /\ in \in Eng /\ out \in Si -> Scale(val, Power(<<145939, 10>>, e))
          [] OTHER -> Impossible

\* The scales have different zeros, whatever the exponent of the temperature is.
ConvertTemperature(val, unit_in, unit_out) ==
    LET in == GetSystem(unit_in)
        out == GetSystem(unit_out)
        e == Exponent(unit_in, "temperature")
    IN  CASE e = 0 \/ in = out -> val
          [] e # 0 /\ in \in Si /\ out \in Eng ->
               <<(val[1] * 100 - 27315 * val[2]) * 9 + 32 * 500 * val[2], val[2] * 500>>
          [] e # 0 /\ in \in Eng /\ out \in Si ->
               <<(val[1] - 32 * val[2]) * 500 + 27315 * 9 * val[2], val[2] * 900>>
          [] OTHER -> Impossible

ConvertUnits(unit_in, val_in, unit_out) ==
    LET val == Scale(val_in, Power(<<10, 1>>, unit_in.exp - unit_out.exp))
        distance == ConvertDistance(val, unit_in, unit_out)
        mass == ConvertMass(distance, unit_in, unit_out)
    IN  CASE ~CanConvertUnits(unit_in, unit_out) -> Impossible
          [] unit_in.type = unit_out.type -> val
          [] distance = Impossible -> Impossible
          [] mass = Impossible -> Impossible
          [] OTHER -> ConvertTemperature(mass, unit_in, unit_out)

-------------------------------------------------------------------------------
(* The units in which the program's values are.                            *)

MakeUnit(system, exponents, exp) ==
    [type |-> [n \in Nibbles |-> CASE n = "system" -> system
                                   [] n \in DOMAIN exponents -> exponents[n] % 16
                                   [] OTHER -> 0],
     exp |-> exp]

\* defined_units, in the order in which they are searched.
DefinedUnits ==
    <<[type |-> "Distance", unit |-> MakeUnit(1, [length |-> 1], -4)],
      [type |-> "Weight", unit |-> MakeUnit(1, [mass |-> 1], -3)],
      [type |-> "Rotation", unit |-> MakeUnit(4, [length |-> 1], -4)],
      [type |-> "AngularVelocity", unit |-> MakeUnit(2, [length |-> 1, time |-> -1], -3)],
      [type |-> "LinearVelocity", unit |-> MakeUnit(1, [length |-> 1, time |-> -1], -1)],
      [type |-> "Acceleration", unit |-> MakeUnit(1, [length |-> 1, time |-> -2], -1)],
      [type |-> "MagneticFlux",
       unit |-> MakeUnit(1, [mass |-> 1, current |-> -1, time |-> -2], 1)],
      [type |-> "Light", unit |-> MakeUnit(1, [luminous |-> 1], 0)],
      [type |-> "Lux", unit |-> MakeUnit(1, [luminous |-> 1, length |-> -2], -2)],
      [type |-> "Pressure",
       unit |-> MakeUnit(1, [mass |-> 1, length |-> 1, time |-> -2], -2)]>>

First(s, Test(_)) ==
    CHOOSE i \in DOMAIN s : Test(s[i]) /\ \A j \in 1 .. i - 1 : ~Test(s[j])

GetUnitTypeFromUnit(unit) ==
    LET Convertible(d) == CanConvertUnits(d.unit, unit)
    IN  CASE \E i \in DOMAIN DefinedUnits : Convertible(DefinedUnits[i]) ->
               DefinedUnits[First(DefinedUnits, Convertible)].type
          [] OTHER -> IF unit.type = NoType THEN "None" ELSE "Other"

\* "None" and "Other" have no entry: the unit of all zeros.
GetUnitFromUnitType(type) ==
    LET Named(d) == d.type = type
    IN  IF \E i \in DOMAIN DefinedUnits : Named(DefinedUnits[i])
        THEN DefinedUnits[First(DefinedUnits, Named)].unit
        ELSE [type |-> NoType, exp |-> 0]

\* The first defined unit to which the conversion succeeds, else the value as it is.
ConvertValToUnitType(unit_in, val_in) ==
    LET Converts(d) == ConvertUnits(unit_in, val_in, d.unit) # Impossible
    IN  IF \E i \in DOMAIN DefinedUnits : Converts(DefinedUnits[i])
        THEN ConvertUnits(unit_in, val_in, DefinedUnits[First(DefinedUnits, Converts)].unit)
        ELSE val_in
=================================================================================
