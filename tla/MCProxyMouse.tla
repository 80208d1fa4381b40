------------------------------ MODULE MCProxyMouse ------------------------------
(***************************************************************************)
(* Mice for the runs of ProxyMouse, which differ in what makes writing a   *)
(* report hard.                                                            *)
(***************************************************************************)
EXTENDS ProxyMouse, TLC

\* The workers are alike.
Symmetry == Permutations(Workers)

NoUnit == [type |-> NoType, exp |-> 0]
CentiInch == MakeUnit(3, [length |-> 1], -2)     \* converted to Distance
TenthOfMillimetre == MakeUnit(1, [length |-> 1], -2)
GramOfRotation == MakeUnit(2, [mass |-> 1], -3)  \* a Weight that is not converted

Attr(offset, bit_sz, logc, phys, unit) ==
    [unit |-> unit, logc |-> logc, phys |-> phys, bit_sz |-> bit_sz, offset |-> offset]

Plain(offset, bit_sz, max) == Attr(offset, bit_sz, <<-max, max>>, <<0, 0>>, NoUnit)

F(usage, attr) == [usage |-> usage, absolute |-> FALSE, attr |-> attr]
Absolute(usage, attr) == [usage |-> usage, absolute |-> TRUE, attr |-> attr]

Buttons(offset, n) ==
    [i \in 1..n |-> F("button", Attr(offset + i - 1, 1, <<0, 1>>, <<0, 0>>, NoUnit))]

Rep(id, size, fields) == [report_id |-> id, input_byte_sz |-> size, fields |-> fields]

\* Bytes for everything, no report ID.
ByteMouse ==
    <<Rep(0, 3, Buttons(0, 5) \o <<F("X", Plain(8, 8, 127)), F("Y", Plain(16, 8, 127))>>)>>

\* Twelve bits, so that Y and X share a byte; a value is two counts.
TwelveBitMouse ==
    <<Rep(1, 4, <<F("Y", Attr(8, 12, <<-1000, 1000>>, <<-500, 500>>, NoUnit)),
                  F("X", Attr(20, 12, <<-1000, 1000>>, <<-500, 500>>, NoUnit))>>)>>

\* The wheel that is chosen is that of the first report, in the place of X.
ComboMouse == <<Rep(1, 2, <<F("wheel", Plain(8, 8, 127)), F("other", Plain(8, 8, 127))>>),
                Rep(2, 3, <<F("X", Plain(8, 8, 127)), F("Y", Plain(16, 8, 127))>>)>>

\* Absolute and unsigned fields beside a relative one, Y below X.
Tablet == <<Rep(0, 4, <<F("X", Plain(24, 8, 127)),
                        Absolute("X", Attr(16, 16, <<0, 1000>>, <<0, 0>>, NoUnit)),
                        Absolute("Y", Attr(3, 10, <<0, 1000>>, <<0, 500>>, NoUnit))>>)>>

\* Physical units, the counts of Y in too few bits.
InchMouse == <<Rep(0, 2, <<F("X", Attr(0, 5, <<-10, 10>>, <<0, 0>>, CentiInch)),
                           F("Y", Attr(5, 5, <<-40, 40>>, <<0, 0>>, TenthOfMillimetre)),
                           F("wheel", Attr(10, 5, <<-10, 10>>, <<0, 0>>, GramOfRotation))>>)>>

\* An exponent without a unit, and with no more of it than the system.
TenthOfNothing == [NoUnit EXCEPT !.exp = -1]
TenOfNothing == [NoUnit EXCEPT !.type["system"] = 1, !.exp = 1]
ScaledMouse == <<Rep(0, 2, <<F("X", Attr(0, 8, <<-127, 127>>, <<0, 0>>, TenthOfNothing)),
                             F("Y", Attr(8, 8, <<-127, 127>>, <<0, 0>>, TenOfNothing))>>)>>

NoMouse == <<Rep(0, 1, <<F("wheel", Plain(0, 8, 127)), F("other", Plain(0, 8, 127))>>)>>

AllMice == {ByteMouse, TwelveBitMouse, ComboMouse, Tablet, InchMouse, ScaledMouse, NoMouse}
UnitMice == {InchMouse, ScaledMouse}

\* Small ones, negative ones, one that is too large for most of the mice.
SomeMoves == {[x |-> 3, y |-> -5], [x |-> 800, y |-> -300], [x |-> -70, y |-> 90]}
=================================================================================
