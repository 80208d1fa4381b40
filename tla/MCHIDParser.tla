------------------------------ MODULE MCHIDParser -------------------------------
(* The streams for TLC: the items, named as in item.h.                     *)
EXTENDS HIDParser

LOCAL I(h, d) == [header |-> h, data |-> d]

\* Collections, identifiers, the state stack and two kinds of fields.
LayoutItems ==
    {I(161, 1), I(161, 0),   \* Collection (Application), Collection (Physical)
     I(192, 0),              \* End Collection
     I(133, 1), I(133, 2),   \* Report Id
     I(149, 2), I(117, 3),   \* Report Count, Report Size
     I(164, 0), I(180, 0),   \* Push, Pop
     I(129, 2), I(145, 2)}   \* Input, Output

\* Every handler, and what each one rejects.
UsageItems ==
    {I(161, 1), I(161, 9), I(192, 0), I(193, 1),   \* Collection, End Collection
     I(129, 2), I(129, 0),                         \* Input, Input (Array)
     I(5, 9), I(7, 65536),                         \* Usage Page
     I(21, 129), I(37, 255),                       \* Logical Minimum, Maximum
     I(53, 255), I(69, 1), I(85, 14), I(101, 1),   \* Physical, Unit Exponent, Unit
     I(118, 256), I(149, 3), I(151, 65536),        \* Report Size, Count
     I(133, 0), I(134, 256), I(180, 0),            \* Report Id, Pop
     I(9, 1), I(9, 5), I(25, 2), I(41, 3),         \* Usage, Usage Minimum, Maximum
     I(27, 65536), I(57, 0), I(0, 0), I(12, 0),    \* out of range, Designator, reserved
     I(254, 0)}                                    \* a long item
================================================================================
