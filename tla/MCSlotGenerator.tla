--------------------------- MODULE MCSlotGenerator ---------------------------
(* Small instances of SlotGenerator: a week of two days, a day of three    *)
(* slots the last of which no schedule reaches, a window of one week.       *)
EXTENDS SlotGenerator

EveryDay == [days |-> {1, 2}, start |-> 0, end |-> 4]
FirstDay == [days |-> {1}, start |-> 0, end |-> 4]
SecondDay == [days |-> {2}, start |-> 2, end |-> 4]
ThirdDay == [days |-> {3}, start |-> 0, end |-> 4]
OffGrid == [days |-> {1}, start |-> 1, end |-> 4]

\* Two requests for one room can both succeed, or be refused.
SomeInputs == {EveryDay, FirstDay, SecondDay, ThirdDay, OffGrid}
OneInput == {EveryDay}
=============================================================================
