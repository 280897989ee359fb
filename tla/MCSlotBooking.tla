---------------------------- MODULE MCSlotBooking ----------------------------
(* Small instances of SlotBooking and SlotLists for TLC. *)
EXTENDS SlotLists, TLC

CONSTANTS s1, s2

\* A slot that starts at 0 is in the past as soon as the clock moves.
OneSlot == {s1}
StartOfOne == s1 :> 0

TwoSlots == {s1, s2}
StartOfTwo == s1 :> 0 @@ s2 :> 0

\* Users are never compared with anything but users, goroutines never with
\* anything but goroutines.
UsersAndHandlers == Permutations(Users) \union Permutations(Handlers)
UsersAndSlots == Permutations(Users) \union Permutations(Slots)
=============================================================================
