---------------------------- MODULE OptionStore ----------------------------
(***************************************************************************)
(* What the configuration file promises (src/config.c): options that are   *)
(* set one at a time and read later, perhaps by the next process. It       *)
(* promises no more than this: all of them may be lost at once.            *)
(***************************************************************************)
CONSTANTS
    Options,    \* the names of the options
    Values,     \* of each option: what it may be set to
    Missing     \* what an option that is not in the file reads as

VARIABLE kept   \* what each option reads as

NothingKept == [o \in Options |-> Missing]

Init == kept = NothingKept

Set(o, v) == kept' = [kept EXCEPT ![o] = v]

Lose == kept' = NothingKept

Next == Lose \/ \E o \in Options : \E v \in Values[o] : Set(o, v)

Spec == Init /\ [][Next]_kept
=============================================================================
