----------------------------- MODULE MCRoutines -----------------------------
(* The routines that are checked call by call, and the string conversion,   *)
(* character by character.  A 12-bit unsigned int, 4095 = 10 * 409 + 5 =    *)
(* 16 * 256 - 1, with a short of 8 bits and a char of 4; command lines of   *)
(* up to four arguments; samples at the corners of their range; interrupt   *)
(* parameters that fill, exceed and miss the fields they are written to.    *)
EXTENDS RegTools, Mir3daFilter, Mir3daChip

MCArgs(chars, n) == [prefix : BOOLEAN, chars : UNION {[1..k -> chars] : k \in 0..n}]
MCLong  == MCArgs({1, 9, 15, Other}, 3)
MCShort == MCArgs({0, 9, 15}, 2) \cup [prefix : BOOLEAN, chars : {<<Other>>, <<1, 5, 9>>}]
MCLines ==
    {<<>>} \cup {<<a>> : a \in MCLong} \cup (MCLong \X MCLong)
           \cup (MCShort \X MCShort \X MCShort)
           \cup {<<a, a, a, b>> : a, b \in MCShort}

MCLevels  == {-2560, -801, -1, 0, 1, 5, 799, 800, 801, 2558}
MCLengths == {1, 2, 3, 8}

MCInit == StrInit /\ input = NoInput

\* A conversion goes on, or one of the other routines is called.
Convert   == input = NoInput /\ StrNext /\ UNCHANGED input
Call(set) == StrInit /\ input = NoInput /\ input' \in set /\ UNCHANGED strVars

MCNext ==
    \/ Convert
    \/ Call(ToolCalls) \/ Call(ProcCalls) \/ Call(FilterCalls) \/ Call(ChipCalls)

MCSpec == MCInit /\ [][MCNext]_<<strVars, input>>
=============================================================================
