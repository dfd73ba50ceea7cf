------------------------------- MODULE StrFunc -------------------------------
(***************************************************************************)
(* The string conversion of Other/gpio_i2c/strfunc.c: StrToNumber looks at *)
(* the prefix and runs atoul or atoulx, which add one character at a time  *)
(* to an unsigned accumulator.  The accumulator holds 0..10 * X + 5, the   *)
(* code has X = 429496729 and Y = 0x10000000; any other width a multiple   *)
(* of 4 bits has an X and a Y of the same form, so a small one is checked  *)
(* and all of them are proved.  "exact" is the number the string denotes.  *)
(***************************************************************************)
EXTENDS Integers

CONSTANTS
    X,            \* the decimal limit of atoul
    Y,            \* the hexadecimal limit of atoulx
    Other         \* a character that is no digit of the base

ASSUME StrConstants ==
    /\ X \in Nat /\ Y \in Nat \ {0}
    /\ 10 * X + 6 = 16 * Y
    /\ Other \notin Int

Modulus == 10 * X + 6          \* of unsigned int

VARIABLES
    status,       \* "start", "hex" (nothing after 0x yet), "loop", "ok", "error"
    base,         \* 10 or 16
    ulResult,     \* the accumulator
    exact,        \* the number the characters read so far denote
    reject        \* the character atoul or atoulx returned -1 at

strVars == <<status, base, ulResult, exact, reject>>

NoChar == -1
Digits == 0..(base - 1)

StrInit ==
    /\ status = "start" /\ base = 10
    /\ ulResult = 0 /\ exact = 0
    /\ reject = NoChar

\* StrToNumber: a string that begins 0x or 0X goes to atoulx without them.
StrToNumber ==
    /\ status = "start"
    /\ \/ base' = 16 /\ status' = "hex"
       \/ base' = 10 /\ status' = "loop"
    /\ UNCHANGED <<ulResult, exact, reject>>

\* "0x" and nothing else.
EmptyHex ==
    /\ status = "hex"
    /\ status' = "error"
    /\ UNCHANGED <<base, ulResult, exact, reject>>

\* The overflow test of each loop, before the next digit d is added.
\* Variant: the last decimal digit one too far.
Fits_OffByOne(d) ==
    IF base = 10 THEN ulResult < X \/ (ulResult = X /\ d < 7) ELSE ulResult < Y
Fits(d) ==
    IF base = 10 THEN ulResult < X \/ (ulResult = X /\ d < 6) ELSE ulResult < Y

Accept(d) ==
    /\ status \in {"hex", "loop"} /\ d \in Digits
    /\ Fits(d)
    /\ ulResult' = (ulResult * base + d) % Modulus
    /\ exact' = exact * base + d
    /\ status' = "loop"
    /\ UNCHANGED <<base, reject>>

TooBig(d) ==
    /\ status \in {"hex", "loop"} /\ d \in Digits
    /\ ~Fits(d)
    /\ status' = "error" /\ reject' = d
    /\ UNCHANGED <<base, ulResult, exact>>

BadCharacter ==
    /\ status \in {"hex", "loop"}
    /\ status' = "error" /\ reject' = Other
    /\ UNCHANGED <<base, ulResult, exact>>

EndOfString ==
    /\ status = "loop"
    /\ status' = "ok"
    /\ UNCHANGED <<base, ulResult, exact, reject>>

StrNext ==
    \/ StrToNumber \/ EmptyHex \/ BadCharacter \/ EndOfString
    \/ \E d \in 0..15 : Accept(d) \/ TooBig(d)

StrSpec == StrInit /\ [][StrNext]_strVars

StrTypeOK ==
    /\ status \in {"start", "hex", "loop", "ok", "error"}
    /\ base \in {10, 16}
    /\ ulResult \in 0..(Modulus - 1) /\ exact \in Nat
    /\ reject \in (-1..15) \cup {Other}

\* The accumulator never wraps: a string StrToNumber accepts has the value it returns.
Exact == ulResult = exact

\* A digit is refused only when the number would not fit 32 bits.
RefusesOnlyTooBig ==
    status = "error" /\ reject \notin {NoChar, Other} => exact * base + reject >= Modulus

\* atoul and atoulx: they accept the numbers that fit and no others.
AcceptsWhatFits == Exact /\ RefusesOnlyTooBig
=============================================================================
