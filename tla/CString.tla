------------------------------- MODULE CString -------------------------------
(***************************************************************************)
(* The functions of src/stdlib.c on memory, strings and numerals, as       *)
(* operators on a memory m (address -> byte).  Bytes are ASCII codes.      *)
(*                                                                         *)
(* Left out: memcmp, the searches (strchr, strrchr), the classes of        *)
(* characters, rand and the functions that only return a constant.         *)
(***************************************************************************)
EXTENDS Integers, Sequences, FiniteSetsExt

CONSTANT LONG_MAX   \* the largest int and long, which are of one width

ASSUME LongAssumption == LONG_MAX \in Nat

NUL == 0
Tab == 9
Space == 32
Plus == 43
Minus == 45
Zero == 48
LetterX == {88, 120}

-----------------------------------------------------------------------------
(* Bytes. *)
memset(m, p, c, n) ==
    [a \in DOMAIN m |-> IF a \in p .. (p + n - 1) THEN c ELSE m[a]]

(* One turn of the loops: *d = *s. *)
Assigned(m, d, s) == [m EXCEPT ![d] = m[s]]

(* Byte after byte, from the first. *)
memcpy(m, d, s, n) ==
    LET copied[i \in 0 .. n] ==
            IF i = 0 THEN m
                     ELSE Assigned(copied[i - 1], d + i - 1, s + i - 1)
    IN  copied[n]

(* Byte after byte, from the last. *)
CopyDown(m, d, s, n) ==
    LET copied[i \in 0 .. n] ==
            IF i = 0 THEN m
                     ELSE Assigned(copied[i - 1], d + n - i, s + n - i)
    IN  copied[n]

(* Mutated form: the direction does not depend on the addresses. *)
AlwaysUp(d, s) == TRUE

MovesUp(d, s) == d < s

memmove(m, d, s, n) ==
    IF MovesUp(d, s) THEN memcpy(m, d, s, n) ELSE CopyDown(m, d, s, n)

-----------------------------------------------------------------------------
(* Strings.  An address is a string's when a NUL follows. *)
IsString(m, p) == \E a \in DOMAIN m : a >= p /\ m[a] = NUL

strlen(m, p) == Min({a \in DOMAIN m : a >= p /\ m[a] = NUL}) - p

strcpy(m, d, s) == memcpy(m, d, s, strlen(m, s) + 1)

(* At most n bytes, the rest of them filled with NULs; nothing ends a      *)
(* string that was cut.                                                    *)
strncpy(m, d, s, n) ==
    LET taken == Min({n, strlen(m, s)})
    IN  memset(memcpy(m, d, s, taken), d + taken, NUL, n - taken)

strcat(m, d, s) == strcpy(m, d + strlen(m, d), s)

(* Where the shorter string ends.  Also the mutated form of StopsAt: a     *)
(* comparison that does not stop at a difference.                          *)
StopsAtEnd(m, p, q) == Min({strlen(m, p), strlen(m, q)})

(* Where a comparison of strings stops: at a difference or at their end. *)
StopsAt(m, p, q) ==
    Min({i \in 0 .. StopsAtEnd(m, p, q) :
           m[p + i] = NUL \/ m[p + i] # m[q + i]})

strcmp(m, p, q) == LET i == StopsAt(m, p, q) IN m[p + i] - m[q + i]

(* n is decremented before each look, and once more when it is zero: a     *)
(* difference in the last of n characters is not seen, and two strings     *)
(* whose first n characters are equal are compared in the next one.        *)
strncmp(m, p, q, n) ==
    LET i == StopsAt(m, p, q)
    IN  IF i = n - 1 THEN 0
                     ELSE LET j == Min({i, n}) IN m[p + j] - m[q + j]

-----------------------------------------------------------------------------
(* Numerals. *)
SkipBlanks(m, p, blanks) == Min({a \in DOMAIN m : a >= p /\ m[a] \notin blanks})

SkipSign(m, p) == IF m[p] \in {Minus, Plus} THEN p + 1 ELSE p

NotADigit == 99

DigitOf(c) ==
    CASE c \in 48 .. 57  -> c - 48
      [] c \in 97 .. 102 -> c - 87
      [] c \in 65 .. 70  -> c - 55
      [] OTHER           -> NotADigit

(* Mutated form: a digit may be as large as the base. *)
UpToTheBase(c, base) == DigitOf(c) <= base

IsDigit(c, base) == DigitOf(c) < base

DigitsEnd(m, p, base) == Min({a \in DOMAIN m : a >= p /\ ~IsDigit(m[a], base)})

(* No result is tested: one that fits no long is undefined in C, and wraps *)
(* around in the instructions the loops are compiled to.                   *)
Wrapped(x) == ((x + LONG_MAX + 1) % (2 * (LONG_MAX + 1))) - (LONG_MAX + 1)

(* The digits from p to before q. *)
Value(m, p, q, base) ==
    LET value[a \in p .. q] ==
            IF a = p THEN 0 ELSE Wrapped(value[a - 1] * base + DigitOf(m[a - 1]))
    IN  value[q]

Signed(m, p, value) == IF m[p] = Minus THEN Wrapped(-value) ELSE value

atoi(m, p) ==
    LET start  == SkipBlanks(m, p, {Space})
        digits == SkipSign(m, start)
    IN  Signed(m, start, Value(m, digits, DigitsEnd(m, digits, 10), 10))

(* The base that base = 0 stands for, and where its digits start. *)
Prefix(m, p) ==
    CASE m[p] = Zero /\ m[p + 1] \in LetterX -> [base |-> 16, digits |-> p + 2]
      [] m[p] = Zero /\ m[p + 1] \notin LetterX -> [base |-> 8, digits |-> p + 1]
      [] OTHER -> [base |-> 10, digits |-> p]

(* The value, and the address that is stored in *endptr. *)
strtol(m, p, base) ==
    LET start  == SkipBlanks(m, p, {Space, Tab})
        text   == SkipSign(m, start)
        format == IF base = 0 THEN Prefix(m, text)
                              ELSE [base |-> base, digits |-> text]
        end    == DigitsEnd(m, format.digits, format.base)
    IN  [value |-> Signed(m, start, Value(m, format.digits, end, format.base)),
         end   |-> end]
=============================================================================
