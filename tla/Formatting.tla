------------------------------- MODULE Formatting -------------------------------
(***************************************************************************)
(* Numbers and texts put into strings by fmt() and numbers read back       *)
(* (os-std: fmt.hh, string.hh, math.hh).  A format string is built up      *)
(* piece by piece and printed into a String of limited capacity; texts     *)
(* are typed and read as numbers.                                          *)
(*                                                                         *)
(* A character is a one-letter string.  Formatting of characters,          *)
(* booleans, arrays and pointers, the text "<null>", and the flags o, b,   *)
(* M, G, T (which are like x and K) and ~ are left out.                    *)
(***************************************************************************)
EXTENDS Integers, Sequences, SequencesExt, FiniteSetsExt

CONSTANTS
  u64_max,      \* largest u64
  num_max,      \* largest value of the signed type that string_to_num reads
  unit,         \* 1024: a K in B, an M in K, ...
  capacity,     \* of the String that fmt() prints into
  Literals,     \* characters of format strings that stand for themselves
  FlagSets,     \* flags of the arguments
  arity,        \* number of arguments of a call
  ArgumentLists,\* the arguments that fmt() is called with
  max_pieces,   \* bound: pieces of a format string
  NumberChars,  \* characters of the texts that are read as numbers
  max_number    \* bound: their length

ASSUME FormatAssumption ==
  /\ u64_max \in Nat /\ num_max \in 0 .. u64_max /\ unit \in Nat \ {0, 1}
  /\ capacity \in Nat \ {0} /\ arity \in Nat \ {0} /\ max_pieces \in Nat /\ max_number \in Nat

VARIABLES
  pieces,       \* of the format string: a character, "{{", or the flags of an argument
  dest,         \* the String: the number of characters up to its NUL, and length_
  number        \* a text that is read as a number

formatVars == <<pieces, dest, number>>

-----------------------------------------------------------------------------
(* math.hh *)

pow(x, y) == x ^ y
logn(n, x) == LET f[y \in Nat] == IF y < n THEN 0 ELSE 1 + f[y \div n] IN f[x]
\* Mutant: a half is rounded down.
DivRoundDown(x, y) == IF x % y <= (IF y % 2 = 1 THEN y + 1 ELSE y) \div 2 THEN x \div y ELSE (x \div y) + 1
div_round(x, y) == IF x % y < (IF y % 2 = 1 THEN y + 1 ELSE y) \div 2 THEN x \div y ELSE (x \div y) + 1

-----------------------------------------------------------------------------
(* Formatting one argument: what is printed, and the count that is returned *)

DigitChars == <<"0", "1", "2", "3", "4", "5", "6", "7", "8", "9", "a", "b", "c", "d", "e", "f">>
Digits(n, radix) ==
  LET f[m \in Nat] == IF m < radix THEN <<DigitChars[m + 1]>> ELSE Append(f[m \div radix], DigitChars[(m % radix) + 1])
  IN  f[n]
Fill(c, n) == [i \in 1 .. Max({0, n}) |-> c]
SizeChars == <<"B", "K", "M", "G", "T", "P", "E">>

\* Flags, as parse_one leaves them; radix and scale are one union
NoFlags == [width |-> 0, radix |-> 10, left |-> FALSE, zero |-> FALSE, plus |-> FALSE, prefix |-> FALSE, unsign |-> FALSE, size |-> FALSE]

\* format(u64): padding counts the digits only, whatever stands before or behind them
FormatUnsigned(f, n, sign) ==
  LET scale  == IF f.radix = 0 THEN Min({logn(unit, n), 6}) ELSE f.radix
      digits == IF f.size THEN Digits(div_round(n, pow(unit, scale)), 10) ELSE Digits(n, f.radix)
      pad    == IF f.width = 0 THEN 0 ELSE f.width - Len(digits)
      marks  == (IF sign THEN <<"-">> ELSE IF f.plus THEN <<"+">> ELSE <<>>)
                \o (IF f.prefix THEN <<"0", IF f.radix = 16 THEN "x" ELSE "d">> ELSE <<>>)
      behind == IF f.size THEN <<" ", SizeChars[scale + 1]>> ELSE <<>>
  IN  [out   |-> Fill(" ", IF f.left \/ f.zero THEN 0 ELSE pad) \o marks
                 \o Fill("0", IF f.zero /\ ~f.left THEN pad ELSE 0) \o digits \o behind
                 \o Fill(" ", IF f.left THEN pad ELSE 0),
       count |-> Len(digits) + Len(marks) + Len(behind) + pad + (IF f.prefix THEN 2 ELSE 0)]

\* Mutant: the sign is lost.
FormatMagnitude(f, n) == FormatUnsigned(f, IF n >= 0 THEN n ELSE -n, FALSE)
\* format(s64)
FormatSigned(f, n) == IF n >= 0 THEN FormatUnsigned(f, n, FALSE) ELSE FormatUnsigned(f, -n, ~f.unsign)

\* Mutant: padding is printed, but not counted.
FormatTextUncounted(f, s) ==
  LET pad == IF f.width > Len(s) THEN Fill(" ", f.width - Len(s)) ELSE <<>>
  IN  [out |-> IF f.left THEN s \o pad ELSE pad \o s, count |-> Len(s)]
\* format(StringView)
FormatText(f, s) ==
  LET pad == IF f.width > Len(s) THEN Fill(" ", f.width - Len(s)) ELSE <<>>
      out == IF f.left THEN s \o pad ELSE pad \o s
  IN  [out |-> out, count |-> Len(out)]

Format(f, a) == IF a.kind = "text" THEN FormatText(f, a.value) ELSE FormatSigned(f, a.value)

-----------------------------------------------------------------------------
(* The parser of format strings *)

Numeral(c) == SelectInSeq(DigitChars, LAMBDA d : d = c) - 1

\* One flag inside braces
Flag(f, c) ==
  CASE c = "0" /\ f.width = 0 -> [f EXCEPT !.zero = TRUE]
    [] c = "r" /\ f.width > 1 -> [f EXCEPT !.radix = f.width, !.width = 0]
    [] Numeral(c) \in 0 .. 9 /\ ~(c = "0" /\ f.width = 0) -> [f EXCEPT !.width = (@ * 10) + Numeral(c)]
    [] c = "u" -> [f EXCEPT !.unsign = TRUE]
    [] c = "x" -> [f EXCEPT !.unsign = TRUE, !.radix = 16]
    [] c = "S" -> [f EXCEPT !.size = TRUE, !.radix = 0]
    [] c = "K" -> [f EXCEPT !.size = TRUE, !.radix = 1]
    [] c = "-" -> [f EXCEPT !.left = TRUE]
    [] c = "+" -> [f EXCEPT !.plus = TRUE]
    [] c = "#" -> [f EXCEPT !.prefix = TRUE]
    [] OTHER   -> f

ParseStep(r, c) ==
  CASE r.done -> r
    [] ~r.done /\ r.in_brace /\ c = "}" -> [r EXCEPT !.skip = @ + 1, !.write_arg = TRUE, !.done = TRUE]
    [] ~r.done /\ r.in_brace /\ c = "{" -> [r EXCEPT !.write = @ + 1, !.skip = 1, !.done = TRUE]
    [] ~r.done /\ r.in_brace /\ c \notin {"{", "}"} -> [r EXCEPT !.skip = @ + 1, !.flags = Flag(@, c)]
    [] ~r.done /\ ~r.in_brace /\ c = "{" -> [r EXCEPT !.skip = @ + 1, !.in_brace = TRUE]
    [] OTHER -> [r EXCEPT !.write = @ + 1]

parse_one(s) ==
  FoldLeft(ParseStep, [write |-> 0, skip |-> 0, write_arg |-> FALSE, done |-> FALSE, in_brace |-> FALSE, flags |-> NoFlags], s)

\* Mutant: an escaped brace ends the argument's part of the format string.
AfterEscapeStops(s, a) == [out |-> <<>>, count |-> 0, rest |-> s]

RECURSIVE format_one(_, _)
\* What follows an escaped brace
AfterEscape(s, a) == format_one(s, a)
format_one(s, a) ==
  LET r    == parse_one(s)
      rest == SubSeq(s, r.write + r.skip + 1, Len(s))
      text == SubSeq(s, 1, r.write)
      more == IF r.write_arg THEN Format(r.flags, a) ELSE AfterEscape(rest, a)
  IN  IF s = <<>> THEN [out |-> <<>>, count |-> 0, rest |-> <<>>]
      ELSE [out |-> text \o more.out, count |-> r.write + more.count, rest |-> IF r.write_arg THEN rest ELSE more.rest]

RECURSIVE run_format(_, _)
run_format(s, args) ==
  LET one  == format_one(s, Head(args))
      more == IF Len(args) = 1 THEN [out |-> one.rest, count |-> Len(one.rest)] ELSE run_format(one.rest, Tail(args))
  IN  [out |-> one.out \o more.out, count |-> one.count + more.count]

\* fmt() into the free rest of a String: what does not fit is cut, but counted
Printed(d, r) == [used |-> Min({capacity, d.used + Len(r.out)}), length |-> d.length + r.count]

-----------------------------------------------------------------------------
(* Numbers read back *)

FAILED == [ok |-> FALSE, value |-> 0]

\* Mutant: a digit that overflows is dropped.
ReadDigitUnchecked(x, c) ==
  IF ~x.ok \/ Numeral(c) \notin 0 .. 9 THEN FAILED
  ELSE [ok |-> TRUE, value |-> ((x.value * 10) + Numeral(c)) % (u64_max + 1)]
\* A digit of string_to_u64, with safe_mul and safe_add
ReadDigit(x, c) ==
  IF ~x.ok \/ Numeral(c) \notin 0 .. 9 \/ (x.value * 10) + Numeral(c) > u64_max THEN FAILED
  ELSE [ok |-> TRUE, value |-> (x.value * 10) + Numeral(c)]

string_to_u64(s) == IF s = <<>> THEN FAILED ELSE FoldLeft(ReadDigit, [ok |-> TRUE, value |-> 0], s)

string_to_num(s) ==
  LET signed == s # <<>> /\ s[1] \in {"+", "-"}
      x == string_to_u64(IF signed THEN Tail(s) ELSE s)
  IN  IF ~x.ok \/ x.value > num_max THEN FAILED
      ELSE [ok |-> TRUE, value |-> IF signed /\ s[1] = "-" THEN -x.value ELSE x.value]

-----------------------------------------------------------------------------
FormatInit ==
  /\ pieces = <<>> /\ dest = [used |-> 0, length |-> 0] /\ number = <<>>

\* How a format string is written
FlagText(f) ==
  (IF f.left THEN <<"-">> ELSE <<>>) \o (IF f.plus THEN <<"+">> ELSE <<>>) \o (IF f.prefix THEN <<"#">> ELSE <<>>)
  \o (IF f.zero THEN <<"0">> ELSE <<>>) \o (IF f.width = 0 THEN <<>> ELSE Digits(f.width, 10))
  \o (IF f.radix = 16 THEN <<"x">> ELSE <<>>) \o (IF f.size THEN <<"S">> ELSE <<>>)
PieceText(p) ==
  CASE p.kind = "char"   -> <<p.char>>
    [] p.kind = "escape" -> <<"{", "{">>
    [] p.kind = "arg"    -> <<"{">> \o FlagText(p.flags) \o <<"}">>
FormatString == FlattenSeq([i \in DOMAIN pieces |-> PieceText(pieces[i])])

ArgPlaces == {i \in DOMAIN pieces : pieces[i].kind = "arg"}

\* fmt is called with as many arguments as the format has places, and no brace is escaped
\* behind the last: the tail of a format is printed as it is.
WellFormed == Cardinality(ArgPlaces) = arity
Write(p) ==
  /\ Len(pieces) < max_pieces
  /\ p.kind = "arg" => ~WellFormed
  /\ p.kind = "escape" => ~WellFormed
  /\ pieces' = Append(pieces, p)
  /\ UNCHANGED <<dest, number>>

\* What the count needs to be right: fields are wide enough for every number, none shows its radix,
\* and there is room.
Careful(r) ==
  /\ \A i \in ArgPlaces : LET f == pieces[i].flags IN ~f.prefix /\ (f.width = 0 \/ f.width >= Len(Digits(u64_max, 10)))
  /\ dest.used + Len(r.out) <= capacity

\* fmt(String, format, arguments)
Fmt(arguments) ==
  /\ WellFormed
  /\ \E r \in {run_format(FormatString, arguments)} : Careful(r) /\ dest' = Printed(dest, r)
  /\ pieces' = <<>>
  /\ UNCHANGED number

TypeNumber(c) ==
  /\ pieces = <<>> /\ dest.length = 0 /\ Len(number) < max_number
  /\ number' = Append(number, c)
  /\ UNCHANGED <<pieces, dest>>

Pieces == [kind : {"char"}, char : Literals] \cup [kind : {"escape"}] \cup [kind : {"arg"}, flags : FlagSets]
FormatNext ==
  \/ number = <<>> /\ ((\E p \in Pieces : Write(p)) \/ \E arguments \in ArgumentLists : Fmt(arguments))
  \/ \E c \in NumberChars : TypeNumber(c)

-----------------------------------------------------------------------------
(* Properties *)

\* What a format with its arguments means: every piece by itself, in order
ArgOf(i, arguments) == arguments[Cardinality({j \in ArgPlaces : j <= i})]
Meaning(i, arguments) ==
  CASE pieces[i].kind = "char"   -> <<pieces[i].char>>
    [] pieces[i].kind = "escape" -> <<"{">>
    [] pieces[i].kind = "arg"    -> Format(pieces[i].flags, ArgOf(i, arguments)).out

\* fmt (fmt.hh:403) prints what its format string means: the parser finds every argument,
\* with the flags that were written for it, and every other character once.
FormatsAreUnderstood ==
  WellFormed =>
    \A arguments \in ArgumentLists :
      run_format(FormatString, arguments).out = FlattenSeq([i \in DOMAIN pieces |-> Meaning(i, arguments)])

\* The number of a sequence of digits
ValueOf(digits, radix) == FoldLeft(LAMBDA x, c : (x * radix) + Numeral(c), 0, digits)
DigitsIn(s) == SelectSeq(s, LAMBDA c : Numeral(c) >= 0)

\* A number keeps its value with every radix and padding, fills its field, and its shortest
\* form is read back as that number (fmt.hh:118, string.hh:463).
NumbersKeepTheirValue ==
  \A i \in ArgPlaces, arguments \in ArgumentLists :
    LET f == pieces[i].flags
        a == ArgOf(i, arguments)
        r == Format(f, a).out
    IN  i = Len(pieces) /\ a.kind = "number" /\ ~f.size /\ ~f.prefix
          => /\ ValueOf(DigitsIn(r), f.radix) = (IF a.value < 0 THEN -a.value ELSE a.value)
             /\ Len(r) >= f.width
             /\ f.width = 0 /\ f.radix = 10 /\ ~f.unsign /\ a.value \in -num_max .. num_max
                  => string_to_num(r) = [ok |-> TRUE, value |-> a.value]

\* A size is shown in the largest unit that does not exceed it, to the nearest whole number.
SizesAreNear ==
  \A i \in ArgPlaces, arguments \in ArgumentLists :
    LET a == ArgOf(i, arguments)
        r == Format(pieces[i].flags, a).out
        u == pow(unit, SelectInSeq(SizeChars, LAMBDA c : c = Last(r)) - 1)
        d == ValueOf(DigitsIn(SubSeq(r, 1, Len(r) - 1)), 10) * u
    IN  i = Len(pieces) /\ a.kind = "number" /\ pieces[i].flags = [NoFlags EXCEPT !.size = TRUE, !.radix = 0] /\ a.value > 0
          => u <= a.value /\ 2 * (d - a.value) \in -u .. u /\ 2 * (a.value - d) # u

\* A text is read as a number exactly if it is one that fits (string.hh:443, 463).
NumbersAreRead ==
  LET digits == IF number # <<>> /\ number[1] \in {"+", "-"} THEN Tail(number) ELSE number
      value  == ValueOf(digits, 10)
      result == string_to_num(number)
  IN  /\ result.ok <=> digits # <<>> /\ (\A i \in DOMAIN digits : Numeral(digits[i]) >= 0) /\ value <= num_max
      /\ result.ok => result.value = (IF number[1] = "-" THEN -value ELSE value)

\* length_ of a String that fmt printed into is the number of characters in it (string.hh:490).
LengthIsTrue == dest.length = dest.used

\* What is printed can be read back, and is counted (fmt.hh, string.hh).
TextIsTrue == FormatsAreUnderstood /\ NumbersKeepTheirValue /\ SizesAreNear /\ NumbersAreRead /\ LengthIsTrue
=============================================================================
