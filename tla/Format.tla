------------------------------- MODULE Format -------------------------------
(***************************************************************************)
(* lib/stdio.c: printf()'s conversions, vsnprintf() and hex_dump().        *)
(* Characters are one-letter strings, a format is a sequence of them, and  *)
(* arguments are numbers or sequences of characters (NullString is the     *)
(* null pointer).  An output function is modelled by the sequence of       *)
(* characters it is given.  Integer types have the widths Bits, scaled     *)
(* down from 8, 16, 32 and 64.                                             *)
(***************************************************************************)
EXTENDS Integers, Sequences, SequencesExt, FiniteSetsExt

NullString == <<"NULL">>
Bits == [CHAR |-> 3, SHORT |-> 4, INT |-> 6, LONG |-> 6, PTRDIFFT |-> 6,
         SIZET |-> 6, LONGLONG |-> 12, INTMAX |-> 12]
BufSize == 64            \* sizeof buf in format_integer
PerLine == 4             \* the 16 bytes per line of hex_dump

Decimal == <<"0", "1", "2", "3", "4", "5", "6", "7", "8", "9">>
base_d == [base |-> 10, digits |-> Decimal, x |-> <<>>, group |-> 3]
base_o == [base |-> 8, digits |-> Decimal, x |-> <<>>, group |-> 3]
base_x == [base |-> 16, digits |-> Decimal \o <<"a", "b", "c", "d", "e", "f">>,
           x |-> <<"0", "x">>, group |-> 4]
base_X == [base |-> 16, digits |-> Decimal \o <<"A", "B", "C", "D", "E", "F">>,
           x |-> <<"0", "X">>, group |-> 4]

Flags == {"-", "+", " ", "#", "0", "'"}
At(f, i) == IF i <= Len(f) THEN f[i] ELSE "NUL"
output_dup(ch, cnt) == IF cnt <= 0 THEN <<>> ELSE [k \in 1..cnt |-> ch]
\* The first position from i on whose character is not in S.
PastRun(f, i, S) == Min({j \in i..(Len(f) + 1) : At(f, j) \notin S})
ParseNumber(f, i, j) ==
  FoldLeft(LAMBDA n, ch : n * 10 + SelectInSeq(Decimal, LAMBDA d : d = ch) - 1, 0, SubSeq(f, i, j - 1))

\* A number or a `*' at i, the latter taken from the arguments.
ParseField(f, i, args) ==
  LET j == PastRun(f, i, Range(Decimal))
  IN  IF At(f, i) = "*" THEN [n |-> Head(args), i |-> i + 1, args |-> Tail(args)]
      ELSE [n |-> ParseNumber(f, i, j), i |-> j, args |-> args]

ParseType(f, i) ==
  LET one == At(f, i)
      two == At(f, i + 1)
  IN  CASE one = "h" /\ two = "h" -> [type |-> "CHAR", i |-> i + 2]
        [] one = "h" /\ two # "h" -> [type |-> "SHORT", i |-> i + 1]
        [] one = "l" /\ two = "l" -> [type |-> "LONGLONG", i |-> i + 2]
        [] one = "l" /\ two # "l" -> [type |-> "LONG", i |-> i + 1]
        [] one = "j" -> [type |-> "INTMAX", i |-> i + 1]
        [] one = "t" -> [type |-> "PTRDIFFT", i |-> i + 1]
        [] one = "z" -> [type |-> "SIZET", i |-> i + 1]
        [] OTHER -> [type |-> "INT", i |-> i]

\* Returns the conversion, the position of its letter, the other arguments.
parse_conversion(f, i, args) ==
  LET j == PastRun(f, i, Flags)
      given == {f[k] : k \in i..(j - 1)}
      flags == given \ ((IF "-" \in given THEN {"0"} ELSE {}) \cup
                        (IF "+" \in given THEN {" "} ELSE {}))
      w == ParseField(f, j, args)
      p == IF At(f, w.i) = "." THEN ParseField(f, w.i + 1, w.args)
           ELSE [n |-> -1, i |-> w.i, args |-> w.args]
      t == ParseType(f, p.i)
  IN  [c |-> [flags |-> (flags \cup (IF w.n < 0 THEN {"-"} ELSE {}))
                        \ (IF p.n >= 0 THEN {"0"} ELSE {}),
              width |-> IF w.n < 0 THEN -w.n ELSE w.n,
              precision |-> IF p.n < 0 THEN -1 ELSE p.n,
              type |-> t.type],
       i |-> t.i, args |-> p.args]

\* The digits of value, lowest first, with the commas of the GROUP flag.
RECURSIVE DigitsOf(_, _, _, _)
DigitsOf(value, cnt, b, grouped) ==
  IF value = 0 THEN <<>>
  ELSE (IF grouped /\ cnt > 0 /\ cnt % b.group = 0 THEN <<",">> ELSE <<>>)
       \o <<b.digits[(value % b.base) + 1]>>
       \o DigitsOf(value \div b.base, cnt + 1, b, grouped)

format_integer(value, is_signed, negative, b, c) ==
  LET sign == IF ~is_signed THEN <<>>
              ELSE IF negative THEN <<"-">>
              ELSE IF "+" \in c.flags THEN <<"+">>
              ELSE IF " " \in c.flags THEN <<" ">> ELSE <<>>
      x == IF "#" \in c.flags /\ value # 0 THEN b.x ELSE <<>>
      raw == DigitsOf(value, 0, b, "'" \in c.flags)
      precision == Min({IF c.precision < 0 THEN 1 ELSE c.precision, BufSize - 1})
      padded == raw \o output_dup("0", precision - Len(raw))
      buf == IF "#" \in c.flags /\ b.base = 8 /\ (padded = <<>> \/ Last(padded) # "0")
             THEN Append(padded, "0") ELSE padded
      pad_cnt == c.width - Len(buf) - Len(x) - Len(sign)
      Pad(ch, wanted) == IF wanted THEN output_dup(ch, pad_cnt) ELSE <<>>
  IN  Pad(" ", c.flags \cap {"-", "0"} = {}) \o sign \o x \o Pad("0", "0" \in c.flags)
      \o Reverse(buf) \o Pad(" ", "-" \in c.flags)

format_string(s, c) ==
  LET pad == output_dup(" ", c.width - Len(s))
  IN  IF "-" \in c.flags THEN s \o pad ELSE pad \o s

\* What a signed or an unsigned conversion takes its argument for.
AsSigned(v, type) == LET u == v % 2 ^ Bits[type]
                     IN  IF u >= 2 ^ (Bits[type] - 1) THEN u - 2 ^ Bits[type] ELSE u
AsUnsigned(v, type) == v % 2 ^ Bits[type]

Convert(letter, c, arg) ==
  CASE letter \in {"d", "i"} ->
         LET v == AsSigned(arg, c.type)
         IN  format_integer(IF v < 0 THEN -v ELSE v, TRUE, v < 0, base_d, c)
    [] letter \in {"o", "u", "x", "X"} ->
         LET b == [o |-> base_o, u |-> base_d, x |-> base_x, X |-> base_X]
         IN  format_integer(AsUnsigned(arg, c.type), FALSE, FALSE, b[letter], c)
    [] letter = "c" -> format_string(<<arg>>, c)
    [] letter = "s" ->
         LET s == IF arg = NullString THEN <<"(", "n", "u", "l", "l", ")">> ELSE arg
         IN  format_string(IF c.precision >= 0 /\ c.precision < Len(s)
                           THEN SubSeq(s, 1, c.precision) ELSE s, c)
    [] letter = "p" ->
         format_integer(AsUnsigned(arg, "LONG"), FALSE, FALSE, base_x,
                        [c EXCEPT !.flags = {"#"}])

Supported == {"d", "i", "o", "u", "x", "X", "c", "s", "p"}
NoConversion(letter) == <<"<<", letter, ">>">>     \* the two "<<no %c ...>>" texts

PastEnd == <<"PAST">>     \* what is printed of the memory after the terminator

\* A format that ends inside a conversion: the loop steps over the terminator.
RECURSIVE PrintFrom(_, _, _), PrintConversion(_, _)
PrintConversion(f, p) ==
  IF At(f, p.i) \in Supported
  THEN Convert(f[p.i], p.c, Head(p.args)) \o PrintFrom(f, p.i + 1, Tail(p.args))
  ELSE NoConversion(At(f, p.i))
       \o IF p.i > Len(f) THEN PastEnd ELSE PrintFrom(f, p.i + 1, p.args)
PrintFrom(f, i, args) ==
  IF i > Len(f) THEN <<>>
  ELSE IF f[i] # "%" THEN <<f[i]>> \o PrintFrom(f, i + 1, args)
  ELSE IF At(f, i + 1) = "%" THEN <<"%">> \o PrintFrom(f, i + 2, args)
  ELSE PrintConversion(f, parse_conversion(f, i + 1, args))
__vprintf(f, args) == PrintFrom(f, 1, args)

vsnprintf_helper_OneMore(aux, ch) ==
  [aux EXCEPT !.length = @ + 1,
              !.out = IF aux.length <= aux.max_length THEN Append(@, ch) ELSE @]
\* The buffer after vsnprintf(), and its result; "old" marks bytes not written.
vsnprintf_helper(aux, ch) ==
  [aux EXCEPT !.length = @ + 1,
              !.out = IF aux.length < aux.max_length THEN Append(@, ch) ELSE @]
vsnprintf(buf_size, f, args) ==
  LET aux == FoldLeft(vsnprintf_helper,
                      [out |-> <<>>, length |-> 0,
                       max_length |-> IF buf_size > 0 THEN buf_size - 1 ELSE 0],
                      __vprintf(f, args))
  IN  [buffer |-> IF buf_size > 0 THEN Append(aux.out, "NUL") ELSE aux.out,
       ret |-> aux.length]

\* The lines of a dump: their offset, blank columns, and the bytes shown.
RECURSIVE hex_dump(_, _, _)
hex_dump(ofs, buf, size) ==
  LET start == ofs % PerLine
      end == IF PerLine - start > size THEN start + size ELSE PerLine
      n == end - start
  IN  IF size = 0 THEN <<>>
      ELSE <<[ofs |-> ofs - start, blank |-> start, bytes |-> SubSeq(buf, 1, n)]>>
           \o hex_dump(ofs + n, SubSeq(buf, n + 1, Len(buf)), size - n)
=============================================================================
