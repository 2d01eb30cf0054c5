------------------------------- MODULE Format -------------------------------
(***************************************************************************)
(* The formatting behind printf, lib/stdio.c.  A string is a sequence of   *)
(* characters, a character a one-letter string; "" stands for the null     *)
(* byte that ends one.  Types have Bits[type] bits.  An argument list is a *)
(* sequence of integers and, for %s, of strings.                           *)
(***************************************************************************)
EXTENDS Integers, Sequences, SequencesExt

CONSTANTS Bits,       \* the width of each integer type
          BUF_SIZE    \* sizeof buf in format_integer, 64

base_d == [base |-> 10, x |-> "", group |-> 3]
base_o == [base |-> 8, x |-> "", group |-> 3]
base_x == [base |-> 16, x |-> "x", group |-> 4]
base_X == [base |-> 16, x |-> "X", group |-> 4]
DigitChars == <<"0","1","2","3","4","5","6","7","8","9","a","b","c","d","e","f">>
digits(b, d) ==
  IF b.x = "X" /\ d >= 10 THEN <<"A","B","C","D","E","F">>[d - 9] ELSE DigitChars[d + 1]

\* *format, and isdigit.
At(format) == IF format = <<>> THEN "" ELSE format[1]
isdigit(c) == c \in {DigitChars[i] : i \in 1 .. 10}
DigitValue(c) == SelectInSeq(DigitChars, LAMBDA x : x = c) - 1

FlagChars == {"-", "+", " ", "#", "0", "'"}

\* Parsers take [f |-> the rest of the format, args, c |-> the conversion].
RECURSIVE ParseFlags(_)
ParseFlags(p) ==
  IF At(p.f) \in FlagChars
  THEN ParseFlags([p EXCEPT !.f = Tail(@), !.c.flags = @ \cup {At(p.f)}])
  ELSE LET g == IF "-" \in p.c.flags THEN p.c.flags \ {"0"} ELSE p.c.flags
       IN  [p EXCEPT !.c.flags = IF "+" \in g THEN g \ {" "} ELSE g]

\* A number of digits or, for *, the next argument.
RECURSIVE ParseDigits(_, _)
ParseDigits(p, n) ==
  IF isdigit(At(p.f)) THEN ParseDigits([p EXCEPT !.f = Tail(@)], n * 10 + DigitValue(At(p.f)))
  ELSE [p |-> p, n |-> n]
ParseNumber(p) ==
  IF At(p.f) = "*" THEN [p |-> [p EXCEPT !.f = Tail(@), !.args = Tail(@)], n |-> p.args[1]]
  ELSE ParseDigits(p, 0)

ParseWidth(p) ==
  LET w == ParseNumber(p)
  IN  IF w.n < 0 THEN [w.p EXCEPT !.c.width = -w.n, !.c.flags = @ \cup {"-"}]
      ELSE [w.p EXCEPT !.c.width = w.n]

ParsePrecision(p) ==
  LET r == ParseNumber([p EXCEPT !.f = Tail(@)])
      q == IF At(p.f) # "." THEN p
           ELSE [r.p EXCEPT !.c.precision = IF r.n < 0 THEN -1 ELSE r.n]
  IN  IF q.c.precision >= 0 THEN [q EXCEPT !.c.flags = @ \ {"0"}] ELSE q

ParseType(p) ==
  LET two == At(p.f) \in {"h", "l"} /\ Len(p.f) > 1 /\ p.f[2] = p.f[1]
      Skip(n, t) == [p EXCEPT !.f = SubSeq(@, n + 1, Len(@)), !.c.type = t]
  IN  CASE At(p.f) = "h" -> IF two THEN Skip(2, "CHAR") ELSE Skip(1, "SHORT")
        [] At(p.f) = "j" -> Skip(1, "INTMAX")
        [] At(p.f) = "l" -> IF two THEN Skip(2, "LONGLONG") ELSE Skip(1, "LONG")
        [] At(p.f) = "t" -> Skip(1, "PTRDIFFT")
        [] At(p.f) = "z" -> Skip(1, "SIZET")
        [] OTHER -> p

parse_conversion(format, args) ==
  ParseType(ParsePrecision(ParseWidth(ParseFlags(
    [f |-> format, args |-> args,
     c |-> [flags |-> {}, width |-> 0, precision |-> -1, type |-> "INT"]]))))

output_dup(ch, cnt) == [i \in 1 .. cnt |-> ch]

\* The buffer of format_integer, least significant digit first.
RECURSIVE Accumulate(_, _, _, _, _)
Accumulate(value, b, c, buf, digit_cnt) ==
  IF value = 0 THEN buf
  ELSE LET comma == IF "'" \in c.flags /\ digit_cnt > 0 /\ digit_cnt % b.group = 0
                    THEN <<",">> ELSE <<>>
       IN  Accumulate(value \div b.base, b, c,
                      buf \o comma \o <<digits(b, value % b.base)>>, digit_cnt + 1)

format_integer(value, is_signed, negative, b, c) ==
  LET sign == IF ~is_signed THEN ""
              ELSE IF negative THEN "-"
              ELSE IF "+" \in c.flags THEN "+"
              ELSE IF " " \in c.flags THEN " " ELSE ""
      x    == IF "#" \in c.flags /\ value # 0 THEN b.x ELSE ""
      acc  == Accumulate(value, b, c, <<>>, 0)
      precision == IF c.precision < 0 THEN 1 ELSE c.precision
      want == IF precision < BUF_SIZE - 1 THEN precision ELSE BUF_SIZE - 1
      zs   == acc \o output_dup("0", want - Len(acc))
      buf  == IF "#" \in c.flags /\ b.base = 8 /\ (zs = <<>> \/ Last(zs) # "0")
              THEN Append(zs, "0") ELSE zs
      pad  == c.width - Len(buf) - (IF x # "" THEN 2 ELSE 0) - (IF sign # "" THEN 1 ELSE 0)
  IN  (IF c.flags \cap {"-", "0"} = {} THEN output_dup(" ", pad) ELSE <<>>)
      \o (IF sign # "" THEN <<sign>> ELSE <<>>)
      \o (IF x # "" THEN <<"0", x>> ELSE <<>>)
      \o (IF "0" \in c.flags THEN output_dup("0", pad) ELSE <<>>)
      \o Reverse(buf)
      \o (IF "-" \in c.flags THEN output_dup(" ", pad) ELSE <<>>)

format_string(string, length, c) ==
  LET pad == output_dup(" ", c.width - length)
  IN  (IF "-" \in c.flags THEN <<>> ELSE pad) \o SubSeq(string, 1, length)
      \o (IF "-" \in c.flags THEN pad ELSE <<>>)

\* The value of an argument read as an integer of a type.
AsUnsigned(v, type) == v % 2 ^ Bits[type]
AsSigned(v, type) ==
  LET u == AsUnsigned(v, type)
  IN  IF u >= 2 ^ (Bits[type] - 1) THEN u - 2 ^ Bits[type] ELSE u

\* strnlen with precision -1 as the largest size_t.
StringLength(s, precision) ==
  IF precision >= 0 /\ precision < Len(s) THEN precision ELSE Len(s)

\* One conversion: what it prints for its argument.
Convert(conv, c, arg) ==
  LET v == AsSigned(arg, c.type)
      BaseOf == [o |-> base_o, u |-> base_d, x |-> base_x, X |-> base_X]
  IN  CASE conv \in {"d", "i"} -> format_integer(IF v < 0 THEN -v ELSE v, TRUE, v < 0, base_d, c)
        [] conv \in {"o", "u", "x", "X"} ->
             format_integer(AsUnsigned(arg, c.type), FALSE, FALSE, BaseOf[conv], c)
        [] conv = "c" -> format_string(<<arg>>, 1, c)
        [] conv = "s" -> format_string(arg, StringLength(arg, c.precision), c)
        [] conv = "p" -> format_integer(arg, FALSE, FALSE, base_x, [c EXCEPT !.flags = {"#"}])

\* A conversion the kernel lacks prints a note in its place, "?" here.
Known == {"d", "i", "o", "u", "x", "X", "c", "s", "p"}
RECURSIVE vprintf(_, _)
vprintf(format, args) ==
  LET p    == parse_conversion(Tail(format), args)
      rest == Tail(p.f)
  IN  IF format = <<>> THEN <<>>
      ELSE IF format[1] # "%" THEN <<format[1]>> \o vprintf(Tail(format), args)
      ELSE IF At(Tail(format)) = "%" THEN <<"%">> \o vprintf(Tail(Tail(format)), args)
      ELSE IF At(p.f) \in Known
      THEN Convert(At(p.f), p.c, p.args[1]) \o vprintf(rest, Tail(p.args))
      ELSE <<"?">> \o vprintf(rest, p.args)

\* vsnprintf_helper, called for each character of the output in turn.
RECURSIVE vsnprintf_helper(_, _)
vsnprintf_helper(aux, output) ==
  IF output = <<>> THEN aux
  ELSE vsnprintf_helper(
         [aux EXCEPT !.length = @ + 1,
                     !.p = IF aux.length < aux.max_length THEN @ + 1 ELSE @,
                     !.buffer = IF aux.length < aux.max_length
                                THEN [@ EXCEPT ![aux.p] = output[1]] ELSE @],
         Tail(output))

vsnprintf(buffer, buf_size, output) ==
  LET aux == vsnprintf_helper([p |-> 1, length |-> 0, buffer |-> buffer,
                               max_length |-> IF buf_size > 0 THEN buf_size - 1 ELSE 0], output)
  IN  [buffer |-> IF buf_size > 0 THEN [aux.buffer EXCEPT ![aux.p] = ""] ELSE aux.buffer,
       ret |-> aux.length]

\* The lines of hex_dump: where each starts and the bytes it shows.
RECURSIVE hex_dump(_, _, _)
hex_dump(ofs, buf, per_line) ==
  LET start == ofs % per_line
      n     == IF per_line - start > Len(buf) THEN Len(buf) ELSE per_line - start
  IN  IF buf = <<>> THEN <<>>
      ELSE <<[at |-> ofs - start, blank |-> start, bytes |-> SubSeq(buf, 1, n)]>>
           \o hex_dump(ofs + n, SubSeq(buf, n + 1, Len(buf)), per_line)
=============================================================================
