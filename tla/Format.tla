-------------------------------- MODULE Format ------------------------------
(***************************************************************************)
(* Formatted output, _vcbprintf of src/kernel/lib/_vcbprintf.cc.           *)
(*                                                                         *)
(* A format is the sequence of its parts: text between the directives, and *)
(* directives with the argument that each of them takes.  Characters are   *)
(* strings of length one.  A negative width or precision is one that came  *)
(* from a `*'.  The callback takes characters until its room is used up.   *)
(* One step handles one part.                                              *)
(***************************************************************************)
EXTENDS Integers, Sequences, SequencesExt, FiniteSetsExt

CONSTANTS
  FillSize,                               \* the length of fill_space and fill_zero
  CharBits, ShortBits, IntBits, LongBits, \* scaled widths of the types
  Jobs                                    \* formats with the room of their sinks

ASSUME FormatAssumption ==
  /\ FillSize \in Nat \ {0}
  /\ CharBits < ShortBits /\ ShortBits < IntBits /\ IntBits < LongBits

VARIABLES
  job,       \* the format and the room
  done,      \* number of parts that were handled
  out,       \* the characters that the callback took
  produced,
  stored,    \* what %n wrote last, and how much was out then
  phase,     \* "running", "returned", "refused" or "astray"
  rc         \* the result

fvars == <<job, done, out, produced, stored, phase, rc>>

-----------------------------------------------------------------------------
(* Words *)

Bits(length) == CASE length = "hh" -> CharBits [] length = "h" -> ShortBits
                  [] length = "" -> IntBits [] OTHER -> LongBits

Unsigned(v, bits) == v % 2 ^ bits
Signed(v, bits) == LET u == Unsigned(v, bits)
                   IN  IF u >= 2 ^ (bits - 1) THEN u - 2 ^ bits ELSE u

\* What va_arg fetches: there is no argument shorter than an int, and what was an
\* hh or an h is used as it is.
ArgBits(d) == IF d.conv = "p" THEN LongBits ELSE Max({IntBits, Bits(d.length)})

IsSigned(d) == d.conv \in {"d", "i"}
Fetched(d) == IF IsSigned(d) THEN Signed(d.arg, ArgBits(d)) ELSE Unsigned(d.arg, ArgBits(d))

\* The negation is done on the word, so that the smallest number keeps its value.
Number(d) == Unsigned(IF Fetched(d) < 0 THEN - Fetched(d) ELSE Fetched(d), LongBits)

Base(d) == CASE d.conv = "o" -> 8 [] d.conv \in {"x", "X", "p"} -> 16 [] OTHER -> 10

Lower == <<"0", "1", "2", "3", "4", "5", "6", "7", "8", "9", "a", "b", "c", "d", "e", "f">>
Upper == <<"0", "1", "2", "3", "4", "5", "6", "7", "8", "9", "A", "B", "C", "D", "E", "F">>

\* MAX_NUMBER_LEN is more than any number needs.
convert_number(num, base, caps) ==
  LET table == IF caps THEN Upper ELSE Lower
      text[n \in 0 .. num] ==
        IF n < base THEN <<table[n + 1]>> ELSE Append(text[n \div base], table[1 + (n % base)])
  IN  text[num]

-----------------------------------------------------------------------------
(* Pieces of output, with the length that is added to produced. *)

Repeat(c, n) == [i \in 1 .. n |-> c]
Puts(s, l) == [text |-> s, length |-> l]
Nothing == Puts(<<>>, 0)

\* In portions of FillSize characters.
pad_string(zero, len) ==
  LET c == IF zero THEN "0" ELSE " "
      pad[n \in 0 .. len] == IF n = 0 THEN <<>>
                             ELSE IF n < FillSize THEN Repeat(c, n)
                             ELSE Repeat(c, FillSize) \o pad[n - FillSize]
  IN  pad[len]

\* Mutation: the padding is not counted.
Pad_uncounted(zero, from, to) ==
  IF from < to THEN Puts(pad_string(zero, to - from), 0) ELSE Nothing

\* The caller's test and the count of what was padded.
Pad(zero, from, to) ==
  IF from < to THEN Puts(pad_string(zero, to - from), to - from) ELSE Nothing

\* Flags.  `-' switches zeros off, before or behind `0'; a negative width does not.
LeftJustify(d) == "-" \in d.flags \/ d.width < 0
HavePrecision(d) == d.dot /\ d.prec > 0
FillWithZero(d) == {"0", "-"} \cap d.flags = {"0"} /\ ~HavePrecision(d)
Width(d) == IF d.width < 0 THEN - d.width ELSE d.width
Precision(d) == IF HavePrecision(d) THEN d.prec ELSE 0

SignText(d) ==
  IF ~IsSigned(d) THEN <<>>
  ELSE IF Fetched(d) < 0 THEN <<"-">>
  ELSE IF "+" \in d.flags THEN <<"+">> ELSE IF " " \in d.flags THEN <<" ">> ELSE <<>>

PrefixText(d) ==
  IF IsSigned(d) \/ ("#" \notin d.flags /\ d.conv # "p") \/ Number(d) = 0 THEN <<>>
  ELSE CASE d.conv = "o" -> <<"0">> [] d.conv = "X" -> <<"0", "X">> [] OTHER -> <<"0", "x">>

NumberPieces(d) ==
  LET digits == convert_number(Number(d), Base(d), d.conv = "X")
      front == SignText(d) \o PrefixText(d)
      shown == Max({Precision(d), Len(digits)}) + Len(front)  \* precision_with_prefix
      zero == FillWithZero(d)
      left == LeftJustify(d)
      lead(here) == IF here THEN Puts(front, Len(front)) ELSE Nothing
  IN  << lead(~left /\ zero),
         IF left THEN Nothing ELSE Pad(zero, shown, Width(d)),
         lead(~zero),
         Pad(TRUE, Len(digits), Precision(d)),
         Puts(IF d.dot /\ Precision(d) = 0 /\ Number(d) = 0 THEN <<" ">> ELSE digits, Len(digits)),
         IF left THEN Pad(FALSE, shown, Width(d)) ELSE Nothing >>

\* Text between the padding of %c and %s.
Justified(d, text) ==
  << IF LeftJustify(d) THEN Nothing ELSE Pad(FALSE, Len(text), Width(d)),
     Puts(text, Len(text)),
     IF LeftJustify(d) THEN Pad(FALSE, Len(text), Width(d)) ELSE Nothing >>

\* Mutation: the precision is not bounded by the length; what is behind the string
\* is printed with it.
StringText_unbounded(d) ==
  [i \in 1 .. IF HavePrecision(d) THEN d.prec ELSE Len(d.arg) |->
     IF i \in DOMAIN d.arg THEN d.arg[i] ELSE "?"]

StringText(d) ==
  SubSeq(d.arg, 1, IF HavePrecision(d) THEN Min({d.prec, Len(d.arg)})
                   ELSE IF d.dot THEN 0 ELSE Len(d.arg))

-----------------------------------------------------------------------------
(* Steps *)

Parts == job.format
Here == Parts[done + 1]
Handles(conv) == phase = "running" /\ done < Len(Parts) /\ Here.conv \in conv

\* The pieces go to the callback one by one; the first that it does not take in
\* full ends the call with -1.
Emit(pieces) ==
  LET text == FlattenSeq([i \in DOMAIN pieces |-> pieces[i].text])
      room == job.room - Len(out)
  IN  IF Len(text) <= room
      THEN /\ out' = out \o text
           /\ produced' = FoldLeft(LAMBDA n, p : n + p.length, produced, pieces)
           /\ done' = done + 1 /\ UNCHANGED <<phase, rc>>
      ELSE /\ out' = out \o SubSeq(text, 1, room)
           /\ phase' = "refused" /\ rc' = -1 /\ UNCHANGED <<produced, done>>

\* Text up to the next `%', and `%%'.
literal ==
  /\ Handles({"text", "%"})
  /\ Emit(<<Puts(Here.arg, Len(Here.arg))>>)
  /\ UNCHANGED <<job, stored>>

number == Handles({"d", "i", "o", "u", "x", "X", "p"}) /\ Emit(NumberPieces(Here)) /\ UNCHANGED <<job, stored>>

character == Handles({"c"}) /\ Emit(Justified(Here, <<Here.arg>>)) /\ UNCHANGED <<job, stored>>

string == Handles({"s"}) /\ Emit(Justified(Here, StringText(Here))) /\ UNCHANGED <<job, stored>>

store ==
  /\ Handles({"n"})
  /\ stored' = [value |-> Signed(produced, Bits(Here.length)), length |-> Here.length,
                at |-> Len(out)]
  /\ done' = done + 1
  /\ UNCHANGED <<job, out, produced, phase, rc>>

\* What is no conversion is printed as it was written.
invalid ==
  /\ Handles({"invalid"})
  /\ Emit(<<Puts(Here.arg, Len(Here.arg))>>)
  /\ UNCHANGED <<job, stored>>

\* A format that ends inside of a directive: its end is taken for the conversion
\* and printed, and the loop reads on behind it.
cut ==
  /\ Handles({"cut"})
  /\ LET text == Append(Here.arg, "NUL")
     IN  IF Len(out) + Len(text) <= job.room
         THEN out' = out \o text /\ phase' = "astray" /\ UNCHANGED rc
         ELSE /\ out' = out \o SubSeq(text, 1, job.room - Len(out))
              /\ phase' = "refused" /\ rc' = -1
  /\ UNCHANGED <<job, done, produced, stored>>

return ==
  /\ phase = "running" /\ done = Len(Parts)
  /\ phase' = "returned" /\ rc' = Signed(produced, IntBits)
  /\ UNCHANGED <<job, done, out, produced, stored>>

FormatInit ==
  /\ job \in Jobs
  /\ done = 0 /\ out = <<>> /\ produced = 0 /\ rc = 0 /\ phase = "running"
  /\ stored = [value |-> 0, length |-> "", at |-> 0]

FormatNext == literal \/ number \/ character \/ string \/ store \/ invalid \/ cut \/ return

-----------------------------------------------------------------------------
(* Properties *)

\* The result is the number of characters that the callback took, as an int, or -1
\* when it refused some; %n stores what had been printed up to there, cut to the
\* type of its argument.
CountExact ==
  /\ phase = "returned" => rc = Signed(Len(out), IntBits)
  /\ phase = "refused" => rc = -1 /\ Len(out) = job.room
  /\ stored.value = Signed(stored.at, Bits(stored.length))

\* The digits of a number, most significant first, by powers of the base.
DigitsOf(n, base, caps) ==
  LET len == Min({k \in 1 .. LongBits \div 3 + 1 : base ^ k > n})
  IN  [i \in 1 .. len |->
         (IF caps THEN Upper ELSE Lower)[1 + ((n \div base ^ (len - i)) % base)]]

\* The C standard on integer conversions.
CValue(d) ==
  LET bits == IF d.conv = "p" THEN LongBits ELSE Bits(d.length)
  IN  IF IsSigned(d) THEN Signed(d.arg, bits) ELSE Unsigned(d.arg, bits)

CNumber(d) ==
  LET value == CValue(d)
      given == d.dot /\ d.prec >= 0
      raw == IF value = 0 /\ given /\ d.prec = 0 THEN <<>>
             ELSE DigitsOf(IF value < 0 THEN - value ELSE value, Base(d), d.conv = "X")
      full == IF given /\ d.prec > Len(raw) THEN Repeat("0", d.prec - Len(raw)) \o raw ELSE raw
      alt == "#" \in d.flags \/ d.conv = "p"
      digits == IF alt /\ d.conv = "o" /\ (full = <<>> \/ full[1] # "0") THEN <<"0">> \o full
                ELSE full
      sign == CASE ~IsSigned(d) -> <<>> [] value < 0 -> <<"-">>
                [] "+" \in d.flags -> <<"+">> [] " " \in d.flags -> <<" ">> [] OTHER -> <<>>
      prefix == IF alt /\ value # 0 /\ Base(d) = 16
                THEN <<"0", IF d.conv = "X" THEN "X" ELSE "x">> ELSE <<>>
      missing == Max({0, Width(d) - Len(sign \o prefix \o digits)})
      left == "-" \in d.flags \/ d.width < 0
  IN  CASE left -> sign \o prefix \o digits \o Repeat(" ", missing)
        [] ~left /\ "0" \in d.flags /\ ~given -> sign \o prefix \o Repeat("0", missing) \o digits
        [] OTHER -> Repeat(" ", missing) \o sign \o prefix \o digits

CString(d) ==
  LET text == IF d.conv = "c" THEN <<d.arg>>
              ELSE IF d.dot /\ d.prec >= 0 THEN SubSeq(d.arg, 1, Min({d.prec, Len(d.arg)}))
              ELSE d.arg
      space == Repeat(" ", Max({0, Width(d) - Len(text)}))
  IN  IF "-" \in d.flags \/ d.width < 0 THEN text \o space ELSE space \o text

CText(d) ==
  CASE d.conv \in {"d", "i", "o", "u", "x", "X", "p"} -> CNumber(d)
    [] d.conv \in {"c", "s"} -> CString(d)
    [] d.conv = "n" -> <<>>
    [] OTHER -> d.arg

\* Where the code differs: an explicit precision of zero, and a negative one where
\* the number is 0 or the argument a string; zeros with a negative width, which
\* lose the sign and the prefix; `#' adds a digit to an octal number that has zeros
\* in front already, and 0x to a decimal one; the excess bits of an hh or h.
Deviates(d) ==
  \/ d.conv \in {"d", "i", "o", "u", "x", "X", "p"} /\
       \/ d.dot /\ d.prec <= 0 /\ Number(d) = 0
       \/ d.dot /\ d.prec = 0 /\ FillWithZero(d)
       \/ d.width < 0 /\ FillWithZero(d) /\ SignText(d) \o PrefixText(d) # <<>>
       \/ d.conv = "o" /\ "#" \in d.flags /\ d.prec > Len(convert_number(Number(d), 8, FALSE))
       \/ d.conv = "u" /\ "#" \in d.flags
       \/ CValue(d) # Fetched(d)
  \/ d.conv = "s" /\ d.dot /\ d.prec < 0

\* What is printed is what the C standard asks for, in the order of the format and
\* up to the room of the sink, for every format without one of the differences.
FormatsAsC ==
  LET parts == IF phase = "refused" THEN done + 1 ELSE done
      text == FlattenSeq([i \in 1 .. parts |-> CText(Parts[i])])
  IN  (\A i \in DOMAIN Parts : ~Deviates(Parts[i])) /\ phase # "astray"
      => out = SubSeq(text, 1, Min({Len(text), job.room}))
=============================================================================
