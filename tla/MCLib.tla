-------------------------------- MODULE MCLib -------------------------------
(***************************************************************************)
(* The kernel's library: lists, kmalloc, strings and formatted output.     *)
(* They share no state; a behaviour exercises one of them, the others stay *)
(* at one of their initial states.                                         *)
(***************************************************************************)
EXTENDS KList, KMalloc, Strings, Format

VARIABLE unit

Dir(conv, flags, width, dot, prec, length, arg) ==
  [conv |-> conv, flags |-> flags, width |-> width, dot |-> dot, prec |-> prec,
   length |-> length, arg |-> arg]
Plain(conv, arg) == Dir(conv, {}, 0, FALSE, 0, "", arg)

\* Every combination of flags with widths and precisions around the number's
\* length; numbers at the limits of an int and of a long.
Numbers ==
  {Dir(c, f, w, p[1], p[2], l, a) :
     c \in {"d", "o", "u", "x", "X", "p"}, f \in SUBSET {"-", "+", " ", "#", "0"},
     w \in {-7, 0, 6}, p \in {<<FALSE, 0>>} \cup ({TRUE} \X {-1, 0, 1, 5}),
     l \in {"hh", "", "l"}, a \in {0, 5, 31, 32, 128, 255}}

Words ==
  {Dir("s", f, w, p[1], p[2], "", a) :
     f \in SUBSET {"-", "0"}, w \in {-5, 0, 3, 8},
     p \in {<<FALSE, 0>>} \cup ({TRUE} \X {-1, 0, 1, 4}),
     a \in {<<>>, <<"a", "b">>, <<"a", "b", "c">>}}
  \cup {Dir("c", f, w, FALSE, 0, "", "a") : f \in SUBSET {"-", "0"}, w \in {-5, 0, 1, 4}}

\* A long format, printed to sinks that are full at any of its characters.
Long(length, last) ==
  LET n == Dir("n", {}, 0, FALSE, 0, length, 0)
  IN  <<Plain("text", <<"a">>), Dir("i", {}, 5, FALSE, 0, "", 9), n, Plain("%", <<"%">>),
        Dir("x", {"-"}, 9, FALSE, 0, "", 10), n, Plain("s", <<"a", "b">>),
        Plain(last, <<"%", "y">>), Dir("c", {}, 20, FALSE, 0, "", "z"), n>>

AllJobs ==
  {[format |-> <<d>>, room |-> 99] : d \in Numbers \cup Words}
  \cup {[format |-> Long(l, k), room |-> r] :
          l \in {"hh", "h", "", "z"}, k \in {"invalid", "cut"}, r \in 0 .. 42}

StringsIdle == before = [x \in Addr |-> 0] /\ after = before /\ call = NoCall /\ returned = 0
FormatIdle  == /\ job = [format |-> <<>>, room |-> 0] /\ done = 0 /\ out = <<>>
               /\ produced = 0 /\ rc = 0 /\ phase = "running"
               /\ stored = [value |-> 0, length |-> "", at |-> 0]

ListStill ==
  /\ kind = "list" /\ loop = NoLoop
  /\ next = [n \in Heads \cup Elems |-> IF n \in Heads THEN n ELSE Null]
  /\ prev = [n \in Heads \cup Elems |-> IF n \in Heads THEN n ELSE Null]

Init ==
  /\ KMallocInit
  /\ \/ unit = "list"    /\ ListInit  /\ StringsIdle /\ FormatIdle
     \/ unit = "kmalloc" /\ ListStill /\ StringsIdle /\ FormatIdle
     \/ unit = "strings" /\ ListStill /\ StringsInit /\ FormatIdle
     \/ unit = "format"  /\ ListStill /\ StringsIdle /\ FormatInit

Next ==
  /\ UNCHANGED unit
  /\ \/ unit = "list"    /\ ListNext    /\ UNCHANGED <<kvars, svars, fvars>>
     \/ unit = "kmalloc" /\ KMallocNext /\ UNCHANGED <<lvars, svars, fvars>>
     \/ unit = "strings" /\ StringsNext /\ UNCHANGED <<lvars, kvars, fvars>>
     \/ unit = "format"  /\ FormatNext  /\ UNCHANGED <<lvars, kvars, svars>>

Spec == Init /\ [][Next]_<<unit, lvars, kvars, svars, fvars>>
=============================================================================
