------------------------------- MODULE Strings ------------------------------
(***************************************************************************)
(* The memory and string functions of the kernel's C library,              *)
(* src/kernel/lib/string/{memxxx,strxxx,strnxxx}.cc.                       *)
(*                                                                         *)
(* Memory is a function from addresses to bytes; 0 is the null pointer.    *)
(* The functions that write are operators from memory to memory, a byte at *)
(* a time and in the order of the code; the others return an address, a    *)
(* length, or the sign of a comparison.  A call is one step.               *)
(***************************************************************************)
EXTENDS Integers, Sequences, SequencesExt, FiniteSets, FiniteSetsExt

CONSTANTS
  Top,    \* bound: the last address
  Bytes,  \* the bytes that occur, 0 among them
  Chars   \* the int arguments

ASSUME StringsAssumption ==
  /\ Top \in Nat \ {0} /\ 0 \in Bytes /\ Bytes \subseteq 0 .. 255
  /\ 0 \in Chars /\ Chars \subseteq Nat

Addr == 1 .. Top

Up(n)   == [i \in 1 .. n |-> i - 1]
Down(n) == [i \in 1 .. n |-> n - i]

\* An int argument is converted to a byte.
Byte(c) == c % 256

\* A copy of the bytes with the given offsets, one after the other.
CopyEach(m, a, b, order) ==
  FoldLeft(LAMBDA x, i : [x EXCEPT ![a + i] = x[b + i]], m, order)

\* The first offset below n of which C(_) holds, n if there is none.
FirstOf(n, C(_)) == Min({n} \cup {i \in 0 .. n - 1 : C(i)})

Sign(x, y) == IF x = y THEN 0 ELSE IF x < y THEN -1 ELSE 1

-----------------------------------------------------------------------------
(* memxxx.cc *)

memchr(m, s, c, n) ==
  LET i == FirstOf(n, LAMBDA k : m[s + k] = Byte(c))
  IN  IF s = 0 \/ n = 0 \/ i = n THEN 0 ELSE s + i

memcmp(m, a, b, n) ==
  LET i == FirstOf(n, LAMBDA k : m[a + k] # m[b + k])
  IN  IF a = 0 \/ b = 0 \/ n = 0 \/ i = n THEN 0 ELSE Sign(m[a + i], m[b + i])

memcpy(m, a, b, n) == IF a = 0 \/ b = 0 THEN m ELSE CopyEach(m, a, b, Up(n))

\* Mutation: always from the front.
memmove_up(m, a, b, n) == memcpy(m, a, b, n)

memmove(m, a, b, n) ==
  IF a < b THEN memcpy(m, a, b, n)
  ELSE IF a = 0 \/ b = 0 THEN m ELSE CopyEach(m, a, b, Down(n))

memset(m, s, c, n) == FoldLeft(LAMBDA x, i : [x EXCEPT ![s + i] = Byte(c)], m, Down(n))

-----------------------------------------------------------------------------
(* strxxx.cc *)

strlen(m, s) == IF s = 0 THEN 0 ELSE Min({i \in 0 .. Top - s : m[s + i] = 0})

strcat(m, a, b) ==
  IF a = 0 \/ b = 0 THEN m
  ELSE LET to == a + strlen(m, a)
       IN  [CopyEach(m, to, b, Up(strlen(m, b))) EXCEPT ![to + strlen(m, b)] = 0]

strchr(m, s, c) ==
  LET n == strlen(m, s)  i == FirstOf(n, LAMBDA k : m[s + k] = Byte(c))
  IN  IF s = 0 THEN 0 ELSE IF i < n THEN s + i ELSE IF Byte(c) = 0 THEN s + n ELSE 0

\* From the end down to offset 1, then the first byte.
strrchr(m, s, c) ==
  LET I == {i \in 1 .. strlen(m, s) : m[s + i] = Byte(c)}
  IN  IF s = 0 THEN 0 ELSE IF I # {} THEN s + Max(I) ELSE IF m[s] = Byte(c) THEN s ELSE 0

\* Up to the first difference or the end of one of the two.
strcmp(m, a, b) ==
  LET i == FirstOf(Min({strlen(m, a), strlen(m, b)}), LAMBDA k : m[a + k] # m[b + k])
  IN  IF a = 0 \/ b = 0 THEN 0 ELSE Sign(m[a + i], m[b + i])

strcpy(m, a, b) == memcpy(m, a, b, strlen(m, b) + 1)

strcspn(m, a, b) ==
  IF a = 0 \/ b = 0 THEN 0
  ELSE FirstOf(strlen(m, a), LAMBDA i : strchr(m, b, m[a + i]) # 0)

strpbrk(m, a, b) ==
  LET n == strlen(m, a)
      i == FirstOf(n, LAMBDA k : \E j \in 0 .. strlen(m, b) - 1 : m[a + k] = m[b + j])
  IN  IF a = 0 \/ b = 0 \/ i = n THEN 0 ELSE a + i

strspn(m, a, b) == FirstOf(strlen(m, a), LAMBDA i : strchr(m, b, m[a + i]) = 0)

-----------------------------------------------------------------------------
(* strnxxx.cc *)

strncat(m, a, b, n) ==
  IF a = 0 \/ b = 0 \/ n = 0 THEN m
  ELSE LET to == a + strlen(m, a)  k == Min({n, strlen(m, b)})
       IN  [CopyEach(m, to, b, Up(k)) EXCEPT ![to + k] = 0]

\* The loop stops in front of the last of the n bytes, which is looked at then.
strncmp(m, a, b, n) ==
  LET i == FirstOf(Min({n - 1, strlen(m, a), strlen(m, b)}), LAMBDA k : m[a + k] # m[b + k])
  IN  IF a = 0 \/ b = 0 \/ n = 0 THEN 0 ELSE Sign(m[a + i], m[b + i])

\* Up to n bytes are copied, the null byte included but not counted; then n - 1
\* null bytes follow for the n that are left.
strncpy(m, a, b, n) ==
  LET k    == Min({n, strlen(m, b)})
      done == IF k < n THEN k + 1 ELSE n
      left == IF k < n THEN n - k ELSE 0
  IN  FoldLeft(LAMBDA x, i : [x EXCEPT ![a + done + i] = 0],
               CopyEach(m, a, b, Up(done)), Up(IF left > 1 THEN left - 1 ELSE 0))

\* Empty strings are found in all strings but the empty one.
strstr(m, a, b) ==
  LET n == strlen(m, a)  i == FirstOf(n, LAMBDA k : strncmp(m, a + k, b, strlen(m, b)) = 0)
  IN  IF a = 0 \/ b = 0 \/ i = n THEN 0 ELSE a + i

-----------------------------------------------------------------------------
(* Calls *)

VARIABLES
  before,    \* the memory
  after,     \* the memory after the call
  call,      \* the call: function and arguments
  returned

svars == <<before, after, call, returned>>

NoCall == [fn |-> "none"]

Moves  == {"memcpy", "memmove", "memset", "strcat", "strcpy", "strncat", "strncpy"}
Finds  == {"memchr", "memcmp", "strlen", "strchr", "strrchr", "strcmp", "strcspn",
           "strpbrk", "strspn", "strncmp", "strstr"}
OneArg == {"memset", "memchr", "strlen", "strchr", "strrchr"}
ByChar == {"memset", "memchr", "strchr", "strrchr"}
ByLength == {"memcpy", "memmove", "memset", "strncat", "strncpy", "memchr", "memcmp", "strncmp"}
OfMemory == {"memcpy", "memmove", "memset", "memchr", "memcmp"}

\* Arguments that a function does not have are fixed.
Calls(fns) ==
  {c \in [fn : fns, a : 0 .. Top, b : 0 .. Top, c : Chars, n : 0 .. Top] :
     /\ c.fn \in OneArg => c.b = 1
     /\ c.fn \notin ByChar => c.c = 0
     /\ c.fn \notin ByLength => c.n = 0}

IsString(m, s) == \E i \in s .. Top : m[i] = 0
StringAt(m, s) == SubSeq(m, s, s + strlen(m, s) - 1)
Some(s, n) == SubSeq(s, 1, Min({n, Len(s)}))
Fill(c, n) == [i \in 1 .. n |-> c]

\* The bytes that a call has to leave behind at its first argument.
Wanted(m, c) ==
  CASE c.fn \in {"memcpy", "memmove"} -> SubSeq(m, c.b, c.b + c.n - 1)
    [] c.fn = "memset"  -> Fill(c.c % 256, c.n)
    [] c.fn = "strcpy"  -> StringAt(m, c.b) \o <<0>>
    [] c.fn = "strcat"  -> StringAt(m, c.a) \o StringAt(m, c.b) \o <<0>>
    [] c.fn = "strncat" -> StringAt(m, c.a) \o Some(StringAt(m, c.b), c.n) \o <<0>>
    [] c.fn = "strncpy" -> Some(StringAt(m, c.b) \o Fill(0, c.n), c.n)

IsNull(c) == c.a = 0 \/ c.b = 0

\* The callers' part.  Strings end, the bytes to be written are there, and only
\* memmove is given blocks that overlap.  A null pointer is passed to functions
\* that look for it.
Legal(m, c) ==
  IF IsNull(c) THEN c.fn \notin {"memset", "strspn", "strncpy"} /\ c.n <= 1
                    /\ (c.a # 0 => c.fn \in OfMemory \/ IsString(m, c.a))
                    /\ (c.b # 0 => c.fn \in OfMemory \/ IsString(m, c.b))
  ELSE /\ c.fn \in OfMemory => c.a + c.n - 1 <= Top /\ (c.fn \notin OneArg => c.b + c.n - 1 <= Top)
       /\ c.fn \notin OfMemory \cup {"strcpy", "strncpy"} => IsString(m, c.a)
       /\ c.fn \notin OfMemory \cup OneArg => IsString(m, c.b)
       /\ c.fn \in Moves =>
            LET n == Len(Wanted(m, c))
                source == IF c.fn = "memcpy" THEN c.n ELSE strlen(m, c.b) + 1
            IN  /\ c.a + n - 1 <= Top
                /\ c.fn \notin {"memset", "memmove"} =>
                     (c.a .. c.a + n - 1) \cap (c.b .. c.b + source - 1) = {}

Written(m, c) ==
  CASE c.fn = "memcpy"  -> memcpy(m, c.a, c.b, c.n)
    [] c.fn = "memmove" -> memmove(m, c.a, c.b, c.n)
    [] c.fn = "memset"  -> memset(m, c.a, c.c, c.n)
    [] c.fn = "strcat"  -> strcat(m, c.a, c.b)
    [] c.fn = "strcpy"  -> strcpy(m, c.a, c.b)
    [] c.fn = "strncat" -> strncat(m, c.a, c.b, c.n)
    [] c.fn = "strncpy" -> strncpy(m, c.a, c.b, c.n)

Found(m, c) ==
  CASE c.fn = "memchr"  -> memchr(m, c.a, c.c, c.n)
    [] c.fn = "memcmp"  -> memcmp(m, c.a, c.b, c.n)
    [] c.fn = "strlen"  -> strlen(m, c.a)
    [] c.fn = "strchr"  -> strchr(m, c.a, c.c)
    [] c.fn = "strrchr" -> strrchr(m, c.a, c.c)
    [] c.fn = "strcmp"  -> strcmp(m, c.a, c.b)
    [] c.fn = "strcspn" -> strcspn(m, c.a, c.b)
    [] c.fn = "strpbrk" -> strpbrk(m, c.a, c.b)
    [] c.fn = "strspn"  -> strspn(m, c.a, c.b)
    [] c.fn = "strncmp" -> strncmp(m, c.a, c.b, c.n)
    [] c.fn = "strstr"  -> strstr(m, c.a, c.b)

StringsInit ==
  /\ before \in [Addr -> Bytes]
  /\ after = before /\ call = NoCall /\ returned = 0

\* The functions that write return their first argument.
Move ==
  /\ call = NoCall
  /\ \E c \in Calls(Moves) :
       /\ Legal(before, c)
       /\ call' = c /\ after' = Written(before, c) /\ returned' = c.a
  /\ UNCHANGED before

Find ==
  /\ call = NoCall
  /\ \E c \in Calls(Finds) :
       /\ Legal(before, c)
       /\ call' = c /\ returned' = Found(before, c)
  /\ UNCHANGED <<before, after>>

StringsNext == Move \/ Find

-----------------------------------------------------------------------------
(* Properties *)

\* Lexical order of byte sequences.
Precedes(s, t) ==
  \/ IsStrictPrefix(s, t)
  \/ \E i \in DOMAIN s \cap DOMAIN t :
       s[i] < t[i] /\ SubSeq(s, 1, i - 1) = SubSeq(t, 1, i - 1)
Order(s, t) == IF Precedes(s, t) THEN -1 ELSE IF Precedes(t, s) THEN 1 ELSE 0

\* The position that is chosen of those in I, as an address behind a; 0 for none.
At(a, I, Which(_)) == IF I = {} THEN 0 ELSE a + Which(I) - 1
Positions(s, C(_)) == {i \in DOMAIN s : C(s[i])}

\* What the C standard asks for, on sequences of bytes.
Answer(m, c) ==
  LET s == StringAt(m, c.a)  t == StringAt(m, c.b)
      bytes(x) == SubSeq(m, x, x + c.n - 1)
      isC(x) == x = c.c % 256
      inT(x) == x \in ToSet(t)
      span(I) == IF I = {} THEN Len(s) ELSE Min(I) - 1
  IN  CASE c.fn = "memchr"  -> At(c.a, Positions(bytes(c.a), isC), Min)
        [] c.fn = "memcmp"  -> Order(bytes(c.a), bytes(c.b))
        [] c.fn = "strlen"  -> Len(s)
        [] c.fn = "strchr"  -> At(c.a, Positions(Append(s, 0), isC), Min)
        [] c.fn = "strrchr" -> At(c.a, Positions(Append(s, 0), isC), Max)
        [] c.fn = "strcmp"  -> Order(s, t)
        [] c.fn = "strcspn" -> span(Positions(s, inT))
        [] c.fn = "strspn"  -> span(Positions(s, LAMBDA x : ~inT(x)))
        [] c.fn = "strpbrk" -> At(c.a, Positions(s, inT), Min)
        [] c.fn = "strncmp" -> Order(Some(s, c.n), Some(t, c.n))
        [] c.fn = "strstr"  ->
             At(c.a, {i \in 1 .. Len(s) + 1 : IsPrefix(t, SubSeq(s, i, Len(s)))}, Min)

\* Every function does what the C standard asks for.  One that writes leaves
\* exactly those bytes behind, copied from the memory as it was before the call,
\* and no other byte changes: memmove also where its blocks overlap
\* (memxxx.cc:85), strncpy with all of its null bytes and none behind them
\* (strnxxx.cc:80).  Comparisons and searches answer with bytes above 127 greater
\* than the others, at the end of the string and of the length too.  The two
\* differences: a null pointer finds and changes nothing, and strstr does not
\* find the empty string in an empty one (strxxx.cc:193).
CallsExact ==
  /\ call.fn \in Moves =>
       after = IF IsNull(call) THEN before
               ELSE LET w == Wanted(before, call)
                    IN  [x \in Addr |-> IF x - call.a + 1 \in DOMAIN w
                                        THEN w[x - call.a + 1] ELSE before[x]]
  /\ call.fn \in Finds =>
       returned = IF \/ IsNull(call)
                     \/ call.fn = "strstr" /\ strlen(before, call.a) = 0
                  THEN 0 ELSE Answer(before, call)
=============================================================================
