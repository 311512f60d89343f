------------------------------- MODULE CLibrary -------------------------------
(***************************************************************************)
(* The C library the Dhrystone program is linked with when it is built     *)
(* with USE_MYSTDLIB=1 (legacy/dhrystone/stdlib.c): strcpy and strcmp,     *)
(* which work a word at a time once their pointers are aligned, memcpy and *)
(* printf; and the two functions of the PicoSoC firmware that print        *)
(* numbers.                                                                *)
(*                                                                         *)
(* A behaviour is one call; a step is one iteration of a loop of the       *)
(* function.  A word is four bytes, as in the code; the constants 01010101 *)
(* and 80808080 are scaled with the byte.                                  *)
(***************************************************************************)
EXTENDS Integers, Sequences, FiniteSets, SequencesExt

CONSTANTS
  TopBit,        \* value of the top bit of a char (128 in the code)
  Letters,       \* the bytes strings are made of
  MaxLength,     \* length of the longest string
  IntBits,       \* bits of an int (32 in the code)
  Nibbles        \* the digits of numbers print_hex is called with (0 .. 15)

VARIABLES
  call,          \* the function called and its arguments
  mem,           \* the bytes of the memory
  a, b, n,       \* the pointers and the counter the function moves
  out,           \* what was written to the output port
  ret            \* what the function returned, or Running

libVars == <<call, mem, a, b, n, out, ret>>

Running == -2   \* none of the functions returns it

Base == 2 * TopBit   \* values of a char

ASSUME BytesAssumption ==
  TopBit \in Nat \ {0} /\ Letters \subseteq 1 .. Base - 1 /\ MaxLength \in Nat

(***************************************************************************)
(* Memory: one region for each argument                                    *)
(***************************************************************************)
Region == 4 * ((MaxLength + 7) \div 4)
Strings == UNION {[1 .. k -> Letters] : k \in 0 .. MaxLength}
Ends(at, s) == at + Len(s)

\* The string s with its terminator at address "at", in a region full of g.
Place(from, at, s, g) ==
  [x \in from .. from + Region - 1 |->
     IF x \in at .. Ends(at, s) - 1 THEN s[x - at + 1]
     ELSE IF x = Ends(at, s) THEN 0 ELSE g]

Weight(k) == CASE k = 0 -> 1 [] k = 1 -> Base [] k = 2 -> Base * Base [] k = 3 -> Base * Base * Base

Word(p) == mem[p] + Base * mem[p + 1] + Weight(2) * mem[p + 2] + Weight(3) * mem[p + 3]
Byte(v, k) == (v \div Weight(k)) % Base

Aligned == a % 4 = 0 /\ b % 4 = 0

\* (v - 0x01010101) & ~v & 0x80808080: the top bit of a byte is set in the
\* difference and not in v.  A borrow out of the word is lost.
HasZeroByte(v) ==
  LET less == v + Base * Weight(3) - (1 + Base + Weight(2) + Weight(3))
  IN  \E k \in 0 .. 3 : Byte(less, k) >= TopBit /\ Byte(v, k) < TopBit

(***************************************************************************)
(* strcpy                                                                  *)
(***************************************************************************)
StrcpyByte ==
  /\ call.fn = "strcpy" /\ ret = Running /\ ~Aligned
  /\ mem' = [mem EXCEPT ![a] = mem[b]]
  /\ a' = a + 1 /\ b' = b + 1
  /\ ret' = IF mem[b] = 0 THEN call.s1 ELSE Running
  /\ UNCHANGED <<call, n, out>>

\* faulty: a word is copied without a look at its bytes
StrcpyAnyWord ==
  /\ call.fn = "strcpy" /\ ret = Running /\ Aligned
  /\ b + 4 < 2 * Region
  /\ mem' = [x \in DOMAIN mem |-> IF x \in a .. a + 3 THEN mem[b + (x - a)] ELSE mem[x]]
  /\ a' = a + 4 /\ b' = b + 4
  /\ UNCHANGED <<call, n, out, ret>>

StrcpyWord ==
  /\ call.fn = "strcpy" /\ ret = Running /\ Aligned /\ ~HasZeroByte(Word(b))
  /\ mem' = [x \in DOMAIN mem |-> IF x \in a .. a + 3 THEN mem[b + (x - a)] ELSE mem[x]]
  /\ a' = a + 4 /\ b' = b + 4
  /\ UNCHANGED <<call, n, out, ret>>

\* faulty: all four bytes of the last word are stored
StrcpyWholeTail ==
  /\ call.fn = "strcpy" /\ ret = Running /\ Aligned /\ HasZeroByte(Word(b))
  /\ mem' = [x \in DOMAIN mem |-> IF x \in a .. a + 3 THEN Byte(Word(b), x - a) ELSE mem[x]]
  /\ ret' = call.s1
  /\ UNCHANGED <<call, a, b, n, out>>

\* The bytes of the last word, up to and with the first 0 or all four.
StrcpyTail ==
  /\ call.fn = "strcpy" /\ ret = Running /\ Aligned /\ HasZeroByte(Word(b))
  /\ LET v == Word(b)
         last == CHOOSE k \in 0 .. 3 : /\ k = 3 \/ Byte(v, k) = 0
                                       /\ \A j \in 0 .. k - 1 : Byte(v, j) # 0
     IN  mem' = [x \in DOMAIN mem |-> IF x \in a .. a + last THEN Byte(v, x - a) ELSE mem[x]]
  /\ ret' = call.s1
  /\ UNCHANGED <<call, a, b, n, out>>

(***************************************************************************)
(* strcmp                                                                  *)
(***************************************************************************)
Order(c1, c2) == IF c1 < c2 THEN -1 ELSE 1

StrcmpByte ==
  /\ call.fn = "strcmp" /\ ret = Running /\ ~Aligned
  /\ ret' = IF mem[a] # mem[b] THEN Order(mem[a], mem[b])
            ELSE IF mem[a] = 0 THEN 0 ELSE Running
  /\ a' = a + 1 /\ b' = b + 1
  /\ UNCHANGED <<call, mem, n, out>>

StrcmpEqualWords ==
  /\ call.fn = "strcmp" /\ ret = Running /\ Aligned /\ Word(a) = Word(b)
  /\ IF HasZeroByte(Word(a)) THEN ret' = 0 /\ UNCHANGED <<a, b>>
     ELSE a' = a + 4 /\ b' = b + 4 /\ UNCHANGED ret
  /\ UNCHANGED <<call, mem, n, out>>

\* faulty: the bytes after the terminators are compared too
StrcmpWholeWords ==
  /\ call.fn = "strcmp" /\ ret = Running /\ Aligned /\ Word(a) # Word(b)
  /\ LET last == CHOOSE k \in 0 .. 3 : /\ Byte(Word(a), k) # Byte(Word(b), k)
                                       /\ \A j \in 0 .. k - 1 : Byte(Word(a), j) = Byte(Word(b), j)
     IN  ret' = Order(Byte(Word(a), last), Byte(Word(b), last))
  /\ UNCHANGED <<call, mem, a, b, n, out>>

\* The bytes of two different words in turn: the first that differ decide,
\* unless both strings end before.
StrcmpDifferentWords ==
  /\ call.fn = "strcmp" /\ ret = Running /\ Aligned /\ Word(a) # Word(b)
  /\ LET c1(k) == Byte(Word(a), k)
         c2(k) == Byte(Word(b), k)
         last == CHOOSE k \in 0 .. 3 : /\ k = 3 \/ c1(k) # c2(k) \/ c1(k) = 0
                                       /\ \A j \in 0 .. k - 1 : c1(j) = c2(j) /\ c1(j) # 0
     IN  ret' = IF c1(last) # c2(last) THEN Order(c1(last), c2(last)) ELSE 0
  /\ UNCHANGED <<call, mem, a, b, n, out>>

(***************************************************************************)
(* memcpy                                                                  *)
(***************************************************************************)
MemcpyByte ==
  /\ call.fn = "memcpy" /\ ret = Running /\ n # 0
  /\ mem' = [mem EXCEPT ![a] = mem[b]]
  /\ a' = a + 1 /\ b' = b + 1 /\ n' = n - 1
  /\ UNCHANGED <<call, out, ret>>

MemcpyReturn ==
  /\ call.fn = "memcpy" /\ ret = Running /\ n = 0
  /\ n' = n - 1 /\ ret' = call.s1
  /\ UNCHANGED <<call, mem, a, b, out>>

(***************************************************************************)
(* printf: n is the index into the format, b the next argument             *)
(***************************************************************************)
Ints == -(2^(IntBits - 1)) .. 2^(IntBits - 1) - 1
Wrap(v) == ((v + 2^(IntBits - 1)) % 2^IntBits) - 2^(IntBits - 1)

\* Characters are their codes.
Ascii == [percent |-> 37, minus |-> 45, zero |-> 48, c |-> 99, d |-> 100, s |-> 115, x |-> 120]

\* '0' + val % 10, lowest digit first; division in C truncates towards zero.
LowestFirst(val) ==
  LET abs(v) == IF v < 0 THEN -v ELSE v
      sign == IF val < 0 THEN -1 ELSE 1
      digit(k) == sign * ((abs(val) \div 10^(k - 1)) % 10)
      count == CHOOSE k \in 1 .. IntBits : /\ abs(val) < 10^k
                                           /\ k = 1 \/ abs(val) >= 10^(k - 1)
  IN  [k \in 1 .. count |-> Ascii.zero + digit(k)]

printf_c(c) == <<c>>
printf_s(s) == s
\* faulty: a zero has no digits
printf_d_nonzero(val) ==
  IF val < 0 THEN printf_c(Ascii.minus) \o Reverse(LowestFirst(Wrap(-val)))
  ELSE IF val = 0 THEN <<>> ELSE Reverse(LowestFirst(val))

printf_d(val) ==
  IF val < 0 THEN printf_c(Ascii.minus) \o Reverse(LowestFirst(Wrap(-val)))
  ELSE Reverse(LowestFirst(val))

Conversion(letter, arg) ==
  CASE letter = Ascii.c -> printf_c(arg[1])
    [] letter = Ascii.s -> printf_s(arg)
    [] letter = Ascii.d -> printf_d(arg[1])

PrintfOrdinary ==
  /\ call.fn = "printf" /\ ret = Running
  /\ n <= Len(call.format) /\ call.format[n] # Ascii.percent
  /\ out' = out \o printf_c(call.format[n])
  /\ n' = n + 1
  /\ UNCHANGED <<call, mem, a, b, ret>>

\* After a % everything up to the conversion letter is skipped.  A format that
\* ends before has its terminator skipped too.
PrintfConversion ==
  /\ call.fn = "printf" /\ ret = Running
  /\ n <= Len(call.format) /\ call.format[n] = Ascii.percent
  /\ LET letters == {j \in n + 1 .. Len(call.format) : call.format[j] \in {Ascii.c, Ascii.s, Ascii.d}}
         j == CHOOSE x \in letters : \A y \in letters : x <= y
     IN  IF letters = {} THEN n' = Len(call.format) + 2 /\ UNCHANGED <<b, out>>
         ELSE /\ out' = out \o Conversion(call.format[j], call.args[b])
              /\ b' = b + 1
              /\ n' = j + 1
  /\ UNCHANGED <<call, mem, a, ret>>

\* The function has no return statement: what its callers get is arbitrary, and
\* none of them looks.
PrintfReturn ==
  /\ call.fn = "printf" /\ ret = Running /\ n = Len(call.format) + 1
  /\ ret' = 0
  /\ UNCHANGED <<call, mem, a, b, n, out>>

(***************************************************************************)
(* print_hex and print_dec of the PicoSoC firmware.  n is the position of  *)
(* the digit, counted from the lowest, b the variable digits.              *)
(***************************************************************************)

\* The last digit printed lowers "digits", so that no zero after it is left out.
PrintHexDigit ==
  /\ call.fn = "print_hex" /\ ret = Running
  /\ IF call.v[n] = 0 /\ n >= b THEN UNCHANGED <<b, out>>
     ELSE out' = Append(out, call.v[n]) /\ b' = n
  /\ n' = n - 1
  /\ ret' = IF n = 0 THEN 0 ELSE Running
  /\ UNCHANGED <<call, mem, a>>

\* A zero among the tens is left out even after the hundreds.
PrintDec ==
  /\ call.fn = "print_dec" /\ ret = Running
  /\ LET v == call.v
         digit(d) == IF d = 0 THEN <<>> ELSE <<Ascii.zero + d>>
     IN  out' = IF v >= 1000 THEN <<62, 61, 49, 48, 48, 48>>
                ELSE digit(v \div 100) \o digit((v % 100) \div 10) \o <<Ascii.zero + (v % 10)>>
  /\ ret' = 0
  /\ UNCHANGED <<call, mem, a, b, n>>

(***************************************************************************)
(* Calls                                                                   *)
(***************************************************************************)
Second == Region

\* Pointers that are never aligned together all take the loop of bytes: one such
\* pair for each offset of the first is enough.
StringCall(fn) ==
  \E t \in Strings, o1 \in 0 .. 3, g \in Letters, s \in Strings : \E o2 \in {o1, 1} :
    /\ fn # "strcmp" => s = <<>>
    /\ call = [fn |-> fn, s1 |-> o1, s2 |-> Second + o2, left |-> s, right |-> t, before |-> g]
    /\ mem = [x \in 0 .. 2 * Region - 1 |->
                IF x < Second THEN Place(0, o1, s, g)[x]
                ELSE Place(Second, Second + o2, t, CHOOSE h \in Letters : TRUE)[x]]
    /\ a = o1 /\ b = Second + o2
    /\ n = IF fn = "memcpy" THEN Len(t) + 1 ELSE 0

\* A format is made of parts: an ordinary character or a conversion with its
\* argument.
Convert(letter, arg) == [text |-> <<Ascii.percent, letter>>, arg |-> arg]
Parts ==
  {[text |-> <<Ascii.x>>, arg |-> <<>>], Convert(Ascii.c, <<65>>), Convert(Ascii.s, <<97, 98>>)}
    \union {Convert(Ascii.d, <<v>>) : v \in {-10, 0, 7, 100}}
Formats == BoundedSeq(Parts, 3) \union {<<Convert(Ascii.d, <<v>>)>> : v \in Ints}

Text(parts) == FlattenSeq([k \in DOMAIN parts |-> parts[k].text])
Arguments(parts) == SelectSeq([k \in DOMAIN parts |-> parts[k].arg], LAMBDA arg : arg # <<>>)

PrintfCall ==
  \E parts \in Formats :
    /\ call = [fn |-> "printf", parts |-> parts, format |-> Text(parts), args |-> Arguments(parts)]
    /\ mem = <<>> /\ a = 0 /\ b = 1 /\ n = 1

\* The numbers of digits the firmware asks for.
PrintHexCall ==
  \E v \in [0 .. 7 -> Nibbles], digits \in {2, 4, 6, 8} :
    /\ call = [fn |-> "print_hex", v |-> v, digits |-> digits]
    /\ mem = <<>> /\ a = 0 /\ b = digits /\ n = 7

\* A latency, a loop counter and a memory size in KiB are all it prints in decimal.
PrintDecCall ==
  \E v \in 0 .. 15 \union {128, 1000} :
    /\ call = [fn |-> "print_dec", v |-> v]
    /\ mem = <<>> /\ a = 0 /\ b = 0 /\ n = 0

LibInit ==
  /\ \/ StringCall("strcpy") \/ StringCall("strcmp") \/ StringCall("memcpy") \/ PrintfCall
     \/ PrintHexCall \/ PrintDecCall
  /\ out = <<>>
  /\ ret = Running

Strcpy == StrcpyByte \/ StrcpyWord \/ StrcpyTail
Strcmp == StrcmpByte \/ StrcmpEqualWords \/ StrcmpDifferentWords
Memcpy == MemcpyByte \/ MemcpyReturn
Printf == PrintfOrdinary \/ PrintfConversion \/ PrintfReturn

LibNext == Strcpy \/ Strcmp \/ Memcpy \/ Printf \/ PrintHexDigit \/ PrintDec

\* No call: the library is not what a behaviour is about.
LibIdle ==
  /\ call = [fn |-> "none"] /\ mem = <<>> /\ a = 0 /\ b = 0 /\ n = 0 /\ out = <<>> /\ ret = 0
(***************************************************************************)
(* What the functions promise                                              *)
(***************************************************************************)
\* strcpy and memcpy change exactly the bytes of the destination they were asked
\* to: the words strcpy stores never reach past the terminator, whatever the
\* alignment of the two pointers.
CopiesExactly ==
  call.fn \in {"strcpy", "memcpy"} /\ ret # Running =>
    /\ ret = call.s1
    /\ \A x \in 0 .. Region - 1 :
         mem[x] = IF x \in call.s1 .. Ends(call.s1, call.right)
                  THEN mem[call.s2 + (x - call.s1)] ELSE call.before
    /\ \A k \in DOMAIN call.right : mem[call.s2 + k - 1] = call.right[k]

\* A string counts as smaller than its extensions.
Smaller(s, t) ==
  \/ IsStrictPrefix(s, t)
  \/ \E k \in DOMAIN s \cap DOMAIN t : s[k] < t[k] /\ \A j \in 1 .. k - 1 : s[j] = t[j]

\* strcmp returns the sign of the first difference, and is not misled by what
\* follows the terminators in the last word.
OrdersStrings ==
  call.fn = "strcmp" /\ ret # Running =>
    ret = CASE call.left = call.right -> 0
            [] Smaller(call.left, call.right) -> -1
            [] OTHER -> 1

\* While a string function runs its pointers are at or before the terminators:
\* no word that lies wholly behind a string is read.
NeverPastTerminator ==
  ret = Running =>
    /\ call.fn \in {"strcpy", "strcmp"} => b <= Ends(call.s2, call.right)
    /\ call.fn = "strcmp" => a <= Ends(call.s1, call.left)

\* printf writes the ordinary characters and the arguments in the order of the
\* format, a number as its shortest decimal numeral.  The smallest int, whose
\* negation overflows, is the exception.
Numeral ==
  [v \in 0 .. 200 |->
     CHOOSE s \in UNION {[1 .. k -> 0 .. 9] : k \in 1 .. 3} :
       /\ v = FoldLeft(LAMBDA x, d : 10 * x + d, 0, s)
       /\ Len(s) > 1 => s[1] # 0]
PrintsArguments ==
  call.fn = "printf" /\ ret # Running =>
    LET rendered(part) ==
          IF part.arg = <<>> THEN part.text
          ELSE IF part.text # <<Ascii.percent, Ascii.d>> THEN part.arg
          ELSE LET v == part.arg[1]
                   digits == Numeral[IF v < 0 THEN -v ELSE v]
               IN  (IF v < 0 THEN <<Ascii.minus>> ELSE <<>>)
                     \o [k \in DOMAIN digits |-> Ascii.zero + digits[k]]
        overflows(part) == part = Convert(Ascii.d, <<-(2^(IntBits - 1))>>)
        parts == call.parts
    IN  \/ \E k \in DOMAIN parts : overflows(parts[k])
        \/ out = FlattenSeq([k \in DOMAIN parts |-> rendered(parts[k])])

\* print_hex writes all digits from the first that is not zero, and at least as
\* many as it was asked for.
PrintsHex ==
  call.fn = "print_hex" /\ ret # Running =>
    LET significant == {i \in 0 .. 7 : call.v[i] # 0 \/ i < call.digits}
        count == CHOOSE i \in significant : \A j \in significant : j <= i
    IN  out = [k \in 1 .. count + 1 |-> call.v[count + 1 - k]]

\* print_dec writes the numeral of a number it is called with.
PrintsNumbers ==
  /\ PrintsHex
  /\ call.fn = "print_dec" /\ ret # Running /\ call.v < 1000 =>
       out = [k \in DOMAIN Numeral[call.v] |-> Ascii.zero + Numeral[call.v][k]]

\* What the library and the firmware write for a value is the value as a person
\* would write it: printf, print_hex and print_dec together.
PrintsRight == PrintsArguments /\ PrintsNumbers
===============================================================================
