------------------------------- MODULE Logger -------------------------------
(***************************************************************************)
(* util/kernel_logger.cpp: Util::vsnprintf, which every klog() formats its *)
(* message with, one step per turn of the loop over the format.  The       *)
(* formats are all the short ones over the characters the switch tells     *)
(* apart; the arguments are taken from small sets as va_arg() reaches      *)
(* them.                                                                   *)
(***************************************************************************)
EXTENDS Integers, Sequences

LOCAL INSTANCE SequencesExt

CONSTANTS
  MAX_FORMAT,          \* the longest format
  INT, LLONG,          \* how many values an int and a long long have
  TMP_DEC, TMP_HEX,    \* the sizes of tmp[] for the digits of a long long
  Ints, Longs,         \* the numbers that are passed: of type int or unsigned, of type long long
  Strings, NULL        \* the strings that are passed, and the null pointer

ASSUME LoggerAssumption ==
  /\ Ints \subseteq -(INT \div 2) .. INT - 1
  /\ Longs \subseteq 0 .. LLONG - 1

(* "a" stands for any character that has no case of its own.               *)
Chars == {"%", "s", "d", "u", "x", "l", "nl", "a"}

(* No format of the kernel ends in %ll, after which fmt would step over    *)
(* the end.                                                                *)
Formats == {f \in BoundedSeq(Chars, MAX_FORMAT) : ~IsSuffix(<<"%", "l", "l">>, f)}

VARIABLES
  format,  \* the format string
  fmt,     \* the place of fmt in it; Len(format) + 1 is the terminating 0
  str,     \* what has been written
  taken    \* the arguments taken: [conv, val] and the place [from, to] of what was written for it

logvars == <<format, fmt, str, taken>>

LogInit == format \in Formats /\ fmt = 1 /\ str = <<>> /\ taken = <<>>

Char(n) == IF n <= Len(format) THEN format[n] ELSE "0"
-----------------------------------------------------------------------------
Digit == <<"0", "1", "2", "3", "4", "5", "6", "7", "8", "9", "a", "b", "c", "d", "e", "f">>

(* The loop that fills tmp from the lowest digit.                          *)
RECURSIVE Push(_, _, _)
Push(tmp, val, base) ==
  IF val > 0 THEN Push(Append(tmp, Digit[(val % base) + 1]), val \div base, base) ELSE tmp

(* The digits in the order in which they are copied from tmp.              *)
Number(val, base) == IF val = 0 THEN <<"0">> ELSE Reverse(Push(<<>>, val, base))

(* What a %d may write.  The most negative int has no negation: its sign   *)
(* is written, and whatever the overflow leaves.                           *)
Signed(val) ==
  IF val >= 0 THEN {Number(val, 10)}
  ELSE {<<"-">> \o Number(-val, 10)} \cup (IF val = -(INT \div 2) THEN {<<"-">>} ELSE {})

(* One turn writes s and goes on behind the character at n.                *)
Write(s, n) == str' = str \o s /\ fmt' = n + 1

Put(s, n) == Write(s, n) /\ UNCHANGED taken

(* It writes s for an argument that it takes.                              *)
Take(conv, val, s, n) ==
  /\ Write(s, n)
  /\ taken' = Append(taken, [conv |-> conv, val |-> val,
                             from |-> Len(str) + 1, to |-> Len(str) + Len(s)])

Plain == Char(fmt) # "%" /\ Put(IF Char(fmt) = "nl" THEN <<"cr", "nl">> ELSE <<Char(fmt)>>, fmt)

(* The cases of the switch on the character behind a '%'.                  *)
Conversion(c) == Char(fmt) = "%" /\ Char(fmt + 1) = c

String ==
  /\ Conversion("s")
  /\ \E s \in Strings \cup {NULL} : Take("s", s, IF s = NULL THEN <<>> ELSE s, fmt + 1)

Decimal ==
  /\ Conversion("d")
  /\ \E val \in {v \in Ints : v < INT \div 2} : \E s \in Signed(val) : Take("d", val, s, fmt + 1)

Unsigned(c, base) ==
  /\ Conversion(c)
  /\ \E val \in {v \in Ints : v >= 0} : Take(c, val, Number(val, base), fmt + 1)

(* %ll takes an argument when x or u follows, and nothing is written for   *)
(* any other %l.                                                           *)
Long ==
  /\ Conversion("l")
  /\ LET c == Char(fmt + 3) IN
     IF Char(fmt + 2) = "l"
     THEN IF c \in {"x", "u"}
          THEN \E val \in Longs : Take(c, val, Number(val, IF c = "x" THEN 16 ELSE 10), fmt + 3)
          ELSE Put(<<>>, fmt + 3)
     ELSE Put(<<>>, fmt + 1)

Percent == Conversion("%") /\ Put(<<"%">>, fmt + 1)

(* Mutant: a '%' at the end of the format is not stepped back from. *)
Unknown_no_back ==
  /\ Char(fmt) = "%" /\ Char(fmt + 1) \notin {"s", "d", "u", "x", "l", "%"}
  /\ Put(IF Char(fmt + 1) # "0" THEN <<"%", Char(fmt + 1)>> ELSE <<"%">>, fmt + 1)

Unknown ==
  /\ Char(fmt) = "%" /\ Char(fmt + 1) \notin {"s", "d", "u", "x", "l", "%"}
  /\ IF Char(fmt + 1) # "0" THEN Put(<<"%", Char(fmt + 1)>>, fmt + 1) ELSE Put(<<"%">>, fmt)

vsnprintf ==
  /\ Char(fmt) # "0"
  /\ Plain \/ String \/ Decimal \/ Unsigned("u", 10) \/ Unsigned("x", 16) \/ Long \/ Percent \/ Unknown
  /\ UNCHANGED format
-----------------------------------------------------------------------------
(* The number that a string of digits stands for.                          *)
ValueOf(s, base) ==
  FoldLeft(LAMBDA n, c : n * base + (CHOOSE d \in 1 .. 16 : Digit[d] = c) - 1, 0, s)

Reads(s, val, base) ==
  /\ s # <<>> /\ ValueOf(s, base) = val
  /\ s[1] = "0" => Len(s) = 1
  /\ Len(s) <= IF base = 16 THEN TMP_HEX ELSE TMP_DEC

(* What is written for an argument reads back as that argument, whatever   *)
(* the text around it, in as many characters as tmp holds and without a    *)
(* leading 0; the most negative int, whose negation overflows, is left     *)
(* out.  fmt never steps over the end of the format.                       *)
LogReadsBack ==
  /\ fmt <= Len(format) + 1
  /\ \A n \in DOMAIN taken :
       LET a == taken[n]  s == SubSeq(str, a.from, a.to) IN
       CASE a.conv = "s" -> s = IF a.val = NULL THEN <<>> ELSE a.val
         [] a.conv = "d" /\ a.val < 0 ->
              s[1] = "-" /\ (a.val # -(INT \div 2) => Reads(Tail(s), -a.val, 10))
         [] a.conv = "x" -> Reads(s, a.val, 16)
         [] OTHER -> Reads(s, a.val, 10)
=============================================================================
