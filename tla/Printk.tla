------------------------------- MODULE Printk -------------------------------
(***************************************************************************)
(* The texts that printk, screen_write_hex and screen_write_dec make of    *)
(* their arguments.  Characters are their ASCII codes.  A format is a      *)
(* sequence of items: a directive with its argument, a number or a text,   *)
(* or a literal text.                                                      *)
(*                                                                         *)
(* sprintk is given room for 1024 characters, more than any message of the *)
(* kernel needs; what happens beyond is left out.                          *)
(***************************************************************************)
EXTENDS Integers, Sequences, SequencesExt

Zero == 48
Letter(nibble) == 97 + nibble - 10
HexDigit(nibble) == IF nibble >= 10 THEN Letter(nibble) ELSE Zero + nibble

\* Most significant first, what the loops over acc % 10 reverse into.
Digits(n) ==
  LET digits[k \in Nat] ==
        IF k = 0 THEN <<>> ELSE Append(digits[k \div 10], Zero + (k % 10))
  IN digits[n]

\* u32_to_dec continues with a char.
SignedChar(n) == LET low == n % 256 IN IF low >= 128 THEN low - 256 ELSE low
U32ToDecUnreversed(n) ==                                  \* mutant
  IF n = 0 THEN <<Zero>>
  ELSE IF SignedChar(n) > 0 THEN Reverse(Digits(SignedChar(n))) ELSE <<>>
U32ToDec(n) ==
  IF n = 0 THEN <<Zero>>
  ELSE IF SignedChar(n) > 0 THEN Digits(SignedChar(n)) ELSE <<>>

\* Leading zeroes are skipped, the last digit is always written.
Nibble(n, i) == (n \div 16 ^ i) % 16
Shown(n) == {i \in 1..7 : \E j \in i..7 : Nibble(n, j) # 0}
U32ToHex(n) ==
  LET shown == Cardinality(Shown(n))
  IN <<48, 120>> \o [k \in 1..shown |-> HexDigit(Nibble(n, shown + 1 - k))]
                 \o <<HexDigit(n % 16)>>

ScreenWriteDec(n) == IF n = 0 THEN <<Zero>> ELSE Digits(n)

True == <<116, 114, 117, 101>>
False == <<102, 97, 108, 115, 101>>
Nul == <<78, 85, 76>>

\* One directive of sprintk, or a literal (what follows an unknown % is one).
Formatted(item) ==
  CASE item.directive = "x" -> U32ToHex(item.arg)
    [] item.directive \in {"d", "c"} -> U32ToDec(item.arg)
    [] item.directive = "p" ->
         <<45, 62>> \o IF item.arg = 0 THEN Nul ELSE U32ToDec(item.arg)
    [] item.directive = "b" -> IF item.arg = 0 THEN False ELSE True
    [] item.directive \in {"s", "literal"} -> item.text

Sprintk(format) == FlattenSeq([k \in DOMAIN format |-> Formatted(format[k])])
=============================================================================
