----------------------------- MODULE MCConsole -----------------------------
(* One task prints numbers and every kind of character, or two tasks print *)
(* at the same time.                                                       *)
EXTENDS Console

Numbers == {0, 7, 10, 127, 128, 255, 256, 4095, 65536, 1000000, 2147483647}
Item(directive, arg, chars) ==
  [directive |-> directive, arg |-> arg, text |-> chars]
Printed(item) == [op |-> "printk", arg |-> 0, format |-> <<item>>]
Literal(chars) == Printed(Item("literal", 0, chars))

NumberCalls ==
  {[op |-> o, arg |-> n, format |-> <<>>] :
     o \in {"screen_write_hex", "screen_write_dec"}, n \in Numbers}
  \cup {Printed(Item(d, n, <<>>)) :
     d \in {"x", "d", "c", "p", "b"}, n \in Numbers}

Strings ==
  {[op |-> "printk", arg |-> 0,
    format |-> <<Item("literal", 0, <<97>>), Item("s", 0, <<98, 10>>),
                 Item("x", 11, <<>>)>>]}

\* x, tab, newline, carriage return, backspace, bell
Alone == {<<120, a, 121, b, 122, c>> : a, b, c \in {8, 9, 10, 13, 119}}
         \cup {<<8, 7, 120>>}
Together == {<<120, 121>>, <<10, 120>>, <<120, 10>>, <<9, 13>>}

MCProgram(first, second) == [t \in Task |-> IF t = 1 THEN first ELSE second]
MCPrograms ==
  {MCProgram(<<c>>, <<>>) : c \in NumberCalls \cup Strings}
  \cup {MCProgram(<<Literal(s)>>, <<>>) : s \in Alone}
  \cup {MCProgram(<<Literal(<<10>>), Literal(s)>>, <<Literal(u)>>) :
          s, u \in Together}
=============================================================================
