---------------------------- MODULE MakeInitrd ----------------------------
(***************************************************************************)
(* make_initrd, the host program that packs files into the image that the  *)
(* kernel is linked with: an int with their number, Slots headers, and     *)
(* their contents.  Sizes are in bytes; a header is HeaderSize of them.    *)
(*                                                                         *)
(* argc is declared a char, which keeps it modulo CharRange, as a signed   *)
(* number; off and the length in a header are unsigned int, which wrap at  *)
(* UInt (2^32).  Bounds: CharRange, Slots (256 and 64 in the code) and     *)
(* UInt are scaled down together; MaxArgs caps the arguments.              *)
(***************************************************************************)
EXTENDS Integers, Sequences, SequencesExt

CONSTANTS CharRange, UInt, Slots, MaxArgs, HeaderSize,
          Names, Lengths              \* of the files on the command line

ASSUME ArgumentAssumption ==
  /\ CharRange \in Nat /\ CharRange % 2 = 0 /\ CharRange > 0
  /\ MaxArgs \in Nat \ {0} /\ Slots \in Nat \ {0} /\ HeaderSize \in Nat \ {0}
  /\ CharRange \div 4 <= Slots /\ UInt \in Nat \ {0}
  /\ Lengths \subseteq Nat

VARIABLES stage, args,          \* args: how many the shell gave
          headers, off,         \* the locals of main
          data                  \* what is written: where each file starts

pack_vars == <<stage, args, headers, off, data>>

\* C truncates towards zero.
SignedChar(n) == LET low == n % CharRange IN
                 IF low >= CharRange \div 2 THEN low - CharRange ELSE low
Halved(n) == IF n < 0 THEN -((-n) \div 2) ELSE n \div 2
nheaders == Halved(SignedChar(args) - 1)

\* Mutant: off does not count the int with the number of files.
TableEndShort == HeaderSize * Slots
TableEnd == HeaderSize * Slots + 4

PackInit ==
  /\ stage = "measure" /\ args \in 1..MaxArgs
  /\ headers = <<>> /\ off = TableEnd % UInt /\ data = <<>>

\* One turn of the first loop.
Measure(name, length) ==
  /\ stage = "measure" /\ Len(headers) < nheaders
  /\ headers' = Append(headers, [name |-> name, offset |-> off,
                                 length |-> length % UInt])
  /\ off' = (off + (length % UInt)) % UInt
  /\ UNCHANGED <<stage, args, data>>

\* fopen fails: no image is written.
FileNotFound ==
  /\ stage = "measure" /\ Len(headers) < nheaders
  /\ stage' = "failed"
  /\ UNCHANGED <<args, headers, off, data>>

WriteTable ==
  /\ stage = "measure" /\ Len(headers) >= nheaders
  /\ stage' = "write"
  /\ UNCHANGED <<args, headers, off, data>>

\* The place that the next fwrite of the second loop gets in the image.
Written == 4 + HeaderSize * Slots

Place == IF data = <<>> THEN Written
         ELSE Last(data) + headers[Len(data)].length

\* One turn of the second loop.
WriteFile ==
  /\ stage = "write" /\ Len(data) < nheaders
  /\ data' = Append(data, Place)
  /\ UNCHANGED <<stage, args, headers, off>>

Close ==
  /\ stage = "write" /\ Len(data) >= nheaders
  /\ stage' = "packed"
  /\ UNCHANGED <<args, headers, off, data>>

Pack == \/ \E name \in Names, length \in Lengths : Measure(name, length)
        \/ FileNotFound \/ WriteTable \/ WriteFile \/ Close

-----------------------------------------------------------------------------
\* The headers fit the table on the stack, however many arguments there are;
\* every file asked for has one unless argc wrapped; and the header of each
\* tells where the second loop wrote it, if that is a place an unsigned int can
\* tell.
PackTiles ==
  /\ Len(headers) <= Slots
  /\ stage = "packed" =>
       /\ \A k \in DOMAIN headers : data[k] < UInt => data[k] = headers[k].offset
       /\ args < CharRange \div 2 => Len(headers) = (args - 1) \div 2
       /\ args < CharRange \div 2 => nheaders = Len(headers)

=============================================================================
