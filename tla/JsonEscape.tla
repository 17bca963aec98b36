----------------------------- MODULE JsonEscape -----------------------------
(***************************************************************************)
(* How a string is written into the JSON file: json_string_out and         *)
(* json_escape (module/cdp_proc_json.c) put it, character by character,    *)
(* into the buffer of a seq_file, which is full when its count is its      *)
(* size.  Then the kernel throws the output away, doubles the buffer and   *)
(* has the entry shown again.                                              *)
(***************************************************************************)
EXTENDS Integers, SequencesExt

CONSTANTS
  Sources,    \* the strings, of the characters below
  Before,     \* how many bytes may come before the string
  FirstSize   \* the size of the buffer to begin with

\* A letter, the letter n, which stands for a line feed after a backslash, and
\* the characters that are treated in a way of their own.
Character == {"x", "n", "newline", "return", "tab", "quote", "backslash"}

\* What is put into the buffer; "t" is the letter.
Output == {"x", "n", "t", "quote", "backslash"}

ASSUME EscapeAssumption ==
  /\ Sources \subseteq Seq(Character)
  /\ Before \subseteq Nat
  /\ FirstSize \in Nat \ {0}

VARIABLES
  source,  \* the string
  read,    \* how many of its characters are done
  size,    \* the size of the buffer
  used,    \* how many bytes of it are used, as the seq_file knows
  first,   \* how many were used before the string
  out,     \* what json_escape has put there
  stage    \* "open", "escape", "close", "shown", "done"

escapeVars == <<source, read, size, used, first, out, stage>>

EscapeTypeOK ==
  /\ source \in Sources
  /\ read \in 0..Len(source)
  /\ size \in Nat /\ used \in Nat /\ first \in Nat
  /\ out \in Seq(Output)
  /\ stage \in {"open", "escape", "close", "shown", "done"}

EscapeInit ==
  /\ source \in Sources /\ first \in Before
  /\ read = 0 /\ size = FirstSize /\ used = 0 /\ out = <<>>
  /\ stage = "open"

-----------------------------------------------------------------------------
(* The seq_file.                                                           *)

Overflowed == used = size

\* seq_putc: a byte for which there is no room is left out.
PutChar == used' = IF used < size THEN used + 1 ELSE used

\* The entry is shown again, into a buffer of twice the size.
ShowAgain ==
  /\ stage = "shown" /\ Overflowed
  /\ size' = 2 * size
  /\ stage' = "open" /\ read' = 0 /\ used' = 0 /\ out' = <<>>
  /\ UNCHANGED <<source, first>>

Shown ==
  /\ stage = "shown" /\ ~Overflowed
  /\ stage' = "done"
  /\ UNCHANGED <<source, read, size, used, first, out>>

-----------------------------------------------------------------------------
(* json_string_out.                                                        *)

\* What comes before the string, with its name and the opening quote.
OpenString ==
  /\ stage = "open"
  /\ stage' = "escape"
  /\ used' = IF first < size THEN first ELSE size
  /\ UNCHANGED <<source, read, size, first, out>>

\* The closing quote.
CloseString ==
  /\ stage = "close"
  /\ stage' = "shown"
  /\ PutChar
  /\ UNCHANGED <<source, read, size, first, out>>

-----------------------------------------------------------------------------
(* json_escape.                                                            *)

\* How far the output goes: the count is only written when it is over.
Reaches == used + Len(out)

Looping == stage = "escape" /\ read < Len(source) /\ Reaches < size

Char == source[read + 1]

\* What an escape puts after the backslash.
Escape == [newline |-> "n", tab |-> "t", quote |-> "quote"]

\* One byte of the two.
MutEscapeFits == Reaches < size

EscapeFits == Reaches + 2 < size

EscapeChar ==
  /\ Looping /\ Char \in DOMAIN Escape
  /\ EscapeFits
  /\ out' = out \o <<"backslash", Escape[Char]>>
  /\ read' = read + 1
  /\ UNCHANGED <<source, size, used, first, stage>>

Overflow == used' = size

\* An escape that does not fit makes the buffer count as full.
NoRoom ==
  /\ Looping /\ Char \in DOMAIN Escape
  /\ ~EscapeFits
  /\ Overflow
  /\ stage' = "close"
  /\ UNCHANGED <<source, read, size, first, out>>

\* The character is not passed over.
MutSkipReturn == Looping /\ Char = "return" /\ UNCHANGED escapeVars

SkipReturn ==
  /\ Looping /\ Char = "return"
  /\ read' = read + 1
  /\ UNCHANGED <<source, size, used, first, out, stage>>

PlainChar ==
  /\ Looping /\ Char \notin DOMAIN Escape \union {"return"}
  /\ out' = Append(out, Char)
  /\ read' = read + 1
  /\ UNCHANGED <<source, size, used, first, stage>>

EndEscape ==
  /\ stage = "escape" /\ ~Looping
  /\ used' = Reaches
  /\ stage' = "close"
  /\ UNCHANGED <<source, read, size, first, out>>

EscapeNext ==
  \/ OpenString \/ EscapeChar \/ NoRoom \/ SkipReturn \/ PlainChar
  \/ EndEscape \/ CloseString \/ ShowAgain \/ Shown

\* The kernel shows an entry to its end.
EscapeSpec ==
  EscapeInit /\ [][EscapeNext]_escapeVars /\ WF_escapeVars(EscapeNext)

-----------------------------------------------------------------------------
(* Properties.                                                             *)

\* No byte of an escape is put past the end of the buffer.
NeverPastBuffer ==
  /\ used <= size
  /\ stage = "escape" => Reaches <= size

\* A reader of JSON that has come to a byte.
ReadByte(state, byte) ==
  IF byte = "backslash" /\ ~state.escaped
    THEN [escaped |-> TRUE, text |-> state.text]
    ELSE [escaped |-> FALSE,
          text |-> Append(state.text,
                     CASE state.escaped /\ byte = "n" -> "newline"
                       [] state.escaped /\ byte = "t" -> "tab"
                       [] OTHER -> byte)]

Unread == [escaped |-> FALSE, text |-> <<>>]

\* What it makes of the output.
Decoded(bytes) ==
  LET end == FoldLeft(ReadByte, Unread, bytes)
  IN  IF end.escaped THEN <<"invalid">> ELSE end.text

KeepChar(kept, char) == IF char = "return" THEN kept ELSE Append(kept, char)

WithoutReturns(chars) == FoldLeft(KeepChar, <<>>, chars)

SameButReturns == Decoded(out) = WithoutReturns(source)

\* However full the buffer was, what is kept of a string without a backslash is the
\* whole of it but for its carriage returns: a part of it, or half an escape, is
\* never kept.  A backslash is put as it is (cdp_proc_json.c:54-55) and reads back
\* as the beginning of an escape, so that strings with one are left out.
KeptWhole ==
  stage = "done" /\ ~Contains(source, "backslash") =>
    SameButReturns /\ used = first + Len(out) + 1

\* No byte goes past the buffer, and a string is kept whole or not at all.
StringKept == NeverPastBuffer /\ KeptWhole

\* The string is shown in the end: the buffer grows until it has room.
ShownInTheEnd == <>(stage = "done")
=============================================================================
