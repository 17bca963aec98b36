------------------------------ MODULE Checksum ------------------------------
(***************************************************************************)
(* The checksum of a frame: ip_compute_csum (libcdp/platform/checksum.h),  *)
(* which the stream writer injects into a placeholder and with which the   *)
(* stream reader validates a frame.  A byte is a number below Base, 256 in *)
(* the code; a word is two bytes.                                          *)
(***************************************************************************)
EXTENDS Integers, Sequences, FiniteSetsExt

CONSTANTS
  Base,      \* one more than the largest byte
  MaxLength  \* bounds the length of a frame

\* A frame is not longer than 64 KB: the sum of its words fits 32 bits, and adding
\* the carries twice leaves none.
ASSUME ChecksumAssumption ==
  /\ Base \in Nat \ {0, 1}
  /\ MaxLength \in 0..(Base * Base)

Byte == 0..(Base - 1)
Word == Base * Base

VARIABLES
  frame,    \* the bytes written so far, or sent
  state,    \* "write", "sent", "changed"
  verdict   \* what the reader said of the frame: "none", "valid", "invalid"

checksumVars == <<frame, state, verdict>>

ChecksumTypeOK ==
  /\ frame \in Seq(Byte) /\ Len(frame) <= MaxLength
  /\ state \in {"write", "sent", "changed"}
  /\ verdict \in {"none", "valid", "invalid"}

ChecksumInit == frame = <<>> /\ state = "write" /\ verdict = "none"

\* The offset of the placeholder, which a version and a time to live precede.
Placeholder == 2

-----------------------------------------------------------------------------
(* ip_compute_csum.                                                        *)

Total(numbers) == MapThenSumSet(LAMBDA i : numbers[i], DOMAIN numbers)

\* Bytes at an even offset, of which the first is one, are the high ones.
Weighed(bytes) ==
  [i \in 1..Len(bytes) |-> IF i % 2 = 0 THEN bytes[i] ELSE bytes[i] * Base]

ByteSum(bytes) == Total(Weighed(bytes))

\* The carry is added once.
MutFolded(sum) == (sum % Word) + (sum \div Word)

\* The carry is added, and the carry of that.
Folded(sum) ==
  LET once == (sum % Word) + (sum \div Word)
  IN  (once % Word) + (once \div Word)

Flip16(word) == (word \div Base) + (word % Base) * Base

ComputeCsum(bytes) == Flip16(Word - 1 - (Folded(ByteSum(bytes)) % Word))

-----------------------------------------------------------------------------

\* The high byte is written whole.
MutHighByte(word) == word

HighByte(word) == word \div Base

LowByte(word) == word % Base

\* stream_writer_put8, and what else writes bytes; a zero for the placeholder.
PutByte ==
  /\ state = "write" /\ Len(frame) < MaxLength
  /\ \E byte \in (IF Len(frame) \in {Placeholder, Placeholder + 1}
                    THEN {0} ELSE Byte) :
       frame' = Append(frame, byte)
  /\ UNCHANGED <<state, verdict>>

Injected(word) ==
  [frame EXCEPT ![Placeholder + 1] = LowByte(word),
                ![Placeholder + 2] = HighByte(word)]

\* stream_writer_inject_checksum, of a frame that has the placeholder.
InjectChecksum ==
  /\ state = "write" /\ Len(frame) >= Placeholder + 2
  /\ frame' = Injected(ComputeCsum(frame))
  /\ state' = "sent"
  /\ UNCHANGED verdict

\* A byte changes on the way.
ChangeByte ==
  /\ state = "sent" /\ verdict = "none"
  /\ \E i \in 1..Len(frame), byte \in Byte :
       byte # frame[i] /\ frame' = [frame EXCEPT ![i] = byte]
  /\ state' = "changed"
  /\ UNCHANGED verdict

\* stream_reader_validate_checksum.
Validate ==
  /\ state # "write" /\ verdict = "none"
  /\ verdict' = IF ComputeCsum(frame) = 0 THEN "valid" ELSE "invalid"
  /\ UNCHANGED <<frame, state>>

ChecksumNext == PutByte \/ InjectChecksum \/ ChangeByte \/ Validate

ChecksumSpec == ChecksumInit /\ [][ChecksumNext]_checksumVars

-----------------------------------------------------------------------------
(* Properties.                                                             *)

\* The reader takes every frame that the writer sent, of an odd length too.
SentIsValid == state = "sent" => verdict # "invalid"

\* The reader takes no frame of which one byte has changed, of the checksum or
\* of what it covers.
ChangeIsSeen == state = "changed" => verdict # "valid"

\* The words of a frame, a last odd byte with a zero after it.
Words(bytes) ==
  LET padded == IF Len(bytes) % 2 = 0 THEN bytes ELSE Append(bytes, 0)
  IN  [i \in 1..(Len(padded) \div 2) |->
         padded[2 * i - 1] * Base + padded[2 * i]]

\* The verdict is that of the Internet checksum: the words, the checksum with
\* them, add up to nothing but a multiple of the largest word.
VerdictIsInternets ==
  LET sum == Total(Words(frame))
  IN  verdict # "none" =>
        (verdict = "valid" <=> sum > 0 /\ sum % (Word - 1) = 0)

\* Writer and reader agree, on frames of an odd length too, a changed byte is
\* seen, and the checksum is the one the protocol asks for.
ChecksumHolds == SentIsValid /\ ChangeIsSeen /\ VerdictIsInternets
=============================================================================
