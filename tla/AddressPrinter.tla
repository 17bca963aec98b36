--------------------------- MODULE AddressPrinter ---------------------------
(***************************************************************************)
(* How the files of /proc print an IPv6 address: seq_print_sockaddr        *)
(* (module/cdp_proc_print_sockaddr.c) looks for the longest run of zeros   *)
(* and leaves it out.  What is printed is a sequence of hextets and colons.*)
(***************************************************************************)
EXTENDS Integers, SequencesExt

CONSTANTS
  N,       \* the number of hextets, 8 in the code
  Hextets  \* the values a hextet may have

ASSUME PrinterAssumption == N \in Nat \ {0} /\ Hextets \subseteq Nat

Places == 0..(N - 1)

VARIABLES
  hextets,       \* the address
  loop,          \* "search", "count", "print", "done"
  i,             \* where the search is
  count,         \* the zeros found from there on
  longest,       \* the longest run so far
  longestIndex,  \* where it begins
  text           \* what was printed

printerVars == <<hextets, loop, i, count, longest, longestIndex, text>>

Colon == -1

PrinterTypeOK ==
  /\ hextets \in [Places -> Hextets]
  /\ loop \in {"search", "count", "print", "done"}
  /\ i \in 0..N
  /\ count \in 0..N
  /\ longest \in 0..N
  /\ longestIndex \in Places \union {-1}
  /\ text \in Seq(Hextets \union {Colon})

PrinterInit ==
  /\ hextets \in [Places -> Hextets]
  /\ loop = "search" /\ i = 0 /\ count = 0
  /\ longest = 0 /\ longestIndex = -1 /\ text = <<>>

-----------------------------------------------------------------------------
(* The search.                                                             *)

\* A longer run may still begin here.
Worthwhile == i + longest < N

StartCount ==
  /\ loop = "search" /\ Worthwhile
  /\ loop' = "count"
  /\ count' = 0
  /\ UNCHANGED <<hextets, i, longest, longestIndex, text>>

MoreZeros == count + i < N /\ hextets[i + count] = 0

CountZero ==
  /\ loop = "count" /\ MoreZeros
  /\ count' = count + 1
  /\ UNCHANGED <<hextets, loop, i, longest, longestIndex, text>>

\* A run of the same length takes the place of the first.
MutLonger == count >= longest /\ count > 0

Longer == count > longest

EndCount ==
  /\ loop = "count" /\ ~MoreZeros
  /\ loop' = "search"
  /\ i' = i + 1
  /\ longest' = IF Longer THEN count ELSE longest
  /\ longestIndex' = IF Longer THEN i ELSE longestIndex
  /\ UNCHANGED <<hextets, count, text>>

EndSearch ==
  /\ loop = "search" /\ ~Worthwhile
  /\ loop' = "print"
  /\ UNCHANGED <<hextets, i, count, longest, longestIndex, text>>

-----------------------------------------------------------------------------
(* The output.                                                             *)

HextetsOf(first, last) == [k \in 1..(last - first + 1) |-> hextets[first + k - 1]]

Joined(numbers) ==
  [k \in 1..(2 * Len(numbers) - 1) |->
     IF k % 2 = 1 THEN numbers[(k + 1) \div 2] ELSE Colon]

\* A colon after each number, and one before each.
Headed(numbers) == FlattenSeq([k \in DOMAIN numbers |-> <<numbers[k], Colon>>])
Tailed(numbers) == FlattenSeq([k \in DOMAIN numbers |-> <<Colon, numbers[k]>>])

\* The hextet after the run is left out.
MutAfterRun == HextetsOf(longestIndex + longest + 1, N - 1)

AfterRun == HextetsOf(longestIndex + longest, N - 1)

PrintAddress ==
  /\ loop = "print"
  /\ loop' = "done"
  /\ text' = IF longest = N THEN <<Colon, Colon>>
             ELSE IF longest = 0 THEN Joined(HextetsOf(0, N - 1))
             ELSE Headed(HextetsOf(0, longestIndex - 1)) \o Tailed(AfterRun)
  /\ UNCHANGED <<hextets, i, count, longest, longestIndex>>

PrinterNext == StartCount \/ CountZero \/ EndCount \/ EndSearch \/ PrintAddress

PrinterSpec == PrinterInit /\ [][PrinterNext]_printerVars

-----------------------------------------------------------------------------
(* Properties.                                                             *)

\* n zeros from place p on.
Run(p, n) == p + n <= N /\ \A k \in p..(p + n - 1) : hextets[k] = 0

\* The run that is left out is a run of zeros, none is longer, and no other of
\* its length comes before it, although the search ends early.
FoundLongest ==
  loop \in {"print", "done"} =>
    /\ \A p \in Places, n \in 1..N : Run(p, n) => n <= longest
    /\ longest > 0 =>
         /\ Run(longestIndex, longest)
         /\ \A p \in Places : Run(p, longest) => longestIndex <= p

\* The text stands for the address: all hextets, or those before and those
\* after some run of zeros, with a double colon in its place.
Denotes ==
  \/ text = Joined(HextetsOf(0, N - 1))
  \/ \E p \in Places, n \in 1..N :
       /\ Run(p, n)
       /\ text = Joined(HextetsOf(0, p - 1)) \o <<Colon, Colon>>
                   \o Joined(HextetsOf(p + n, N - 1))

\* An address is printed so that it can be read back, when the run that is left
\* out is not at its beginning or its end, or is all of it.
InnerRunsDenote ==
  /\ loop = "done"
  /\ longest \in 1..(N - 1) =>
       longestIndex > 0 /\ longestIndex + longest < N
  => Denotes
=============================================================================
