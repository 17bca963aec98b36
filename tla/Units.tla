-------------------------------- MODULE Units -------------------------------
(***************************************************************************)
(* The parts of the system that share no state with any other, together:   *)
(* the checksum of a frame, what the files of /proc print, the timer and   *)
(* the time of day, and loading.  A behaviour is one of one part, and the  *)
(* others stay as they are.                                                *)
(***************************************************************************)
EXTENDS Checksum, AddressPrinter, JsonEscape, JsonEntry, WallClock, ModuleLoad

\* Where none is shown, the string is the empty one.
ASSUME UnitsAssumption == <<>> \in Sources

VARIABLE part

unitsVars ==
  <<part, checksumVars, printerVars, escapeVars, entryVars, clockVars,
    moduleVars>>

UnitsTypeOK ==
  /\ ChecksumTypeOK /\ PrinterTypeOK /\ EscapeTypeOK
  /\ EntryTypeOK /\ ClockTypeOK /\ LoadTypeOK

\* An empty string that was shown.
EscapeOver ==
  /\ source = <<>> /\ first = 0
  /\ read = 0 /\ size = FirstSize /\ used = 1 /\ out = <<>>
  /\ stage = "done"

UnitsInit ==
  /\ part \in {"checksum", "address", "string", "entry", "clock", "load"}
  /\ ChecksumInit
  /\ PrinterInit
  /\ part # "address" => hextets = [p \in Places |-> 0]
  /\ IF part = "string" THEN EscapeInit ELSE EscapeOver
  /\ EntryInit
  /\ ClockInit
  /\ part # "clock" => now = 0
  /\ LoadInit
  /\ part # "load" => version = 0 /\ release = 0 /\ node = 0 /\ domain = 0

ChecksumPart ==
  /\ part = "checksum" /\ ChecksumNext
  /\ UNCHANGED <<part, printerVars, escapeVars, entryVars, clockVars, moduleVars>>

AddressPart ==
  /\ part = "address" /\ PrinterNext
  /\ UNCHANGED <<part, checksumVars, escapeVars, entryVars, clockVars, moduleVars>>

StringPart ==
  /\ part = "string" /\ EscapeNext
  /\ UNCHANGED <<part, checksumVars, printerVars, entryVars, clockVars, moduleVars>>

EntryPart ==
  /\ part = "entry" /\ EntryNext
  /\ UNCHANGED <<part, checksumVars, printerVars, escapeVars, clockVars, moduleVars>>

ClockPart ==
  /\ part = "clock" /\ ClockNext
  /\ UNCHANGED <<part, checksumVars, printerVars, escapeVars, entryVars, moduleVars>>

LoadPart ==
  /\ part = "load" /\ LoadNext
  /\ UNCHANGED <<part, checksumVars, printerVars, escapeVars, entryVars, clockVars>>

UnitsNext ==
  \/ ChecksumPart \/ AddressPart \/ StringPart
  \/ EntryPart \/ ClockPart \/ LoadPart

\* The kernel shows a string to its end.
UnitsSpec ==
  UnitsInit /\ [][UnitsNext]_unitsVars /\ WF_unitsVars(StringPart)
=============================================================================
