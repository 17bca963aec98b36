--------------------------- MODULE VersionStrings ---------------------------
(***************************************************************************)
(* The two strings that describe this device to its neighbours             *)
(* (libcdp/cdp_software_version_string_linux.c): what is measured, what is *)
(* allocated and what is copied.  The host and the domain name can be set  *)
(* by anybody between two steps; a string is its length.                   *)
(***************************************************************************)
EXTENDS Integers

CONSTANTS
  FormatLength,  \* of software_version_format, with its two "%s"
  NameLength,    \* UTS_RELEASE_LENGTH, which is that of every name
  MaxSettings,   \* bounds how often the names are set
  NULL

ASSUME StringsAssumption ==
  /\ FormatLength \in Nat /\ FormatLength >= 4
  /\ NameLength \in Nat /\ MaxSettings \in Nat
  /\ NULL \notin Int

VARIABLES
  version, release,  \* of the running kernel
  node, domain,      \* the host and the domain name
  settings,          \* how often these were set
  grown,             \* by how much they grew since they were measured
  making,            \* the string that is made and how far it is
  versionRoom,       \* bytes allocated for the version string, or NULL
  versionUsed,       \* and written there
  deviceRoom,        \* the same of the device id
  deviceUsed

uts == <<version, release, node, domain, settings>>
versionVars == <<versionRoom, versionUsed>>
deviceVars == <<deviceRoom, deviceUsed, grown>>
stringVars == <<uts, making, versionVars, deviceVars>>

Lengths == 0..NameLength

StringsTypeOK ==
  /\ version \in Lengths /\ release \in Lengths
  /\ node \in Lengths /\ domain \in Lengths
  /\ settings \in 0..MaxSettings /\ grown \in Nat
  /\ making \in {"version", "device", "measured", "allocated", "node", "dot",
                 "both", "failed"}
  /\ versionRoom \in Nat \union {NULL} /\ deviceRoom \in Nat \union {NULL}
  /\ versionUsed \in Nat /\ deviceUsed \in Nat

StringsInit ==
  /\ version \in Lengths /\ release \in Lengths
  /\ node \in Lengths /\ domain \in Lengths
  /\ settings = 0 /\ grown = 0 /\ making = "version"
  /\ versionRoom = NULL /\ versionUsed = 0
  /\ deviceRoom = NULL /\ deviceUsed = 0

-----------------------------------------------------------------------------
(* generate_cdp_software_version_string.                                   *)

\* sizeof(work_buffer).
WorkBuffer == (FormatLength + 1) + NameLength + NameLength + 1

\* What snprintf would write, had it all the room it wanted.
Formatted == FormatLength - 4 + version + release

\* What it does write.
Kept == IF Formatted < WorkBuffer THEN Formatted ELSE WorkBuffer - 1

MakeVersion ==
  /\ making = "version"
  /\ versionRoom' = Formatted + 1
  /\ versionUsed' = Kept + 1
  /\ making' = "device"
  /\ UNCHANGED <<uts, deviceVars>>

MakeVersionFails ==
  /\ making = "version"
  /\ making' = "failed"
  /\ UNCHANGED <<uts, versionVars, deviceVars>>

-----------------------------------------------------------------------------
(* generate_cdp_device_id_string.                                          *)

\* The dot is forgotten.
MutMeasured == node + (IF domain = 0 THEN 0 ELSE domain)

\* buffer_size_required.
Measured == node + (IF domain = 0 THEN 1 ELSE domain + 2)

MeasureDevice ==
  /\ making = "device"
  /\ deviceUsed' = Measured
  /\ grown' = 0
  /\ making' = "measured"
  /\ UNCHANGED <<uts, versionVars, deviceRoom>>

AllocateDevice ==
  /\ making = "measured"
  /\ deviceRoom' = deviceUsed + 1
  /\ deviceUsed' = 0
  /\ making' = "allocated"
  /\ UNCHANGED <<uts, versionVars, grown>>

AllocateDeviceFails ==
  /\ making = "measured"
  /\ deviceUsed' = 0
  /\ making' = "failed"
  /\ UNCHANGED <<uts, versionVars, deviceRoom, grown>>

CopyNode ==
  /\ making = "allocated"
  /\ deviceUsed' = node + 1
  /\ making' = "node"
  /\ UNCHANGED <<uts, versionVars, deviceRoom, grown>>

\* A domain name is appended after a dot, if there is one now.
AppendDot ==
  /\ making = "node"
  /\ deviceUsed' = IF domain = 0 THEN deviceUsed ELSE deviceUsed + 1
  /\ making' = IF domain = 0 THEN "both" ELSE "dot"
  /\ UNCHANGED <<uts, versionVars, deviceRoom, grown>>

AppendDomain ==
  /\ making = "dot"
  /\ deviceUsed' = deviceUsed + domain
  /\ making' = "both"
  /\ UNCHANGED <<uts, versionVars, deviceRoom, grown>>

Growth(old, new) == IF new > old THEN new - old ELSE 0

\* sethostname or setdomainname, until the strings are made.
SetNames ==
  /\ settings < MaxSettings /\ making \notin {"both", "failed"}
  /\ settings' = settings + 1
  /\ \E length \in Lengths :
       \/ node' = length /\ domain' = domain /\ grown' = grown + Growth(node, length)
       \/ domain' = length /\ node' = node /\ grown' = grown + Growth(domain, length)
  /\ UNCHANGED <<version, release, making, versionVars, deviceRoom, deviceUsed>>

-----------------------------------------------------------------------------
(* Properties.                                                             *)

\* The version string is whole, whatever the kernel is called: the buffer it is
\* made in never cuts it, and what is allocated is what is copied.
VersionWhole == versionRoom # NULL => versionUsed = versionRoom

\* The device id is copied from names that are read again after they were
\* measured: it outgrows what was allocated by no more than the names grew in
\* between, the dot of a domain name that was not there included.
OutgrownOnlyByNames ==
  making \in {"node", "dot", "both"} => deviceUsed <= deviceRoom + grown

\* Names that nobody sets meanwhile are all in the device id.
DeviceWhole ==
  making = "both" /\ settings = 0 =>
    deviceUsed = node + 1 + (IF domain = 0 THEN 0 ELSE 1 + domain)

\* What is known of both strings, whatever the names are and become: neither
\* outgrows its memory but by what a name grew in between.
StringsHold == VersionWhole /\ OutgrownOnlyByNames /\ DeviceWhole
=============================================================================
