----------------------------- MODULE JsonEntry ------------------------------
(***************************************************************************)
(* The layout of an entry in the JSON file: the part of cdp_seq_json_show  *)
(* (module/cdp_proc_json.c) that prints a decoded packet, member by        *)
(* member.  What is printed is a sequence of tokens: brackets, commas,     *)
(* "name" for a member's name and its colon, "value" for what is a value   *)
(* of JSON, and "bare" for a number or an address that is printed as it is *)
(* and is none.                                                            *)
(***************************************************************************)
EXTENDS Integers, SequencesExt

CONSTANT MaxItems   \* bounds the addresses and prefixes in an array

ASSUME EntryAssumption == MaxItems \in Nat

\* The members in the order in which they are printed.
Members ==
  <<"localInterface", "cdpVersion", "holdTime", "holdTimeRemaining", "deviceId",
    "addresses", "portId", "capabilities", "softwareVersion", "platform",
    "clusterManagement", "odrPrefixes", "vtpDomain", "duplex", "nativeVlan",
    "trustBitmap", "untrustedPortCoS", "poeAvailability", "startupNativeVlan",
    "managementAddresses">>

Arrays == {"addresses", "odrPrefixes", "managementAddresses"}

\* Members that are left out when the packet does not have them, with what is
\* printed of them when it does.
Optional ==
  [nativeVlan |-> <<"value">>, trustBitmap |-> <<"bare">>,
   untrustedPortCoS |-> <<"bare">>]

Token ==
  {"openObject", "closeObject", "openArray", "closeArray", "comma", "name",
   "value", "bare"}

VARIABLES
  printed,       \* how many of Members are done
  entry,          \* what was printed
  capabilities   \* whether the packet has capabilities

entryVars == <<printed, entry, capabilities>>

EntryTypeOK ==
  /\ printed \in -1..(Len(Members) + 1)
  /\ entry \in Seq(Token) /\ (entry = <<>> <=> printed = -1)
  /\ capabilities \in BOOLEAN

EntryInit == printed = -1 /\ entry = <<>> /\ capabilities = FALSE

Comma == <<"comma">>

Member == Members[printed + 1]

\* The next member is one of these.
At(names) == printed \in 0..(Len(Members) - 1) /\ Member \in names

EmitWith(tokens, has) ==
  /\ entry' = entry \o tokens
  /\ printed' = printed + 1
  /\ capabilities' = has

Emit(tokens) == EmitWith(tokens, capabilities)

-----------------------------------------------------------------------------

OpenEntry == printed = -1 /\ Emit(<<"openObject">>)

\* json_string_out, json_int_out and json_duplex_out: null is a value as well.
PrintValue ==
  /\ At(ToSet(Members) \ (Arrays \union DOMAIN Optional
        \union {"capabilities", "clusterManagement", "poeAvailability"}))
  /\ Emit(<<"name", "value">> \o Comma)

\* json_u16p_out and json_u8px_out.
PrintOptional ==
  /\ At(DOMAIN Optional)
  /\ Emit(<<>>) \/ Emit(<<"name">> \o Optional[Member] \o Comma)

\* Each item is followed by a comma.
MutItemSeparator(i, n) == Comma

ItemSeparator(i, n) == IF i < n THEN Comma ELSE <<>>

Items(n) == FlattenSeq([i \in 1..n |-> <<"value">> \o ItemSeparator(i, n)])

\* The array of management addresses is the last member.
AfterArray == IF Member = "managementAddresses" THEN <<>> ELSE Comma

\* json_address_array_out and json_prefix_array_out: an array the packet does
\* not have is left out, but for the last.
PrintArray ==
  /\ At(Arrays)
  /\ \/ \E n \in 0..MaxItems :
          Emit(<<"name", "openArray">> \o Items(n) \o <<"closeArray">> \o AfterArray)
     \/ Emit(IF Member = "managementAddresses"
                THEN <<"name", "value">> \o AfterArray ELSE <<>>)

\* json_cdp_capability_out: the comma is printed for the last of the seven.
Capability(i) == <<"name", "value">> \o IF i = 7 THEN Comma ELSE <<>>

\* json_cdp_capabilities_out: the bracket at the end is that of an array.
PrintCapabilities ==
  /\ At({"capabilities"})
  /\ \/ Emit(<<"name", "value">> \o Comma)
     \/ EmitWith(<<"name", "openObject">>
                   \o FlattenSeq([i \in 1..7 |-> Capability(i)])
                   \o <<"closeArray">> \o Comma,
                 TRUE)

\* The members of an object, of which these are the values.
Object(values) ==
  <<"openObject">> \o FlattenSeq([i \in DOMAIN values |->
               <<"name", values[i]>> \o ItemSeparator(i, Len(values))])
          \o <<"closeObject">>

\* json_cdp_cluster_management_protocol_out: hexadecimal numbers and addresses,
\* a text and a decimal number.
PrintCluster ==
  /\ At({"clusterManagement"})
  /\ \/ Emit(<<>>)
     \/ Emit(<<"name">>
                \o Object([i \in 1..8 |-> IF i <= 6 THEN "bare" ELSE "value"])
                \o Comma)

\* json_cdp_poe_availability_out.
PrintPoe ==
  /\ At({"poeAvailability"})
  /\ \/ Emit(<<>>)
     \/ Emit(<<"name">> \o Object([i \in 1..4 |-> "value"]) \o Comma)

CloseEntry == printed = Len(Members) /\ Emit(<<"closeObject">>)

EntryNext ==
  \/ OpenEntry \/ PrintValue \/ PrintOptional \/ PrintArray
  \/ PrintCapabilities \/ PrintCluster \/ PrintPoe \/ CloseEntry

EntrySpec == EntryInit /\ [][EntryNext]_entryVars

Done == printed = Len(Members) + 1

-----------------------------------------------------------------------------
(* Properties.                                                             *)

\* What JSON allows to follow a token, in an object and in an array.
Follows(token, container) ==
  CASE token = "openObject" -> {"name", "closeObject"}
    [] token = "openArray" -> {"value", "openObject", "openArray", "closeArray"}
    [] token = "name" -> {"value", "openObject", "openArray"}
    [] token = "comma" ->
         IF container = "openObject" THEN {"name"}
                                     ELSE {"value", "openObject", "openArray"}
    [] OTHER ->
         {"comma", IF container = "openObject" THEN "closeObject"
                                               ELSE "closeArray"}

\* A reader of JSON that has come to a token.
ReadToken(state, token) ==
  LET opens == token \in {"openObject", "openArray"}
      closes == token \in {"closeObject", "closeArray"}
  IN  [last |-> token,
       inside |-> IF opens THEN Append(state.inside, token)
                  ELSE IF closes /\ state.inside # <<>> THEN Front(state.inside)
                  ELSE state.inside,
       ok |-> /\ state.ok
              /\ IF state.inside = <<>> THEN state.last = "none" /\ opens
                 ELSE token \in Follows(state.last, Last(state.inside))]

NothingRead == [last |-> "none", inside |-> <<>>, ok |-> TRUE]

IsJson(tokens) ==
  LET end == FoldLeft(ReadToken, NothingRead, tokens)
  IN  end.ok /\ end.inside = <<>>

AsValue(token) == IF token = "bare" THEN "value" ELSE token

Valued(tokens) == [i \in DOMAIN tokens |-> AsValue(tokens[i])]

\* Whichever members a packet has, and however many addresses, the brackets
\* match and the commas are between members and items and nowhere else, if what
\* is printed bare is taken for a value and there are no capabilities.
SeparatedRight == Done /\ ~capabilities => IsJson(Valued(entry))
=============================================================================
