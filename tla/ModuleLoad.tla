----------------------------- MODULE ModuleLoad -----------------------------
(***************************************************************************)
(* What cdp_module_init obtains, one thing after another, what each of its *)
(* ways out gives back, and what cdp_module_exit gives back                *)
(* (module/cdp_module.c).  The strings are made as in VersionStrings; what *)
(* handlers and readers do meanwhile is in CdpModule.                      *)
(***************************************************************************)
EXTENDS VersionStrings, Sequences

VARIABLES
  phase,   \* what is obtained next, or how loading ended
  held,    \* how often each thing was obtained and not given back
  giving   \* what is given back next, in order

loadVars == <<phase, held, giving>>
moduleVars == <<stringVars, loadVars>>

\* The directory and the files of cdp_proc_init, in its order.
Proc == <<"cdp", "summary", "detail", "json">>
Things == {"version", "device", "list", "timer", "snap"}
            \union {Proc[i] : i \in DOMAIN Proc}
Phases == Things \union {"multicast", "loaded", "giving", "gone"}

LoadTypeOK ==
  /\ StringsTypeOK
  /\ phase \in Phases
  /\ held \in [Things -> Int]
  /\ giving \in Seq(Things)

LoadInit ==
  /\ StringsInit
  /\ phase = "version" /\ giving = <<>>
  /\ held = [thing \in Things |-> 0]

-----------------------------------------------------------------------------

Obtain(thing) == held' = [held EXCEPT ![thing] = @ + 1]

GiveBack(things) ==
  /\ phase' = "giving" /\ giving' = things
  /\ UNCHANGED held

\* What cdp_proc_exit removes, and a cdp_proc_init that got so far.
ProcBackwards(n) == [i \in 1..n |-> Proc[n + 1 - i]]

\* The list goes before those who use it.
MutUnloading ==
  <<"timer", "list", "snap">> \o ProcBackwards(4) \o <<"device", "version">>

\* The order of cdp_module_exit.
Unloading ==
  <<"timer", "snap">> \o ProcBackwards(4) \o <<"list", "device", "version">>

\* One string twice, the other never.
MutListAndStrings == <<"list", "version", "version">>

\* The last lines of every way out of cdp_module_init once there is a list.
ListAndStrings == <<"list", "version", "device">>

LoadVersion ==
  /\ phase = "version"
  /\ \/ MakeVersion /\ Obtain("version") /\ phase' = "device" /\ giving' = <<>>
     \/ MakeVersionFails /\ GiveBack(<<>>)

LoadDevice ==
  /\ phase = "device"
  /\ \/ /\ MeasureDevice \/ CopyNode \/ (AppendDot /\ domain # 0)
        /\ UNCHANGED loadVars
     \/ AllocateDevice /\ Obtain("device") /\ UNCHANGED <<phase, giving>>
     \/ AllocateDeviceFails /\ GiveBack(<<"version">>)
     \/ /\ AppendDomain \/ (AppendDot /\ domain = 0)
        /\ phase' = "list" /\ UNCHANGED <<held, giving>>

LoadList ==
  /\ phase = "list"
  /\ \/ Obtain("list") /\ phase' = Proc[1] /\ UNCHANGED giving
     \/ GiveBack(<<"version", "device">>)
  /\ UNCHANGED stringVars

LoadProc ==
  \E i \in DOMAIN Proc :
    /\ phase = Proc[i]
    /\ \/ /\ Obtain(Proc[i]) /\ UNCHANGED giving
          /\ phase' = IF i = Len(Proc) THEN "timer" ELSE Proc[i + 1]
       \/ GiveBack(ProcBackwards(i - 1) \o ListAndStrings)
    /\ UNCHANGED stringVars

\* Arming the timer does not fail.
LoadTimer ==
  /\ phase = "timer"
  /\ Obtain("timer") /\ phase' = "snap"
  /\ UNCHANGED <<giving, stringVars>>

LoadSnap ==
  /\ phase = "snap"
  /\ \/ Obtain("snap") /\ phase' = "loaded" /\ UNCHANGED giving
     \/ GiveBack(<<"timer">> \o ProcBackwards(4) \o ListAndStrings)
  /\ UNCHANGED stringVars

Unload ==
  /\ phase = "loaded"
  /\ GiveBack(Unloading)
  /\ UNCHANGED stringVars

GiveNext ==
  /\ phase = "giving"
  /\ IF giving = <<>>
       THEN phase' = "gone" /\ UNCHANGED <<held, giving>>
       ELSE /\ held' = [held EXCEPT ![Head(giving)] = @ - 1]
            /\ giving' = Tail(giving) /\ UNCHANGED phase
  /\ UNCHANGED stringVars

NamesChange == SetNames /\ UNCHANGED loadVars

LoadNext ==
  \/ LoadVersion \/ LoadDevice \/ LoadList \/ LoadProc \/ LoadTimer \/ LoadSnap
  \/ Unload \/ GiveNext \/ NamesChange

LoadSpec == LoadInit /\ [][LoadNext]_moduleVars

-----------------------------------------------------------------------------
(* Properties.                                                             *)

\* Wherever loading failed, and after unloading, nothing is kept and nothing was
\* given back that was not held.
GivenBack ==
  /\ \A thing \in Things : held[thing] \in {0, 1}
  /\ phase = "gone" => \A thing \in Things : held[thing] = 0

\* The list outlives whatever reaches it, the strings outlive the timer, which
\* transmits them, and a directory what is in it, on every way out.
UsersGoFirst ==
  /\ held["snap"] + held["timer"] + held["summary"] + held["detail"]
       + held["json"] > 0 => held["list"] = 1
  /\ held["timer"] = 1 => held["version"] = 1 /\ held["device"] = 1
  /\ held["summary"] + held["detail"] + held["json"] > 0 => held["cdp"] = 1
=============================================================================
