------------------------ MODULE EnvironmentVariables ------------------------
(***************************************************************************)
(* EnvironmentVariables (MiscWx.cpp): %name% in the paths and commands of  *)
(* pe_settings.ini is replaced by the value of the variable, which is      *)
(* looked at for further names.  A text is a sequence of characters; only  *)
(* "%" and the case of the others matter.                                  *)
(***************************************************************************)
EXTENDS Integers, Sequences, FiniteSetsExt, TLC

CONSTANTS
  UpperOf,     (* [character -> its upper case]                            *)
  CurrentDir,  (* the name CURRENTDIR                                      *)
  MaxText      (* bound: a longer text is not followed any further         *)

ASSUME MaxTextAssumption == MaxText \in Nat

VARIABLES
  machine,     (* what the constructor finds: [environment, dir, section,  *)
               (* setvars], section whether there is a [SetVars] section   *)
  made,        (* instance is not nullptr                                  *)
  env,         (* env_map of the instance                                  *)
  asked,       (* what ReplaceEnvVars was called with                      *)
  text,        (* *src                                                     *)
  at           (* where the call is                                        *)

envVars == <<machine, made, env, asked, text, at>>

EnvInit == made = FALSE /\ env = <<>> /\ asked = <<>> /\ text = <<>> /\ at = "idle"

MakeUpper(name) == [i \in DOMAIN name |-> UpperOf[name[i]]]

(***************************************************************************)
(* The later of two entries replaces the earlier one: [SetVars] comes      *)
(* last, with its names as they are written.                               *)
(***************************************************************************)
EnvMap(m) ==
  LET names == DOMAIN m.environment
  IN m.setvars @@ (CurrentDir :> m.dir)
     @@ [key \in {MakeUpper(n) : n \in names} |->
           m.environment[CHOOSE n \in names : MakeUpper(n) = key]]

(* The expression %.+?%: the first "%" that has another one after at least *)
(* one character, up to the nearest such one.                              *)
Percents(t) == {i \in DOMAIN t : t[i] = "%"}
Starts(t)   == {i \in Percents(t) : \E j \in Percents(t) : j > i + 1}
Matches(t)  == Starts(t) # {}
MatchStart(t) == Min(Starts(t))
MatchEnd(t) == Min({j \in Percents(t) : j > MatchStart(t) + 1})

(* Mutant of Key: the name as it is written.                               *)
KeyAsWritten(t) == SubSeq(t, MatchStart(t) + 1, MatchEnd(t) - 1)

Key(t) == MakeUpper(SubSeq(t, MatchStart(t) + 1, MatchEnd(t) - 1))

(* Mutant of Value: an unknown name is left as it stands.                  *)
ValueKept(t) == IF Key(t) \in DOMAIN env THEN env[Key(t)] ELSE SubSeq(t, MatchStart(t), MatchEnd(t))

(* An unknown name stands for nothing.                                     *)
Value(t) == IF Key(t) \in DOMAIN env THEN env[Key(t)] ELSE <<>>

Replaced(t) == SubSeq(t, 1, MatchStart(t) - 1) \o Value(t) \o SubSeq(t, MatchEnd(t) + 1, Len(t))

(* Mutant of ReplaceEnvVars: the instance is taken to be there.            *)
ReplaceEnvVarsAtOnce(src) ==
  /\ at = "idle"
  /\ asked' = src /\ text' = src
  /\ at' = "match"
  /\ UNCHANGED <<machine, made, env>>

(* The instance is made by the first call.                                 *)
ReplaceEnvVars(src) ==
  /\ at = "idle"
  /\ asked' = src /\ text' = src
  /\ at' = IF made THEN "match" ELSE "make"
  /\ UNCHANGED <<machine, made, env>>

(* GetSection gives a null pointer for a section that is not there, and    *)
(* the constructor goes through it all the same.                           *)
Construct ==
  /\ at = "make"
  /\ IF machine.section
     THEN at' = "match" /\ made' = TRUE /\ env' = EnvMap(machine)
     ELSE at' = "crash" /\ UNCHANGED <<made, env>>
  /\ UNCHANGED <<machine, asked, text>>

Replace ==
  /\ at = "match" /\ Matches(text) /\ Len(Replaced(text)) <= MaxText
  /\ text' = Replaced(text)
  /\ UNCHANGED <<machine, made, env, asked, at>>

Return ==
  /\ at = "match" /\ ~Matches(text)
  /\ at' = "done"
  /\ UNCHANGED <<machine, made, env, asked, text>>

(* The caller takes the text.                                              *)
Taken ==
  /\ at = "done"
  /\ at' = "idle" /\ asked' = <<>> /\ text' = <<>>
  /\ UNCHANGED <<machine, made, env>>

Replacement == Construct \/ Replace \/ Return \/ Taken
=============================================================================
