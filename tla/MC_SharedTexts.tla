--------------------------- MODULE MC_SharedTexts ---------------------------
(***************************************************************************)
(* SharedTexts for model checking, with all texts of up to four characters *)
(* and some longer ones, and with the definition the replacement of the    *)
(* variables is compared with.                                             *)
(***************************************************************************)
EXTENDS SharedTexts, SequencesExt

MCUpperOf == "%" :> "%" @@ "a" :> "A" @@ "A" :> "A" @@ "b" :> "B" @@ "B" :> "B" @@
             "c" :> "C" @@ "C" :> "C" @@ "." :> "."

MCCurrentDir == <<"C">>

Machine(setvars) ==
  [environment |-> <<"a">> :> <<".">> @@ <<"B">> :> <<".", ".">>,
   dir |-> <<"C">>, section |-> TRUE, setvars |-> setvars]

(* Values without a name, with names, with a name in small letters, with a *)
(* name of their own, with a lone "%"; no section at all.                  *)
MCMachines ==
  {Machine(<<"A">> :> <<"B", "B">>),
   Machine(<<"A">> :> <<"%", "b", "%", "C">> @@ <<"C">> :> <<"%", "A", "%">>),
   Machine(<<"c">> :> <<"A">> @@ <<"A">> :> <<"%", "c", "%">>),
   Machine(<<"A">> :> <<".", "%", "A", "%">>),
   Machine(<<"A">> :> <<"%", "A", "%">>),
   Machine(<<"A">> :> <<"B", "%">>),
   [Machine(<<>>) EXCEPT !.section = FALSE]}

MCSettings ==
  SeqOf({"%", "a", "B", "."}, 4) \cup
  {<<"%", "a", "%", "%", "B", "%">>, <<"%", "C", "%", ".", "%", "A", "%">>,
   <<"%", "a", "%", "B", "%">>}

-----------------------------------------------------------------------------
(* What a name stands for: the settings file's value, then the folder of   *)
(* the program, then what the process inherited.                           *)
Stands(name) ==
  LET inherited == {n \in DOMAIN machine.environment : MakeUpper(n) = MakeUpper(name)}
  IN CASE MakeUpper(name) \in DOMAIN machine.setvars -> machine.setvars[MakeUpper(name)]
       [] OTHER -> IF MakeUpper(name) = CurrentDir THEN machine.dir
                   ELSE IF inherited = {} THEN <<>>
                   ELSE machine.environment[CHOOSE n \in inherited : TRUE]

(* "%" come in pairs, with a name in each.                                 *)
Regular(t) ==
  LET ps == SetToSortSeq(Percents(t), <)
  IN /\ Len(ps) % 2 = 0
     /\ \A k \in DOMAIN ps : k % 2 = 0 => ps[k] > ps[k - 1] + 1

NamesIn(t) ==
  LET ps == SetToSortSeq(Percents(t), <)
  IN {MakeUpper(SubSeq(t, ps[k] + 1, ps[k + 1] - 1)) : k \in {i \in 1 .. Len(ps) - 1 : i % 2 = 1}}

(* The variables can be ordered so that none names itself or a later one.  *)
Layered ==
  LET names == DOMAIN machine.setvars
  IN /\ \A n \in names : Regular(machine.setvars[n])
     /\ \E rank \in [names -> 1 .. 3] :
          \A n \in names, m \in names :
            m \in NamesIn(machine.setvars[n]) => rank[m] < rank[n]

(* The text comes to an end at what its names stand for.                   *)
Settles == machine.section /\ Layered /\ Regular(asked)

RECURSIVE Expansion(_)
Expansion(t) ==
  IF Percents(t) = {} THEN t
  ELSE LET open  == Min(Percents(t))
           close == Min(Percents(t) \ {open})
       IN SubSeq(t, 1, open - 1)
          \o Expansion(Stands(SubSeq(t, open + 1, close - 1)))
          \o Expansion(SubSeq(t, close + 1, Len(t)))

(* What ReplaceEnvVars returns is the text with each name replaced by what *)
(* it stands for, names in values included, whatever case it is written in.*)
Expanded == at = "done" /\ Settles => text = Expansion(asked)

(* No variable names another.                                              *)
Plain ==
  /\ \A n \in DOMAIN machine.setvars : Percents(machine.setvars[n]) = {}
  /\ machine.section

(* ReplaceEnvVars returns if no value has a "%", or if they come in pairs  *)
(* and no variable names itself; otherwise it may go on for ever           *)
(* (MiscWx.cpp:305).                                                       *)
ReplacementEnds == (at = "match" /\ (Settles \/ Plain)) ~> (at = "done")
=============================================================================
