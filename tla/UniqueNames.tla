---------------------------- MODULE UniqueNames ----------------------------
(***************************************************************************)
(* calc_local_names, make_unique_iso and make_unique_joliet of             *)
(* isowriter.cc: the children of a directory get an ISO9660 and a Joliet   *)
(* name one after another.  A name that an earlier sibling has gets a      *)
(* number over the last characters of its base, and all siblings are       *)
(* looked at again.  Names are sequences of characters, because which of   *)
(* them are overwritten is the point.                                      *)
(***************************************************************************)
EXTENDS Integers, Sequences, Functions

CONSTANTS
  Folders,     (* sequences of children: [name, dir]                       *)
  CharD,       (* iso_make_char_d as a function of the characters used     *)
  MaxBase,     (* 8 characters before the last dot in a name of level 1    *)
  MaxExt,      (* and 3 after it                                           *)
  MaxName,     (* Joliet::max_name_len_, 64 or 101                         *)
  Version,     (* inc_file_ver_info_ of both                               *)
  Digits,      (* the characters of the numbers: ten in the code           *)
  LastNumber,  (* 255                                                      *)
  MinBase      (* 3: a base so short has no room for a number              *)

(* What a name, or a number in it, can be made of.                         *)
Characters == DOMAIN CharD \cup Range(CharD) \cup Range(Digits) \cup {".", ";", "1", "_"}

(* Children have names; a folder is any sequence of them.                  *)
ASSUME FoldersAssumption ==
  Folders \subseteq Seq([name : Seq(DOMAIN CharD) \ {<<>>}, dir : BOOLEAN])

(* Every number has at most three digits, for which a base has the room.   *)
ASSUME NumberAssumption ==
  /\ Digits \in Seq(Range(Digits)) /\ "." \notin Range(Digits)
  /\ LastNumber \in Nat /\ 2 < LastNumber
  /\ LastNumber < Len(Digits) * Len(Digits) * Len(Digits)
  /\ MinBase \in Nat /\ MinBase >= 3

ASSUME LengthAssumption ==
  MaxBase \in Nat \ {0} /\ MaxExt \in Nat /\ MaxName \in Nat \ {0} /\ Version \in BOOLEAN

VARIABLES
  folder,      (* one of Folders                                           *)
  at,          (* the child that calc_local_names is at                    *)
  form,        (* "iso" or "joliet": the name that is made for it          *)
  candidate,   (* file_name_ptr, or file_name; empty before it is written  *)
  number,      (* next_number                                              *)
  names,       (* file_name_iso_ and file_name_joliet_ of the children     *)
  warned       (* (form, child) for which no unique name was found         *)

Forms == {"iso", "joliet"}

vars == <<folder, at, form, candidate, number, names, warned>>

-----------------------------------------------------------------------------
Take(s, n)  == SubSeq(s, 1, IF Len(s) < n THEN Len(s) ELSE n)
Mapped(s)   == [i \in DOMAIN s |-> CharD[s[i]]]
LastDot(s)  == IF \E i \in DOMAIN s : s[i] = "."
               THEN CHOOSE i \in DOMAIN s : s[i] = "." /\ \A j \in i + 1 .. Len(s) : s[j] # "."
               ELSE 0
BeforeDot(s) == SubSeq(s, 1, LastDot(s) - 1)
AfterDot(s) == SubSeq(s, LastDot(s) + 1, Len(s))

VersionOf(child) == IF Version /\ ~child.dir THEN <<";", "1">> ELSE <<>>

(* Iso::write_file_name of level 1 and 3; a directory has no extension.    *)
WriteIso(child) ==
  (IF child.dir \/ LastDot(child.name) = 0 THEN Mapped(Take(child.name, MaxBase))
   ELSE Mapped(Take(BeforeDot(child.name), MaxBase)) \o <<".">>
        \o Mapped(Take(AfterDot(child.name), MaxExt)))
  \o VersionOf(child)

(* Joliet::mem_str_cpy: six characters have no place in a name.            *)
MadeChar(c) == IF c \in {"*", "/", ":", ";", "?", "\\"} THEN "_" ELSE c
Copied(s)   == [i \in DOMAIN s |-> MadeChar(s[i])]

(* Joliet::write_file_name: only a name that is too long is cut.           *)
WriteJoliet(child) ==
  (IF Len(child.name) <= MaxName THEN Copied(child.name)
   ELSE IF LastDot(child.name) = 0 THEN Copied(Take(child.name, MaxName))
   ELSE LET ext == Take(AfterDot(child.name), MaxName - 1)
        IN Copied(Take(BeforeDot(child.name), MaxName - 1 - Len(ext))) \o <<".">> \o Copied(ext))
  \o VersionOf(child)

Written(f, child) == IF f = "iso" THEN WriteIso(child) ELSE WriteJoliet(child)

(* Mutant of BaseEnd: the extension belongs to the base.                   *)
BaseEndOfAll(name, child) == Len(name) - Len(VersionOf(child))

(* file_name_end.                                                          *)
BaseEnd(name, child) ==
  IF LastDot(name) > 0 THEN LastDot(name) - 1 ELSE Len(name) - Len(VersionOf(child))

(* "%d" of a number that has at most three digits.                         *)
DigitsOf(n) ==
  LET radix    == Len(Digits)
      Digit(k) == Digits[(k % radix) + 1]
  IN IF n < radix THEN <<Digit(n)>>
     ELSE IF n < radix * radix THEN <<Digit(n \div radix), Digit(n)>>
     ELSE <<Digit(n \div (radix * radix)), Digit(n \div radix), Digit(n)>>

(* The number goes over the last characters of the base.                   *)
Numbered(name, child, n) ==
  LET digits == DigitsOf(n)
      end    == BaseEnd(name, child)
  IN [k \in DOMAIN name |->
        IF k \in end - Len(digits) + 1 .. end THEN digits[k - end + Len(digits)] ELSE name[k]]

(* ISO9660 compares as much of the sibling's name as the new one has       *)
(* without its version, Joliet the whole of both.                          *)
Collides(f, name, child, other) ==
  IF f = "joliet" THEN other = name
  ELSE LET end == Len(name) - Len(VersionOf(child))
       IN Len(other) >= end /\ SubSeq(other, 1, end) = SubSeq(name, 1, end)

-----------------------------------------------------------------------------
Init ==
  /\ folder \in Folders
  /\ at = 1 /\ form = "iso" /\ candidate = <<>> /\ number = 2
  /\ names = [f \in Forms |-> [i \in DOMAIN folder |-> <<>>]]
  /\ warned = {}

Busy  == at <= Len(folder)
Child == folder[at]

(* The child has its name; the other form or the next child follows.       *)
Assign(name) ==
  /\ names' = [names EXCEPT ![form][at] = name]
  /\ form' = IF form = "iso" THEN "joliet" ELSE "iso"
  /\ at' = IF form = "iso" THEN at ELSE at + 1
  /\ candidate' = <<>> /\ number' = 2

WriteName ==
  /\ Busy /\ candidate = <<>>
  /\ LET name == Written(form, Child)
     IN IF BaseEnd(name, Child) <= MinBase THEN Assign(name)
        ELSE candidate' = name /\ UNCHANGED <<at, form, number, names>>
  /\ UNCHANGED <<folder, warned>>

(* Siblings without an ISO9660 name are passed over, in both forms.        *)
Taken == \E i \in DOMAIN folder :
           names.iso[i] # <<>> /\ Collides(form, candidate, Child, names[form][i])

(* Mutant of TryNumber: the siblings are not looked at again.              *)
TryNumberOnce ==
  /\ Busy /\ candidate # <<>> /\ Taken
  /\ Assign(Numbered(candidate, Child, number))
  /\ UNCHANGED <<folder, warned>>

(* Mutant of TryNumber: the same number is tried again.                    *)
TryNumberAgain ==
  /\ Busy /\ candidate # <<>> /\ Taken
  /\ candidate' = Numbered(candidate, Child, number)
  /\ UNCHANGED <<folder, at, form, number, names, warned>>

TryUpTo(last) ==
  /\ Busy /\ candidate # <<>> /\ Taken
  /\ LET name == Numbered(candidate, Child, number)
     IN IF number = last
        THEN Assign(name) /\ warned' = warned \cup {<<form, at>>}
        ELSE /\ candidate' = name /\ number' = number + 1
             /\ UNCHANGED <<at, form, names, warned>>
  /\ UNCHANGED folder

(* Mutant of TryNumber: one number too many.                               *)
TryNumberPast == TryUpTo(LastNumber + 1)

TryNumber == TryUpTo(LastNumber)

KeepName ==
  /\ Busy /\ candidate # <<>> /\ ~Taken
  /\ Assign(candidate)
  /\ UNCHANGED <<folder, warned>>

Done == ~Busy /\ UNCHANGED vars

Next == WriteName \/ TryNumber \/ KeepName \/ Done

(* The writer's thread goes on by itself.                                  *)
Spec == Init /\ [][Next]_vars /\ WF_vars(WriteName \/ TryNumber \/ KeepName)

-----------------------------------------------------------------------------
TypeOK ==
  /\ at \in 1 .. Len(folder) + 1 /\ form \in Forms
  /\ number \in 2 .. LastNumber
  /\ warned \subseteq Forms \X DOMAIN folder

Stem(name, child) == SubSeq(name, 1, Len(name) - Len(VersionOf(child)))

(***************************************************************************)
(* Two siblings have the same name (make_unique_iso: "Tries to assure that *)
(* the specified file name is unique") only if its base has no room for a  *)
(* number, or if a warning was given for the later one; and one is given   *)
(* only when earlier siblings have the name with any number but the last.  *)
(***************************************************************************)
Distinct ==
  /\ \A f \in Forms : \A i, j \in DOMAIN folder :
       LET a == names[f][i]
           b == names[f][j]
       IN i < j /\ b # <<>> /\ Stem(a, folder[i]) = Stem(b, folder[j])
            /\ (f = "joliet" => folder[i].dir = folder[j].dir)
          => BaseEnd(b, folder[j]) <= MinBase \/ <<f, j>> \in warned
  /\ \A w \in warned : \A n \in 2 .. LastNumber - 1 : \E i \in 1 .. w[2] - 1 :
       LET child == folder[w[2]]
       IN Collides(w[1], Numbered(Written(w[1], child), child, n), child, names[w[1]][i])

(***************************************************************************)
(* A name keeps the length with which its record was sized, and a number   *)
(* leaves the first character, the extension and the version alone.        *)
(***************************************************************************)
KeepsShape ==
  \A f \in Forms : \A i \in DOMAIN folder :
    names[f][i] # <<>> =>
      LET written == Written(f, folder[i])
          dot     == LastDot(written)
          end     == IF dot > 0 THEN dot - 1 ELSE Len(written) - Len(VersionOf(folder[i]))
      IN /\ Len(names[f][i]) = Len(written)
         /\ SubSeq(names[f][i], end + 1, Len(written)) = SubSeq(written, end + 1, Len(written))
         /\ end > 0 => names[f][i][1] = written[1]

(* Every child gets its names, however the siblings collide.               *)
AllNamed == <>(at > Len(folder))
=============================================================================
