------------------------- MODULE ReplacementProofs -------------------------
(***************************************************************************)
(* Theorems about Replacement when the executions of one file do not       *)
(* overlap: any number of placements with any settings, OSErrors, deaths   *)
(* and copies cut short anywhere.                                          *)
(*                                                                         *)
(* The inductive invariant Inv says what the directory looks like at every *)
(* step of the one placement under way, in terms of what its checks found, *)
(* and three facts that hold between placements: a torn source has a       *)
(* backup, backups are never torn, and without an agreement the backup, or *)
(* the source where there is none, is the original.                        *)
(***************************************************************************)
EXTENDS Replacement, TLAPS

Busy(p) == step[p] \notin Over \cup {"new"}

Alone == \A p, q \in Placements : Busy(p) /\ Busy(q) => p = q

\* The mapped value of the vault's agreed.
Agreed ==
    \E p \in Placements :
        /\ step[p] # "new"
        /\ plan[p].delete \/ plan[p].strategy = "replace_backup"

Held == {disk[n] : n \in Names} \ {Torn, Absent}

LibraryOK ==
    /\ disk["backup"] # Torn
    /\ disk["source"] = Torn => Exists("backup")
    /\ \E n \in Names : disk[n] \in Versions
    /\ ~Agreed => IF Exists("backup") THEN disk["backup"] = Original
                  ELSE disk["source"] = Original

\* Source and backup are what the checks found.
Untouched(p) ==
    before[p] = [source |-> disk["source"], backup |-> disk["backup"]]

\* A backup the checks found has the temporary name, on the operator's wish.
OldAside(p) ==
    /\ aside[p] = before[p].backup
    /\ aside[p] # Absent => plan[p].strategy = "replace_backup"

\* The source is the backup now, the old backup has the temporary name.
SetAside(p) ==
    /\ disk["backup"] = before[p].source
    /\ disk["backup"] \in Versions
    /\ OldAside(p)
    /\ output[p] = p

\* Nothing is overwritten but the source itself.
TargetFree(p) == Target(p) \in {"target", "beside"} => disk[Target(p)] = Absent

AtCheck(p) ==
    /\ Exists("source")
    /\ aside[p] = Absent
    /\ output[p] = IF disk["source"] = Torn THEN Torn ELSE p
    /\ plan[p].strategy = "replace_backup" => disk["source"] # Torn

AtAside(p) ==
    /\ CreatesBackup(p)
    /\ TargetFree(p)
    /\ plan[p].strategy = "replace_backup"
    /\ Untouched(p)
    /\ aside[p] = Absent
    /\ disk["source"] \in Versions
    /\ output[p] = p

AtBackup(p) ==
    /\ CreatesBackup(p)
    /\ TargetFree(p)
    /\ disk["source"] \in Versions
    /\ disk["source"] = before[p].source
    /\ disk["backup"] = Absent
    /\ OldAside(p)
    /\ output[p] = p

\* A placement that makes no backup has one that is kept, or goes alongside.
KeepsBackup(p) ==
    /\ ~CreatesBackup(p)
    /\ aside[p] = Absent
    /\ before[p].backup = disk["backup"]
    /\ plan[p].inPlace => Exists("backup")

AtMove(p) ==
    /\ TargetFree(p)
    /\ output[p] # Absent
    /\ \/ CreatesBackup(p) /\ SetAside(p) /\ disk["source"] = Absent
       \/ KeepsBackup(p) /\ Untouched(p)

AtUndo(p) ==
    \/ CreatesBackup(p) /\ SetAside(p) /\ disk["source"] \in {Absent, Torn}
    \/ KeepsBackup(p) /\ (Untouched(p) \/ disk["source"] = Torn)

AtRestore(p) ==
    \/ /\ CreatesBackup(p)
       /\ disk["source"] \in Versions
       /\ disk["source"] = before[p].source
       /\ disk["backup"] = Absent
       /\ OldAside(p)
    \/ CreatesBackup(p) /\ SetAside(p) /\ (p \in marred \/ disk["source"] = Torn)
    \/ KeepsBackup(p) /\ (Untouched(p) \/ disk["source"] = Torn)

AtDelete(p) ==
    /\ CreatesBackup(p)
    /\ plan[p].delete
    /\ disk[Target(p)] = output[p]
    /\ output[p] = p
    /\ disk["source"] # Torn

AtDrop(p) ==
    /\ disk[Target(p)] = output[p]
    /\ \/ CreatesBackup(p) /\ plan[p].delete
       \/ CreatesBackup(p) /\ SetAside(p)
       \/ KeepsBackup(p)

StepOK(p) ==
    /\ step[p] = "new" => aside[p] = Absent
    /\ aside[p] # Torn
    /\ step[p] = "check" => AtCheck(p)
    /\ step[p] = "aside" => AtAside(p)
    /\ step[p] = "backup" => AtBackup(p)
    /\ step[p] = "move" => AtMove(p)
    /\ step[p] = "undo" => AtUndo(p)
    /\ step[p] = "restore" => AtRestore(p)
    /\ step[p] = "delete" => AtDelete(p)
    /\ step[p] = "drop" => AtDrop(p)

Inv ==
    /\ TypeOK
    /\ Alone
    /\ LibraryOK
    /\ \A p \in Placements : StepOK(p)

-----------------------------------------------------------------------------
(* Lemmas.                                                                 *)

\* What the names of one placement's action have in common: it is under way
\* before, its settings stay, and only its own entries change.
Advances(p, s) ==
    /\ Busy(p)
    /\ s \in Step \ {"new", "check"}
    /\ step' = [step EXCEPT ![p] = s]
    /\ plan' = plan
    /\ output' = output
    /\ \A q \in Placements \ {p} : aside'[q] = aside[q]

\* The initial directory satisfies the invariant.
LEMMA InitInv == ASSUME ReplacementAssumption PROVE Init => Inv
<1> SUFFICES ASSUME Init PROVE Inv
    OBVIOUS
<1> USE ReplacementAssumption
<1>1. TypeOK
    BY DEF Init, TypeOK, Names, Content, Versions, Step, Over
<1>2. Alone
    BY DEF Init, Alone, Busy, Over
<1>3. LibraryOK
    BY DEF Init, LibraryOK, Names, Content, Versions, Exists, Agreed
<1>4. \A p \in Placements : StepOK(p)
    BY DEF Init, StepOK, Content, Versions
<1> QED
    BY <1>1, <1>2, <1>3, <1>4 DEF Inv

\* The placements that are not under way stay as they are, and there is still
\* at most one under way.
LEMMA OthersRest ==
    ASSUME Inv, NEW p \in Placements, NEW s, Advances(p, s)
    PROVE  /\ Alone'
           /\ \A q \in Placements \ {p} : StepOK(q)'
           /\ step' \in [Placements -> Step]
           /\ step'[p] = s
           /\ Agreed' <=> Agreed
<1>1. step \in [Placements -> Step] /\ step'[p] = s /\ s # "new" /\ s \in Step
    BY DEF Inv, TypeOK, Advances
<1>2. \A q \in Placements \ {p} : step'[q] = step[q] /\ step[q] \in Over \cup {"new"}
    BY <1>1 DEF Inv, Alone, Advances, Busy
<1>3. Alone'
    BY <1>2 DEF Alone, Busy
<1>4. \A q \in Placements \ {p} : StepOK(q)'
  <2> TAKE q \in Placements \ {p}
  <2>1. step'[q] \in Over \cup {"new"} /\ step'[q] = step[q] /\ aside'[q] = aside[q]
      BY <1>2 DEF Advances
  <2>2. StepOK(q)
      BY DEF Inv
  <2> QED
      BY <2>1, <2>2 DEF StepOK, Over
<1>5. step' \in [Placements -> Step]
    BY <1>1 DEF Advances
<1>6. Agreed' <=> Agreed
  <2>1. step[p] # "new"
      BY DEF Advances, Busy
  <2>2. \A q \in Placements : step'[q] = "new" <=> step[q] = "new"
      BY <1>1, <1>2, <2>1
  <2> QED
      BY <2>2 DEF Agreed, Advances
<1> QED
    BY <1>1, <1>3, <1>4, <1>5, <1>6

\* An execution begins when no other is under way.
LEMMA BeginInv ==
    ASSUME ReplacementAssumption, ~Overlap, Inv,
           NEW p \in Placements, Begin(p)
    PROVE  Inv'
<1> USE ReplacementAssumption
<1>1. PICK r \in Plans :
          /\ r.strategy = "replace_backup" => disk["source"] # Torn
          /\ plan' = [plan EXCEPT ![p] = r]
    BY DEF Begin
<1>2. /\ step[p] = "new" /\ step' = [step EXCEPT ![p] = "check"]
      /\ disk["source"] # Absent
      /\ output' = [output EXCEPT ![p] = IF disk["source"] = Torn THEN Torn ELSE p]
      /\ UNCHANGED <<disk, aside, marred, before>>
      /\ \A q \in Placements : step[q] \in Over \cup {"new"}
    BY DEF Begin, Goto, Exists
<1>3. TypeOK /\ TypeOK'
    BY <1>1, <1>2 DEF Inv, TypeOK, Step, Content, Versions
<1>4. step'[p] = "check" /\ plan'[p] = r
      /\ output'[p] = (IF disk["source"] = Torn THEN Torn ELSE p)
    BY <1>1, <1>2, <1>3 DEF TypeOK
<1>5. \A q \in Placements \ {p} : step'[q] = step[q] /\ plan'[q] = plan[q]
    BY <1>1, <1>2, <1>3 DEF TypeOK
<1>6. Alone'
    BY <1>2, <1>5 DEF Alone, Busy, Over
<1>7. LibraryOK'
  <2>1. Agreed => Agreed'
      BY <1>2, <1>4, <1>5 DEF Agreed
  <2> QED
      BY <1>2, <2>1 DEF Inv, LibraryOK, Exists
<1>8. ASSUME NEW q \in Placements PROVE StepOK(q)'
  <2>1. StepOK(q)
      BY DEF Inv
  <2>2. CASE q = p
      BY <1>1, <1>2, <1>4, <2>1, <2>2 DEF StepOK, AtCheck, Exists
  <2>3. CASE q # p
      BY <1>2, <1>5, <2>1, <2>3 DEF StepOK, Over
  <2> QED
      BY <2>2, <2>3
<1> QED
    BY <1>3, <1>6, <1>7, <1>8 DEF Inv

\* The checks establish what the first file operation relies on.
LEMMA CheckInv ==
    ASSUME ReplacementAssumption, Inv, NEW p \in Placements, Check(p)
    PROVE  Inv'
<1> USE ReplacementAssumption
<1> DEFINE s == IF Refused(p) THEN "failed"
                ELSE IF ~CreatesBackup(p) THEN "move"
                ELSE IF Exists("backup") /\ plan[p].strategy = "replace_backup"
                     THEN "aside" ELSE "backup"
<1>1. /\ step[p] = "check"
      /\ step' = [step EXCEPT ![p] = s]
      /\ UNCHANGED <<disk, aside, plan, output, marred>>
    BY DEF Check, Goto
<1>2. TypeOK
    BY DEF Inv
<1>3. before' = [before EXCEPT ![p] =
                    [source |-> disk["source"], backup |-> disk["backup"]]]
    BY DEF Check
<1>4. before'[p] = [source |-> disk["source"], backup |-> disk["backup"]]
    BY <1>2, <1>3 DEF TypeOK
<1>5. Advances(p, s)
    BY <1>1 DEF Advances, Busy, Over, Step
<1>6. TypeOK'
  <2>1. disk["source"] \in Content /\ disk["backup"] \in Content
      BY <1>2 DEF TypeOK, Names
  <2>2. before' \in [Placements -> [source: Content, backup: Content]]
      BY <1>2, <1>3, <2>1 DEF TypeOK
  <2>3. \A q \in Placements : step'[q] # "new" => plan'[q] \in Plans
      BY <1>1, <1>2 DEF TypeOK
  <2> HIDE DEF s
  <2> QED
      BY <1>1, <1>2, <1>5, <2>2, <2>3, OthersRest DEF TypeOK
<1>7. LibraryOK'
    BY <1>1, <1>5, OthersRest DEF Inv, LibraryOK, Exists
<1>8. StepOK(p)'
  <2>1. AtCheck(p) /\ step'[p] = s /\ aside[p] # Torn /\ plan[p] \in Settings
      BY <1>1, <1>2, <1>5, OthersRest DEF Inv, StepOK, TypeOK
  <2>2. disk["source"] \in Content /\ disk["backup"] \in Content
      BY <1>2 DEF TypeOK, Names
  <2>3. CASE Refused(p)
      BY <1>1, <2>1, <2>3 DEF StepOK
  <2>4. CASE ~Refused(p) /\ ~CreatesBackup(p)
    <3>1. step'[p] = "move"
        BY <2>1, <2>4
    <3>2. plan[p].inPlace => Exists("backup")
        BY <2>1, <2>4 DEF Refused, CreatesBackup, Settings
    <3>3. TargetFree(p)
        BY <2>1, <2>4 DEF TargetFree, Refused, Target, Exists, Settings
    <3>4. AtMove(p)'
        BY <1>1, <1>4, <2>1, <2>4, <3>2, <3>3
        DEF AtMove, AtCheck, KeepsBackup, Untouched, CreatesBackup, Exists, Target,
            TargetFree, Content, Versions
    <3> QED
        BY <1>1, <2>1, <3>1, <3>4 DEF StepOK
  <2>5. CASE ~Refused(p) /\ CreatesBackup(p)
    <3>1. disk["source"] \in Versions /\ output[p] = p
        BY <2>1, <2>2, <2>5
        DEF AtCheck, Refused, CreatesBackup, Exists, Settings, Inv, LibraryOK, Content
    <3>4. TargetFree(p) /\ TargetFree(p)'
        BY <1>1, <2>1, <2>5
        DEF TargetFree, Refused, CreatesBackup, Target, Exists, Settings
    <3>2. CASE s = "aside"
      <4>1. AtAside(p)'
          BY <1>1, <1>4, <2>1, <2>5, <3>1, <3>2, <3>4
          DEF AtAside, AtCheck, Untouched, CreatesBackup, Exists
      <4> QED
          BY <1>1, <2>1, <3>2, <4>1 DEF StepOK
    <3>3. CASE s = "backup"
      <4>1. ~Exists("backup")
          BY <2>1, <2>5, <3>3 DEF Refused, CreatesBackup, Settings
      <4>2. AtBackup(p)'
          BY <1>1, <1>4, <2>1, <2>5, <3>1, <3>4, <4>1
          DEF AtBackup, OldAside, AtCheck, CreatesBackup, Exists
      <4> QED
          BY <1>1, <2>1, <3>3, <4>2 DEF StepOK
    <3> QED
        BY <2>5, <3>2, <3>3
  <2> QED
      BY <2>3, <2>4, <2>5
<1> QED
    BY <1>5, <1>6, <1>7, <1>8, OthersRest DEF Inv

\* The types after a step of the placement under way.
LEMMA TypesAfter ==
    ASSUME Inv, NEW p \in Placements, NEW s, Advances(p, s),
           disk' \in [Names -> Content], aside' \in [Placements -> Content],
           marred' \subseteq Placements, before' = before
    PROVE  TypeOK'
<1>1. TypeOK
    BY DEF Inv
<1>2. \A q \in Placements : step'[q] # "new" => step[q] # "new"
    BY <1>1 DEF TypeOK, Advances, Busy
<1> QED
    BY <1>1, <1>2, OthersRest DEF TypeOK, Advances

\* What the invariant says of the placement under way, in one place.
LEMMA Facts ==
    ASSUME ReplacementAssumption, Inv, NEW p \in Placements
    PROVE  /\ disk \in [Names -> Content]
           /\ disk["source"] \in Content /\ disk["backup"] \in Content
           /\ disk["target"] \in Content /\ disk["beside"] \in Content
           /\ aside \in [Placements -> Content] /\ aside[p] \in Content
           /\ aside[p] # Torn
           /\ output[p] \in Content /\ p \in Content
           /\ step[p] # "new" => plan[p] \in Settings
           /\ before[p] \in [source: Content, backup: Content]
           /\ marred \subseteq Placements
           /\ Torn \in Content /\ Absent \in Content
           /\ Target(p) \in {"source", "target", "beside"}
    BY DEF Inv, TypeOK, StepOK, ReplacementAssumption, Names, Content, Versions, Target

LEMMA MoveAsideInv ==
    ASSUME ReplacementAssumption, Inv, NEW p \in Placements, MoveAside(p)
    PROVE  Inv'
<1> USE ReplacementAssumption
<1>1. AtAside(p) /\ step[p] = "aside"
    BY DEF Inv, StepOK, MoveAside
<1>2. CASE /\ Exists("backup")
           /\ aside' = [aside EXCEPT ![p] = disk["backup"]]
           /\ disk' = [disk EXCEPT !["backup"] = Absent]
           /\ Goto(p, "backup")
  <2>1. Advances(p, "backup") /\ UNCHANGED <<marred, before, plan, output>>
      BY <1>1, <1>2, Facts DEF MoveAside, Advances, Busy, Over, Step, Goto
  <2>2. /\ disk' \in [Names -> Content] /\ aside' \in [Placements -> Content]
        /\ disk'["source"] = disk["source"] /\ disk'["backup"] = Absent
        /\ disk'["target"] = disk["target"] /\ disk'["beside"] = disk["beside"]
        /\ aside'[p] = disk["backup"]
      BY <1>2, Facts DEF Names
  <2>3. TypeOK'
      BY <2>1, <2>2, Facts, TypesAfter
  <2>4. Agreed
      BY <1>1 DEF AtAside, Agreed
  <2>5. LibraryOK'
      BY <1>1, <2>1, <2>2, <2>4, OthersRest
      DEF AtAside, LibraryOK, Exists, Names, Versions
  <2>6. StepOK(p)'
    <3>1. AtBackup(p)'
        BY <1>1, <2>1, <2>2
        DEF AtAside, AtBackup, OldAside, Untouched, CreatesBackup, TargetFree, Target
    <3>2. aside'[p] # Torn
        BY <2>2 DEF Inv, LibraryOK
    <3>3. step'[p] = "backup"
        BY <2>1, OthersRest
    <3> QED
        BY <3>1, <3>2, <3>3 DEF StepOK
  <2> QED
      BY <2>1, <2>3, <2>5, <2>6, OthersRest DEF Inv
<1>3. CASE Goto(p, "failed") /\ UNCHANGED <<disk, aside>>
  <2>1. Advances(p, "failed") /\ UNCHANGED <<marred, before, plan, output>>
      BY <1>1, <1>3 DEF MoveAside, Advances, Busy, Over, Step, Goto
  <2>2. TypeOK'
      BY <1>3, <2>1, Facts, TypesAfter
  <2>3. LibraryOK'
      BY <1>3, <2>1, OthersRest DEF Inv, LibraryOK, Exists
  <2>4. StepOK(p)'
      BY <1>3, <2>1, OthersRest, Facts DEF StepOK
  <2> QED
      BY <2>1, <2>2, <2>3, <2>4, OthersRest DEF Inv
<1> QED
    BY <1>2, <1>3 DEF MoveAside

LEMMA MoveToBackupInv ==
    ASSUME ReplacementAssumption, Inv, NEW p \in Placements, MoveToBackup(p)
    PROVE  Inv'
<1> USE ReplacementAssumption
<1>1. AtBackup(p) /\ step[p] = "backup"
    BY DEF Inv, StepOK, MoveToBackup
<1>2. CASE Exists("source") /\ Rename("source", "backup") /\ Goto(p, "move")
  <2>1. Advances(p, "move") /\ UNCHANGED <<marred, before, plan, output, aside>>
      BY <1>1, <1>2 DEF MoveToBackup, Advances, Busy, Over, Step, Goto
  <2>2. /\ disk' \in [Names -> Content]
        /\ disk'["source"] = Absent /\ disk'["backup"] = disk["source"]
        /\ disk'["target"] = disk["target"] /\ disk'["beside"] = disk["beside"]
      BY <1>2, Facts DEF Names, Rename
  <2>3. TypeOK'
      BY <2>1, <2>2, Facts, TypesAfter
  <2>4. LibraryOK'
      BY <1>1, <2>1, <2>2, OthersRest
      DEF AtBackup, LibraryOK, Exists, Names, Versions, Inv
  <2>5. StepOK(p)'
    <3>1. AtMove(p)'
        BY <1>1, <2>1, <2>2
        DEF AtBackup, AtMove, SetAside, OldAside, CreatesBackup, TargetFree, Target, Versions
    <3> QED
        BY <2>1, <3>1, OthersRest, Facts DEF StepOK
  <2> QED
      BY <2>1, <2>3, <2>4, <2>5, OthersRest DEF Inv
<1>3. CASE Goto(p, "restore") /\ UNCHANGED disk
  <2>1. Advances(p, "restore") /\ UNCHANGED <<marred, before, plan, output, aside>>
      BY <1>1, <1>3 DEF MoveToBackup, Advances, Busy, Over, Step, Goto
  <2>2. TypeOK'
      BY <1>3, <2>1, Facts, TypesAfter
  <2>3. LibraryOK'
      BY <1>3, <2>1, OthersRest DEF Inv, LibraryOK, Exists
  <2>4. AtRestore(p)'
      BY <1>1, <1>3, <2>1 DEF AtBackup, OldAside, AtRestore, CreatesBackup
  <2>5. StepOK(p)'
      BY <2>1, <2>4, OthersRest, Facts DEF StepOK
  <2> QED
      BY <2>1, <2>2, <2>3, <2>5, OthersRest DEF Inv
<1> QED
    BY <1>2, <1>3 DEF MoveToBackup

\* The content under every name after the output is moved, completely or not.
LEMMA OutputMoved ==
    ASSUME ReplacementAssumption, Inv, NEW p \in Placements, step[p] = "move",
           NEW c \in Content \ {Absent}, c = Torn \/ c = output[p],
           disk' = [disk EXCEPT ![Target(p)] = c],
           NEW s, Advances(p, s)
    PROVE  /\ disk' \in [Names -> Content]
           /\ disk'[Target(p)] = c
           /\ disk'["backup"] = disk["backup"]
           /\ Target(p) # "source" => disk'["source"] = disk["source"]
           /\ LibraryOK'
<1>1. AtMove(p)
    BY DEF Inv, StepOK
<1>2. /\ disk' \in [Names -> Content]
      /\ disk'[Target(p)] = c
      /\ \A n \in Names \ {Target(p)} : disk'[n] = disk[n]
    BY Facts DEF Names
<1>3. /\ disk'["backup"] = disk["backup"]
      /\ Target(p) # "source" => disk'["source"] = disk["source"]
    BY <1>2, Facts DEF Names
<1>4. plan[p].inPlace => disk["backup"] \in Versions
    BY <1>1, Facts
    DEF AtMove, SetAside, OldAside, KeepsBackup, CreatesBackup, Settings, Inv, LibraryOK, Exists, Content
<1>5. \E n \in Names : disk'[n] \in Versions
  <2>1. CASE plan[p].inPlace
      BY <1>3, <1>4, <2>1 DEF Names
  <2>2. CASE ~plan[p].inPlace
    <3>1. PICK n \in Names : disk[n] \in Versions
        BY DEF Inv, LibraryOK
    <3>2. Target(p) = "beside" /\ disk["beside"] = Absent
        BY <1>1, <2>2 DEF AtMove, TargetFree, Target
    <3>3. n # "beside"
        BY <3>1, <3>2, ReplacementAssumption
    <3> QED
        BY <1>2, <3>1, <3>2, <3>3
  <2> QED
      BY <2>1, <2>2
<1>6. disk'["source"] = Torn => disk'["backup"] # Absent
  <2>1. CASE Target(p) = "source"
      BY <1>3, <1>4, <2>1, ReplacementAssumption DEF Target
  <2>2. CASE Target(p) # "source"
      BY <1>3, <2>2 DEF Inv, LibraryOK, Exists
  <2> QED
      BY <2>1, <2>2
<1>7. ~Agreed' => IF Exists("backup")' THEN disk'["backup"] = Original
                  ELSE disk'["source"] = Original
  <2>1. CASE Exists("backup")
      BY <1>3, <2>1, OthersRest DEF Inv, LibraryOK, Exists
  <2>2. CASE ~Exists("backup")
    <3>1. Target(p) = "beside"
        BY <1>4, <2>2, ReplacementAssumption DEF Exists, Target
    <3> QED
        BY <1>3, <2>2, <3>1, OthersRest DEF Inv, LibraryOK, Exists
  <2> QED
      BY <2>1, <2>2
<1> QED
    BY <1>2, <1>3, <1>5, <1>6, <1>7 DEF Inv, LibraryOK, Exists

LEMMA MoveOutputInv ==
    ASSUME ReplacementAssumption, Inv, NEW p \in Placements, MoveOutput(p)
    PROVE  Inv'
<1> USE ReplacementAssumption
<1> DEFINE next == IF CreatesBackup(p) /\ plan[p].delete THEN "delete" ELSE "drop"
<1>1. AtMove(p) /\ step[p] = "move"
    BY DEF Inv, StepOK, MoveOutput
<1>2. /\ UNCHANGED <<aside, plan, output, marred, before>>
      /\ output[p] \in Content \ {Absent}
      /\ Torn \in Content \ {Absent}
    BY <1>1, Facts DEF MoveOutput, AtMove
<1>3. CASE disk' = [disk EXCEPT ![Target(p)] = output[p]] /\ Goto(p, next)
  <2>1. Advances(p, next)
      BY <1>1, <1>2, <1>3 DEF Advances, Busy, Over, Step, Goto
  <2> HIDE DEF next
  <2>2. /\ disk' \in [Names -> Content]
        /\ disk'[Target(p)] = output[p]
        /\ disk'["backup"] = disk["backup"]
        /\ Target(p) # "source" => disk'["source"] = disk["source"]
        /\ LibraryOK'
      BY <1>1, <1>2, <1>3, <2>1, OutputMoved
  <2>3. TypeOK'
      BY <1>2, <2>1, <2>2, Facts, TypesAfter
  <2>4. StepOK(p)'
    <3>1. CASE CreatesBackup(p) /\ plan[p].delete
      <4>1. step'[p] = "delete"
          BY <2>1, <3>1, OthersRest DEF next
      <4>2. AtDelete(p)'
          BY <1>1, <1>2, <2>2, <3>1, Facts
          DEF AtMove, AtDelete, SetAside, OldAside, KeepsBackup, CreatesBackup, Target, Versions
      <4> QED
          BY <1>2, <4>1, <4>2, Facts DEF StepOK
    <3>2. CASE ~(CreatesBackup(p) /\ plan[p].delete)
      <4>1. step'[p] = "drop"
          BY <2>1, <3>2, OthersRest DEF next
      <4>2. AtDrop(p)'
          BY <1>1, <1>2, <2>2, <3>2, Facts
          DEF AtMove, AtDrop, SetAside, OldAside, KeepsBackup, CreatesBackup, Target, Exists
      <4> QED
          BY <1>2, <4>1, <4>2, Facts DEF StepOK
    <3> QED
        BY <3>1, <3>2
  <2> QED
      BY <2>1, <2>2, <2>3, <2>4, OthersRest DEF Inv
<1>4. CASE Goto(p, "undo") /\ UNCHANGED disk
  <2>1. Advances(p, "undo")
      BY <1>1, <1>2, <1>4 DEF Advances, Busy, Over, Step, Goto
  <2>2. TypeOK'
      BY <1>2, <1>4, <2>1, Facts, TypesAfter
  <2>3. LibraryOK'
      BY <1>4, <2>1, OthersRest DEF Inv, LibraryOK, Exists
  <2>4. AtUndo(p)'
      BY <1>1, <1>2, <1>4
      DEF AtMove, AtUndo, SetAside, OldAside, KeepsBackup, Untouched, CreatesBackup, Exists
  <2>5. StepOK(p)'
      BY <1>2, <2>1, <2>4, OthersRest, Facts DEF StepOK
  <2> QED
      BY <2>1, <2>2, <2>3, <2>5, OthersRest DEF Inv
<1>5. CASE /\ disk' = [disk EXCEPT ![Target(p)] = Torn]
           /\ Goto(p, "undo") \/ Goto(p, "dead")
  <2>1. PICK s \in {"undo", "dead"} : Goto(p, s)
      BY <1>5
  <2>2. Advances(p, s)
      BY <1>1, <1>2, <2>1 DEF Advances, Busy, Over, Step, Goto
  <2>3. /\ disk' \in [Names -> Content]
        /\ disk'[Target(p)] = Torn
        /\ disk'["backup"] = disk["backup"]
        /\ Target(p) # "source" => disk'["source"] = disk["source"]
        /\ LibraryOK'
      BY <1>1, <1>2, <1>5, <2>2, OutputMoved
  <2>4. TypeOK'
      BY <1>2, <2>2, <2>3, Facts, TypesAfter
  <2>5. AtUndo(p)'
      BY <1>1, <1>2, <2>3
      DEF AtMove, AtUndo, SetAside, OldAside, KeepsBackup, Untouched, CreatesBackup, Exists
  <2>6. StepOK(p)'
      BY <1>2, <2>1, <2>2, <2>5, OthersRest, Facts DEF StepOK
  <2> QED
      BY <2>2, <2>3, <2>4, <2>6, OthersRest DEF Inv
<1> QED
    BY <1>3, <1>4, <1>5 DEF MoveOutput

LEMMA UndoInv ==
    ASSUME ReplacementAssumption, Inv, NEW p \in Placements, Undo(p)
    PROVE  Inv'
<1> USE ReplacementAssumption
<1>1. AtUndo(p) /\ step[p] = "undo" /\ UNCHANGED <<aside, plan, output, before>>
    BY DEF Inv, StepOK, Undo
<1>2. Advances(p, "restore")
    BY <1>1 DEF Undo, Advances, Busy, Over, Step, Goto
<1>3. CASE /\ CreatesBackup(p) /\ Exists("backup") /\ ~Exists("source")
           /\ Rename("backup", "source") /\ UNCHANGED marred
  <2>1. /\ disk' \in [Names -> Content]
        /\ disk'["source"] = disk["backup"] /\ disk'["backup"] = Absent
      BY <1>3, Facts DEF Names, Rename
  <2>2. disk["backup"] \in Versions
      BY <1>1, <1>3 DEF AtUndo, SetAside, OldAside, KeepsBackup
  <2>3. TypeOK'
      BY <1>1, <1>2, <1>3, <2>1, Facts, TypesAfter
  <2>4. LibraryOK'
      BY <1>2, <1>3, <2>1, <2>2, OthersRest
      DEF Inv, LibraryOK, Exists, Names, Versions
  <2>5. AtRestore(p)'
      BY <1>1, <1>3, <2>1, <2>2
      DEF AtUndo, AtRestore, SetAside, OldAside, KeepsBackup, CreatesBackup
  <2>6. StepOK(p)'
      BY <1>1, <1>2, <2>5, OthersRest, Facts DEF StepOK
  <2> QED
      BY <1>2, <2>3, <2>4, <2>6, OthersRest DEF Inv
<1>4. CASE /\ UNCHANGED disk
           /\ \/ marred' = marred \cup {p}
              \/ /\ ~(CreatesBackup(p) /\ Exists("backup") /\ ~Exists("source"))
                 /\ UNCHANGED marred
  <2>1. marred' \subseteq Placements /\ marred \subseteq marred'
      BY <1>4, Facts
  <2>2. TypeOK'
      BY <1>1, <1>2, <1>4, <2>1, Facts, TypesAfter
  <2>3. LibraryOK'
      BY <1>2, <1>4, OthersRest DEF Inv, LibraryOK, Exists
  <2>4. AtRestore(p)'
      BY <1>1, <1>4
      DEF AtUndo, AtRestore, SetAside, OldAside, KeepsBackup, Untouched, CreatesBackup, Exists,
          Versions
  <2>5. StepOK(p)'
      BY <1>1, <1>2, <2>4, OthersRest, Facts DEF StepOK
  <2> QED
      BY <1>2, <2>2, <2>3, <2>5, OthersRest DEF Inv
<1> QED
    BY <1>3, <1>4 DEF Undo

LEMMA RestoreInv ==
    ASSUME ReplacementAssumption, Inv, NEW p \in Placements, Restore(p)
    PROVE  Inv'
<1> USE ReplacementAssumption
<1>1. AtRestore(p) /\ step[p] = "restore" /\ UNCHANGED <<plan, output, before>>
    BY DEF Inv, StepOK, Restore
<1>2. step' = [step EXCEPT ![p] = "failed"]
    BY DEF Restore, Goto
<1>3. CASE /\ aside[p] # Absent /\ ~Exists("backup")
           /\ disk' = [disk EXCEPT !["backup"] = aside[p]]
           /\ aside' = [aside EXCEPT ![p] = Absent]
           /\ UNCHANGED marred
  <2>1. Advances(p, "failed")
      BY <1>1, <1>2, <1>3, Facts DEF Advances, Busy, Over, Step
  <2>2. /\ disk' \in [Names -> Content] /\ aside' \in [Placements -> Content]
        /\ disk'["source"] = disk["source"] /\ disk'["backup"] = aside[p]
        /\ aside'[p] = Absent
      BY <1>3, Facts DEF Names
  <2>3. disk["source"] \in Versions
      BY <1>1, <1>3 DEF AtRestore, SetAside, OldAside, KeepsBackup, Exists, Versions
  <2>4. TypeOK'
      BY <1>1, <1>3, <2>1, <2>2, Facts, TypesAfter
  <2>5. Agreed
      BY <1>1, <1>3
      DEF AtRestore, SetAside, KeepsBackup, OldAside, Exists, Agreed
  <2>6. LibraryOK'
      BY <1>3, <2>1, <2>2, <2>3, <2>5, OthersRest, Facts
      DEF Inv, LibraryOK, Exists, Names, Versions
  <2>7. StepOK(p)'
      BY <2>1, <2>2, OthersRest DEF StepOK
  <2> QED
      BY <2>1, <2>4, <2>6, <2>7, OthersRest DEF Inv
<1>4. CASE UNCHANGED <<disk, aside>> /\ marred' \subseteq Placements
  <2>1. Advances(p, "failed")
      BY <1>1, <1>2, <1>4 DEF Advances, Busy, Over, Step
  <2>2. TypeOK'
      BY <1>1, <1>4, <2>1, Facts, TypesAfter
  <2>3. LibraryOK'
      BY <1>4, <2>1, OthersRest DEF Inv, LibraryOK, Exists
  <2>4. StepOK(p)'
      BY <1>4, <2>1, OthersRest, Facts DEF StepOK
  <2> QED
      BY <2>1, <2>2, <2>3, <2>4, OthersRest DEF Inv
<1> QED
    BY <1>3, <1>4, Facts DEF Restore

LEMMA DeleteBackupInv ==
    ASSUME ReplacementAssumption, Inv, NEW p \in Placements, DeleteBackup(p)
    PROVE  Inv'
<1> USE ReplacementAssumption
<1>1. /\ AtDelete(p) /\ step[p] = "delete"
      /\ UNCHANGED <<aside, plan, output, marred, before>>
    BY DEF Inv, StepOK, DeleteBackup
<1>2. Advances(p, "drop")
    BY <1>1 DEF DeleteBackup, Advances, Busy, Over, Step, Goto
<1>3. Target(p) \in {"source", "target"} /\ disk[Target(p)] \in Versions
    BY <1>1, Facts DEF AtDelete, CreatesBackup, Target, Versions
<1>4. Agreed
    BY <1>1 DEF AtDelete, Agreed
<1>5. /\ disk' \in [Names -> Content]
      /\ \A n \in Names \ {"backup"} : disk'[n] = disk[n]
      /\ disk'["backup"] \in {Absent, disk["backup"]}
    BY Facts DEF DeleteBackup, Names
<1>6. disk'[Target(p)] = disk[Target(p)] /\ disk'["source"] = disk["source"]
    BY <1>3, <1>5 DEF Names
<1>7. TypeOK'
    BY <1>1, <1>2, <1>5, Facts, TypesAfter
<1>8. LibraryOK'
    BY <1>1, <1>2, <1>3, <1>4, <1>5, <1>6, OthersRest
    DEF AtDelete, Inv, LibraryOK, Exists, Names
<1>9. StepOK(p)'
  <2>1. AtDrop(p)'
      BY <1>1, <1>6 DEF AtDelete, AtDrop, CreatesBackup, Target
  <2> QED
      BY <1>1, <1>2, <2>1, OthersRest, Facts DEF StepOK, Inv
<1> QED
    BY <1>2, <1>7, <1>8, <1>9, OthersRest DEF Inv

LEMMA DropAsideInv ==
    ASSUME ReplacementAssumption, Inv, NEW p \in Placements, DropAside(p)
    PROVE  Inv'
<1>1. step[p] = "drop" /\ UNCHANGED <<disk, plan, output, marred, before>>
    BY DEF DropAside
<1>2. aside' = aside \/ aside' = [aside EXCEPT ![p] = Absent]
    BY DEF DropAside
<1>3. Advances(p, "succeeded")
    BY <1>1, <1>2, Facts DEF DropAside, Advances, Busy, Over, Step, Goto
<1>4. TypeOK'
    BY <1>1, <1>2, <1>3, Facts, TypesAfter, ReplacementAssumption
<1>5. LibraryOK'
    BY <1>1, <1>3, OthersRest DEF Inv, LibraryOK, Exists
<1>6. StepOK(p)'
  <2>1. aside'[p] \in {aside[p], Absent} /\ step'[p] = "succeeded" /\ plan' = plan
      BY <1>1, <1>2, <1>3, Facts, OthersRest
  <2>2. StepOK(p)
      BY DEF Inv
  <2> QED
      BY <2>1, <2>2, ReplacementAssumption DEF StepOK
<1> QED
    BY <1>3, <1>4, <1>5, <1>6, OthersRest DEF Inv

LEMMA DieInv ==
    ASSUME ReplacementAssumption, Inv, NEW p \in Placements, Die(p)
    PROVE  Inv'
<1>1. UNCHANGED <<disk, aside, plan, output, marred, before>>
    BY DEF Die
<1>2. Advances(p, "dead")
    BY <1>1 DEF Die, Advances, Busy, Over, Step, Goto
<1>3. TypeOK'
    BY <1>1, <1>2, Facts, TypesAfter
<1>4. LibraryOK'
    BY <1>1, <1>2, OthersRest DEF Inv, LibraryOK, Exists
<1>5. StepOK(p)'
    BY <1>1, <1>2, OthersRest DEF StepOK, Inv
<1> QED
    BY <1>2, <1>3, <1>4, <1>5, OthersRest DEF Inv

LEMMA NextInv ==
    ASSUME ReplacementAssumption, ~Overlap, Inv, [Next]_vars
    PROVE  Inv'
<1>1. CASE UNCHANGED vars
    BY <1>1
    DEF vars, Inv, TypeOK, Alone, Busy, LibraryOK, Agreed, Exists, StepOK, AtCheck,
        AtAside, AtBackup, OldAside, AtMove, AtUndo, AtRestore, AtDelete, AtDrop, TargetFree,
        SetAside, KeepsBackup, Untouched, CreatesBackup, Target
<1>2. CASE Next
    BY <1>2, BeginInv, CheckInv, MoveAsideInv, MoveToBackupInv, MoveOutputInv,
       UndoInv, RestoreInv, DeleteBackupInv, DropAsideInv, DieInv
    DEF Next
<1> QED
    BY <1>1, <1>2

-----------------------------------------------------------------------------
(* Theorems.                                                               *)

\* The strengthened invariant holds of the whole specification.
THEOREM InductiveInvariant == ~Overlap => (Spec => []Inv)
<1> SUFFICES ASSUME ~Overlap PROVE Spec => []Inv
    OBVIOUS
<1>1. Init => Inv
    BY InitInv, ReplacementAssumption
<1>2. Inv /\ [Next]_vars => Inv'
    BY NextInv, ReplacementAssumption
<1> QED
    BY <1>1, <1>2, PTL DEF Spec

\* Every variable keeps its type.
THEOREM TypeCorrect == ~Overlap => (Spec => []TypeOK)
<1>1. Inv => TypeOK
    BY DEF Inv
<1> QED
    BY <1>1, InductiveInvariant, PTL

\* While nobody agreed to lose it, the original has a known name.
THEOREM OriginalStays == ~Overlap => (Spec => []OriginalKept)
<1>1. Inv => OriginalKept
    BY DEF Inv, LibraryOK, Agreed, OriginalKept, Names, Exists
<1> QED
    BY <1>1, InductiveInvariant, PTL

\* A failed placement has put the source and its backup back, unless the undo
\* failed too or a cut copy lies under the source's name.
THEOREM FailuresUndone == ~Overlap => (Spec => FailureUndone)
<1> DEFINE Undone(p) ==
        Ends(p, "failed") =>
            \/ p \in marred'
            \/ disk'["source"] = Torn
            \/ before'[p] = [source |-> disk'["source"], backup |-> disk'["backup"]]
<1>1. Inv /\ [Next]_vars => \A p \in Placements : Undone(p)
  <2> SUFFICES ASSUME Inv, [Next]_vars, NEW p \in Placements, Ends(p, "failed")
               PROVE  \/ p \in marred'
                      \/ disk'["source"] = Torn
                      \/ before'[p] = [source |-> disk'["source"],
                                       backup |-> disk'["backup"]]
      OBVIOUS
  <2>1. Check(p) \/ MoveAside(p) \/ Restore(p)
      BY Facts, ReplacementAssumption
      DEF Next, vars, Ends, Begin, Check, MoveAside, MoveToBackup, MoveOutput, Undo,
          Restore, DeleteBackup, DropAside, Die, Goto, Inv, TypeOK
  <2>2. CASE Check(p)
      BY <2>2, Facts DEF Check, Inv, TypeOK
  <2>3. CASE MoveAside(p)
      BY <2>3, Facts, ReplacementAssumption
      DEF MoveAside, AtAside, Untouched, Inv, StepOK, Goto, Ends, TypeOK
  <2>4. CASE Restore(p)
    <3>1. AtRestore(p) /\ before' = before
        BY <2>4 DEF Restore, Inv, StepOK
    <3> QED
        BY <2>4, <3>1, Facts, ReplacementAssumption
        DEF Restore, AtRestore, SetAside, OldAside, KeepsBackup, Untouched, Exists, Names, Inv, LibraryOK
  <2> QED
      BY <2>1, <2>2, <2>3, <2>4
<1>2. ~Overlap => (Spec => []Inv)
    BY InductiveInvariant
<1> QED
    BY <1>1, <1>2, PTL DEF Spec, FailureUndone

\* A placement that succeeds without deleting has left the replaced file, or
\* the backup the operator kept, under the backup's name.
THEOREM SuccessesKeepBackup == ~Overlap => (Spec => SuccessKeepsBackup)
<1> DEFINE Kept(p) ==
        Ends(p, "succeeded") /\ plan[p].inPlace /\ ~(CreatesBackup(p) /\ plan[p].delete) =>
            /\ disk'[Target(p)] = output[p]
            /\ disk'["backup"] = IF CreatesBackup(p) THEN before[p].source
                                 ELSE before[p].backup
            /\ disk'["backup"] # Absent
<1>1. Inv /\ [Next]_vars => \A p \in Placements : Kept(p)
  <2> SUFFICES ASSUME Inv, [Next]_vars, NEW p \in Placements, Ends(p, "succeeded"),
                      plan[p].inPlace, ~(CreatesBackup(p) /\ plan[p].delete)
               PROVE  /\ disk'[Target(p)] = output[p]
                      /\ disk'["backup"] = IF CreatesBackup(p) THEN before[p].source
                                           ELSE before[p].backup
                      /\ disk'["backup"] # Absent
      OBVIOUS
  <2>1. DropAside(p)
      BY Facts, ReplacementAssumption
      DEF Next, vars, Ends, Begin, Check, MoveAside, MoveToBackup, MoveOutput, Undo,
          Restore, DeleteBackup, DropAside, Die, Goto, Inv, TypeOK
  <2>2. AtDrop(p) /\ disk' = disk
      BY <2>1 DEF DropAside, Inv, StepOK
  <2> QED
      BY <2>2, ReplacementAssumption DEF AtDrop, SetAside, KeepsBackup, Exists
<1>2. ~Overlap => (Spec => []Inv)
    BY InductiveInvariant
<1> QED
    BY <1>1, <1>2, PTL DEF Spec, SuccessKeepsBackup

\* Replacement implements MediaVault: a complete version always has a known
\* name, and the original goes only after an agreement.
THEOREM MediaKept == ~Overlap => (Spec => KeepsMedia)
<1> USE ReplacementAssumption
<1>1. Init => Vault!Init
  <2> SUFFICES ASSUME Init PROVE Vault!Init
      OBVIOUS
  <2>1. \A n \in Names : disk[n] = IF n = "source" THEN Original ELSE Absent
      BY DEF Init
  <2>2. Held = {Original}
      BY <2>1 DEF Held, Names, Versions
  <2>3. ~Agreed
      BY DEF Init, Agreed
  <2> QED
      BY <2>2, <2>3 DEF Vault!Init, Held, Agreed
<1>2. Inv /\ Inv' /\ [Next]_vars => [Vault!Next]_<<Held, Agreed>>
  <2> SUFFICES ASSUME Inv, Inv', [Next]_vars
               PROVE  [Vault!Next]_<<Held, Agreed>>
      OBVIOUS
  <2>1. CASE UNCHANGED vars
      BY <2>1 DEF vars, Held, Agreed
  <2>2. CASE \E p \in Placements : Begin(p)
    <3>1. PICK p \in Placements : Begin(p)
        BY <2>2
    <3>2. Held' = Held
        BY <3>1 DEF Begin, Held
    <3>3. Agreed => Agreed'
      <4>1. \A q \in Placements : step[q] # "new" => step'[q] = step[q] /\ plan'[q] = plan[q]
          BY <3>1 DEF Begin, Goto, Inv, TypeOK
      <4> QED
          BY <4>1 DEF Agreed
    <3> QED
        BY <3>2, <3>3 DEF Vault!Next, Vault!Agree, Held, Agreed
  <2>3. CASE \E p \in Placements :
                \/ Check(p) \/ MoveAside(p) \/ MoveToBackup(p) \/ MoveOutput(p)
                \/ Undo(p) \/ Restore(p) \/ DeleteBackup(p) \/ DropAside(p) \/ Die(p)
    <3>1. Agreed' <=> Agreed
      <4>1. \A q \in Placements : step'[q] = "new" <=> step[q] = "new"
          BY <2>3
          DEF Check, MoveAside, MoveToBackup, MoveOutput, Undo, Restore, DeleteBackup,
              DropAside, Die, Goto, Inv, TypeOK, Over
      <4>2. plan' = plan
          BY <2>3
          DEF Check, MoveAside, MoveToBackup, MoveOutput, Undo, Restore, DeleteBackup,
              DropAside, Die
      <4> QED
          BY <4>1, <4>2 DEF Agreed
    <3>2. Held' \subseteq Versions /\ Held' # {}
      <4>1. \A n \in Names : disk'[n] \in Versions \cup {Torn, Absent}
          BY DEF Inv, TypeOK, Content
      <4>2. \E n \in Names : disk'[n] \in Versions
          BY DEF Inv, LibraryOK
      <4> QED
          BY <4>1, <4>2 DEF Held
    <3>3. ~Agreed' => Original \in Held'
      <4>1. ~Agreed' => disk'["backup"] = Original \/ disk'["source"] = Original
          BY DEF Inv, LibraryOK
      <4> QED
          BY <4>1 DEF Held, Names, Versions
    <3>4. Vault!Change
        BY <3>1, <3>2, <3>3 DEF Vault!Change, Held, Agreed
    <3> QED
        BY <3>4 DEF Vault!Next
  <2> QED
      BY <2>1, <2>2, <2>3 DEF Next
<1>3. ~Overlap => (Spec => []Inv)
    BY InductiveInvariant
<1> QED
    BY <1>1, <1>2, <1>3, PTL DEF Spec, KeepsMedia, Vault!Spec, Held, Agreed
=============================================================================
