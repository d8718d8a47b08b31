---------------------------- MODULE ActionsProofs ----------------------------
(***************************************************************************)
(* Proofs about what actions do to the world outside, for any number of    *)
(* processes, paths, files, mails, peers and calls: the file actions of    *)
(* the Bridges, the workspace tools of the agent's bots, Gmail and the     *)
(* tools of Telegram.  In all of them an action looks first and acts later *)
(* on what it saw; the invariants say what it still knows then, and what   *)
(* remains in any case.                                                    *)
(***************************************************************************)
EXTENDS FileActions, AgentTools, Gmail, TelegramTools,
        FiniteSetTheorems, SequenceTheorems, WellFoundedInduction, TLAPS

-----------------------------------------------------------------------------
(* The file actions of the Bridges.                                        *)

Contents == Paths \cup {Nothing, Fragment, New}
Overwriting == {"write", "delete", "zip", "download", "unzip"}
Verbs == Overwriting \cup {"append", "copy", "move"}
Ats == {"checked", "temp", "filled", "open", "created"}

\* What an action under way is: it writes in its area, where its target is, and
\* the temporary file if it writes one.
FileCalls ==
    {c \in [verb : Verbs, at : Ats, from : Paths \cup {Nothing}, to : Paths \cup {Nothing},
            area : SUBSET Paths] :
       /\ c.to \in Paths => c.to \in c.area
       /\ c.verb # "unzip" \/ c.at = "open" => c.to \in Paths
       /\ c.verb = "write" => /\ c.to \in DOMAIN TempName
                              /\ TempName[c.to] \in c.area
       /\ c.verb \in {"copy", "move"} => c.from \in Paths
       /\ c.verb = "move" => c.from \in c.area}

FileTypes ==
    /\ holds \in [Paths -> Contents]
    /\ act \in [Agents -> FileCalls \cup {Resting}]
    /\ raced \in BOOLEAN

\* The originals in the area of an action that overwrites were given up.
GivenUp(area) == \A p \in area : holds[p] \in Paths => holds[p] \in aimed \cup besides

\* An action finds its paths as it has left them: an original that it would put
\* away was given up, and the destination of a copy or a move is free.
OnItsWay(a) ==
    LET c == act[a] IN
    /\ c.verb \in Overwriting => GivenUp(c.area)
    /\ c.verb \in {"copy", "move"} /\ c.at = "checked" => ~Exists(c.to) /\ c.from # c.to
    /\ c.verb = "copy" /\ c.at = "open" => holds[c.to] = Fragment
    /\ c.verb = "write" /\ c.at = "filled" => holds[TempName[c.to]] = New

Apart == \A a, b \in Agents : a # b => UsedBy(a) \cap UsedBy(b) = {}

FileInv == FileTypes /\ (~raced => Apart /\ \A a \in Agents : act[a] # Resting => OnItsWay(a))

LEMMA VerbsAre ==
  /\ Nothing \notin Paths /\ Fragment \notin Paths /\ New \notin Paths
  /\ Nothing # Fragment /\ Nothing # New /\ Fragment # New
  /\ Nothing \in Contents /\ Fragment \in Contents /\ New \in Contents
  BY FileAssumption DEF Nothing, Fragment, New, Contents

LEMMA RestingIs ==
  /\ Resting.verb = "rest" /\ Resting.at = "rest" /\ Resting \notin FileCalls
  /\ Resting.area = {} /\ Resting.from = Nothing
  BY DEF Resting, FileCalls, Verbs, Overwriting

LEMMA CallFields ==
  ASSUME NEW c \in FileCalls
  PROVE  /\ c.verb \in Verbs /\ c.at \in Ats /\ c # Resting /\ c.area \subseteq Paths
         /\ c.from \in Paths \cup {Nothing} /\ c.to \in Paths \cup {Nothing}
         /\ c.to \in Paths => c.to \in c.area
         /\ c.verb # "unzip" \/ c.at = "open" => c.to \in Paths
         /\ c.verb = "write" => /\ c.to \in DOMAIN TempName
                                /\ TempName[c.to] \in c.area
         /\ c.verb \in {"copy", "move"} => c.from \in Paths
         /\ c.verb = "move" => c.from \in c.area
  BY RestingIs DEF FileCalls

\* An action goes on with what it has.
LEMMA CallGoesOn ==
  ASSUME NEW c \in FileCalls, NEW at \in Ats, NEW new, new = [c EXCEPT !.at = at],
         c.verb # "unzip"
  PROVE  /\ new \in FileCalls /\ new.at = at /\ new.verb = c.verb
         /\ new.from = c.from /\ new.to = c.to /\ new.area = c.area
  BY DEF FileCalls

\* An archive's next member.
LEMMA CallOfMember ==
  ASSUME NEW c \in FileCalls, c.verb = "unzip", NEW p \in c.area, NEW new,
         new = [c EXCEPT !.at = "open", !.to = p]
  PROVE  new \in FileCalls /\ new.verb = "unzip" /\ new.from = c.from /\ new.area = c.area
<1>1. new = [verb |-> "unzip", at |-> "open", from |-> c.from, to |-> p, area |-> c.area]
  BY DEF FileCalls
<1> QED
  BY <1>1, CallFields DEF FileCalls, Ats

\* And what is left of it.
LEMMA CallOfRest ==
  ASSUME NEW c \in FileCalls, c.verb = "unzip", NEW left \in SUBSET c.area, NEW new,
         new = [verb |-> "unzip", at |-> "checked", from |-> c.from, to |-> Nothing, area |-> left]
  PROVE  new \in FileCalls /\ new.verb = "unzip" /\ new.from = c.from /\ new.area = left
  BY VerbsAre, CallFields DEF FileCalls, Ats

\* What an action is about, while it goes on.
LEMMA CallUses ==
  ASSUME FileTypes, NEW a \in Agents, act[a] # Resting
  PROVE  /\ act[a] \in FileCalls /\ act[a].area \subseteq UsedBy(a)
         /\ UsedBy(a) = act[a].area \cup ({act[a].from} \ {Nothing})
<1>1. act[a] \in FileCalls
  BY DEF FileTypes
<1> QED
  BY <1>1 DEF UsedBy

\* A step of an action in its area leaves the others on their way.
LEMMA StepKeeps ==
  ASSUME FileInv, NEW a \in Agents, act[a] # Resting, NEW c \in FileCalls \cup {Resting},
         act' = [act EXCEPT ![a] = c],
         c # Resting => c.area \subseteq act[a].area /\ c.from = act[a].from,
         holds' \in [Paths -> Contents],
         \A p \in Paths : p \notin act[a].area => holds'[p] = holds[p],
         UNCHANGED <<aimed, besides, raced>>,
         ~raced /\ c # Resting => OnItsWay(a)'
  PROVE  FileInv' /\ act'[a] = c /\ \A b \in Agents \ {a} : act'[b] = act[b]
<1>1. FileTypes'
  BY DEF FileInv, FileTypes
<1>2. /\ act'[a] = c /\ \A b \in Agents \ {a} : act'[b] = act[b]
  BY DEF FileInv, FileTypes
<1>3. UsedBy(a)' \subseteq UsedBy(a) /\ \A b \in Agents \ {a} : UsedBy(b)' = UsedBy(b)
  BY <1>2, RestingIs DEF UsedBy
<1>4. ASSUME ~raced PROVE Apart' /\ \A b \in Agents : act'[b] # Resting => OnItsWay(b)'
  <2>1. Apart /\ \A b \in Agents : act[b] # Resting => OnItsWay(b)
    BY <1>4 DEF FileInv
  <2>2. Apart'
    BY <1>3, <2>1 DEF Apart
  <2>3. ASSUME NEW b \in Agents \ {a}, act'[b] # Resting PROVE OnItsWay(b)'
    <3>1. act[b] # Resting /\ OnItsWay(b) /\ act'[b] = act[b]
      BY <1>2, <2>1, <2>3
    <3>2. /\ act[b].area \subseteq UsedBy(b) /\ act[b] \in FileCalls
          /\ act[a].area \subseteq UsedBy(a)
      BY <3>1, CallUses DEF FileInv
    <3>3. act[b].area \cap act[a].area = {} /\ act[b].area \subseteq Paths
      BY <2>1, <3>2, CallFields DEF Apart
    <3>4. \A p \in act[b].area : holds'[p] = holds[p]
      BY <3>3
    <3>5. act[b].verb = "write" => holds'[TempName[act[b].to]] = holds[TempName[act[b].to]]
      BY <3>2, <3>4, CallFields
    <3>6. act[b].verb \in {"copy", "move"} => holds'[act[b].to] = holds[act[b].to]
      BY <3>2, <3>4, CallFields
    <3> QED
      BY <3>1, <3>4, <3>5, <3>6 DEF OnItsWay, GivenUp, Exists
  <2> QED
    BY <1>2, <1>4, <2>2, <2>3
<1> QED
  BY <1>1, <1>2, <1>4 DEF FileInv

\* A step with which an action ends.
LEMMA EndKeeps ==
  ASSUME FileInv, NEW a \in Agents, act[a] # Resting, ActEnds(a),
         holds' \in [Paths -> Contents],
         \A p \in Paths : p \notin act[a].area => holds'[p] = holds[p],
         UNCHANGED <<aimed, besides, raced>>
  PROVE  FileInv' /\ \A b \in Agents \ {a} : act'[b] = act[b]
<1>1. PICK c : c = Resting
  OBVIOUS
<1>2. act' = [act EXCEPT ![a] = c]
  BY <1>1 DEF ActEnds
<1> QED
  BY <1>1, <1>2, StepKeeps

\* An original is gone only if the place where it was has something else.
LEMMA OriginalsGo ==
  ASSUME \A q \in Paths : \/ holds'[q] = holds[q] \/ holds[q] \notin Paths
                          \/ holds[q] \in aimed \cup besides
                          \/ \E r \in Paths : holds'[r] = holds[q]
  PROVE  KeepsOriginals
  BY DEF KeepsOriginals, Originals

\* An action that overwrites puts away what was given up.
LEMMA OverwritesKeep ==
  ASSUME FileInv, ~raced, NEW a \in Agents, act[a] # Resting, act[a].verb \in Overwriting,
         \A p \in Paths : p \notin act[a].area => holds'[p] = holds[p]
  PROVE  KeepsOriginals
<1>1. GivenUp(act[a].area)
  BY DEF FileInv, OnItsWay
<1> QED
  BY <1>1, OriginalsGo DEF GivenUp

\* Only the steps of a writing action are looked at.
LEMMA WholeElsewhere ==
  ASSUME NEW a \in Agents, \A b \in Agents \ {a} : act'[b] = act[b],
         act[a].verb = "write" => holds'[act[a].to] \in {holds[act[a].to], New}
  PROVE  ReplacesWhole
  BY DEF ReplacesWhole

\* What a step of an action keeps, unless two actions are on one path.
StepSafe == KeepsOriginals /\ ReplacesWhole

LEMMA FilesStart == FilesInit => FileInv
<1> SUFFICES ASSUME FilesInit PROVE FileInv
  OBVIOUS
<1>1. FileTypes
  BY VerbsAre DEF FilesInit, FileTypes, Contents
<1>2. \A a \in Agents : act[a] = Resting /\ UsedBy(a) = {}
  BY RestingIs DEF FilesInit, UsedBy
<1> QED
  BY <1>1, <1>2 DEF FileInv, Apart

LEMMA BeginFileKeeps ==
  ASSUME FileInv, NEW a \in Agents, NEW verb, NEW from, NEW to, NEW area, NEW named,
         Begin(a, verb, from, to, area, named), NEW c \in FileCalls,
         c = [verb |-> verb, at |-> "checked", from |-> from, to |-> to, area |-> area],
         verb \in {"copy", "move"} => ~Exists(to) /\ from # to
  PROVE  FileInv' /\ StepSafe
<1>1. /\ c.verb = verb /\ c.at = "checked" /\ c.from = from /\ c.to = to /\ c.area = area
      /\ area \subseteq Paths /\ c # Resting /\ verb \in Verbs
  BY CallFields
<1>2. /\ act[a] = Resting /\ act' = [act EXCEPT ![a] = c] /\ holds' = holds
      /\ raced' = (raced \/ \E b \in Agents \ {a} : UsedBy(b) \cap (area \cup {from}) # {})
      /\ aimed' = aimed \cup Originals(named)
      /\ besides' = besides \cup
           (IF verb \in {"append", "copy", "move"} THEN {} ELSE Originals(area \ named))
  BY DEF Begin
<1>3. FileTypes'
  BY <1>2 DEF FileInv, FileTypes
<1>4. act'[a] = c /\ \A b \in Agents \ {a} : act'[b] = act[b]
  BY <1>2 DEF FileInv, FileTypes
<1>5. aimed \subseteq aimed' /\ besides \subseteq besides'
  BY <1>2
<1>6. ASSUME ~raced' PROVE Apart' /\ \A b \in Agents : act'[b] # Resting => OnItsWay(b)'
  <2>1. ~raced /\ \A b \in Agents \ {a} : UsedBy(b) \cap (area \cup {from}) = {}
    BY <1>2, <1>6
  <2>2. Apart /\ \A b \in Agents : act[b] # Resting => OnItsWay(b)
    BY <2>1 DEF FileInv
  <2>3. /\ UsedBy(a)' \subseteq area \cup {from} /\ \A b \in Agents \ {a} : UsedBy(b)' = UsedBy(b)
    BY <1>1, <1>4 DEF UsedBy
  <2>4. Apart'
    BY <2>1, <2>2, <2>3 DEF Apart
  <2>5. ASSUME NEW b \in Agents \ {a}, act'[b] # Resting PROVE OnItsWay(b)'
    <3>1. OnItsWay(b) /\ act'[b] = act[b]
      BY <1>4, <2>2, <2>5
    <3> QED
      BY <1>2, <1>5, <3>1 DEF OnItsWay, GivenUp, Exists
  <2>6. OnItsWay(a)'
    <3>1. verb \in Overwriting => GivenUp(area)'
      <4> SUFFICES ASSUME verb \in Overwriting, NEW p \in area, holds[p] \in Paths
                   PROVE  holds[p] \in aimed' \cup besides'
        BY <1>2 DEF GivenUp
      <4>1. holds[p] \in Originals(named) \/ holds[p] \in Originals(area \ named)
        BY DEF Originals
      <4>2. verb \notin {"append", "copy", "move"}
        BY DEF Overwriting
      <4> QED
        BY <1>2, <4>1, <4>2
    <3> QED
      BY <1>1, <1>2, <1>4, <3>1 DEF OnItsWay, Exists
  <2> QED
    BY <2>4, <2>5, <2>6
<1>7. FileInv'
  BY <1>3, <1>6 DEF FileInv
<1> QED
  BY <1>2, <1>7, OriginalsGo DEF StepSafe, ReplacesWhole

\* write_file, up to the replacement: only its temporary file changes.
LEMMA TempKeeps ==
  ASSUME FileInv, NEW a \in Agents, WriteTemp(a) \/ FillTemp(a)
  PROVE  FileInv' /\ (~raced => StepSafe)
<1>1. act[a] # Resting /\ act[a] \in FileCalls /\ act[a].verb = "write"
  BY RestingIs, CallUses DEF WriteTemp, FillTemp, Is, FileInv
<1>2. PICK t \in Paths : t = TempName[act[a].to] /\ t \in act[a].area /\ t # act[a].to
  BY <1>1, CallFields, FileAssumption
<1>3. PICK at \in Ats, what \in Contents :
        /\ act' = [act EXCEPT ![a].at = at] /\ holds' = [holds EXCEPT ![t] = what]
        /\ what \notin Paths /\ (at = "filled" => what = New)
  BY <1>2, VerbsAre DEF WriteTemp, FillTemp, ActGoes, Becomes, TempOf, Ats
<1>4. UNCHANGED <<aimed, besides, raced>>
  BY DEF WriteTemp, FillTemp
<1>5. PICK c : c = [act[a] EXCEPT !.at = at]
  OBVIOUS
<1>6. /\ c \in FileCalls /\ c.at = at /\ c.verb = "write" /\ c.to = act[a].to
      /\ c.from = act[a].from /\ c.area = act[a].area
  BY <1>1, <1>5, CallGoesOn
<1>7. act' = [act EXCEPT ![a] = c] /\ act'[a] = c
  BY <1>3, <1>5 DEF FileInv, FileTypes
<1>8. /\ holds' \in [Paths -> Contents] /\ holds'[t] = what
      /\ \A p \in Paths \ {t} : holds'[p] = holds[p]
  BY <1>2, <1>3 DEF FileInv, FileTypes
<1>9. act[a].to \in Paths /\ act[a].area \subseteq Paths
  BY <1>1, CallFields
<1>10. ASSUME ~raced PROVE OnItsWay(a)'
  <2>1. GivenUp(act[a].area)
    BY <1>1, <1>10 DEF FileInv, OnItsWay, Overwriting
  <2>2. GivenUp(act[a].area)'
    BY <1>3, <1>4, <1>8, <1>9, <2>1 DEF GivenUp
  <2> QED
    BY <1>2, <1>3, <1>6, <1>7, <1>8, <2>2 DEF OnItsWay, GivenUp
<1>11. FileInv' /\ \A b \in Agents \ {a} : act'[b] = act[b]
  BY <1>1, <1>2, <1>4, <1>6, <1>7, <1>8, <1>10, StepKeeps
<1>12. ~raced => KeepsOriginals
  BY <1>1, <1>2, <1>8, OverwritesKeep DEF Overwriting
<1>13. ReplacesWhole
  BY <1>2, <1>8, <1>9, <1>11, WholeElsewhere
<1> QED
  BY <1>11, <1>12, <1>13 DEF StepSafe

LEMMA ReplaceFileKeeps ==
  ASSUME FileInv, NEW a \in Agents, ReplaceFile(a)
  PROVE  FileInv' /\ (~raced => StepSafe)
<1>1. act[a] # Resting /\ act[a] \in FileCalls /\ act[a].verb = "write" /\ act[a].at = "filled"
  BY RestingIs, CallUses DEF ReplaceFile, Is, FileInv
<1>2. PICK p \in Paths, t \in Paths : /\ p = act[a].to /\ p \in act[a].area
                                      /\ t = TempName[p] /\ t \in act[a].area /\ t # p
  BY <1>1, CallFields, FileAssumption
<1>3. /\ holds' = IF Exists(t) THEN [holds EXCEPT ![p] = holds[t], ![t] = Nothing] ELSE holds
      /\ ActEnds(a) /\ UNCHANGED <<aimed, besides, raced>>
  BY <1>2 DEF ReplaceFile, TempOf
<1>4. /\ holds' \in [Paths -> Contents]
      /\ holds'[p] \in {holds[p], holds[t]}
      /\ \A q \in Paths \ {p, t} : holds'[q] = holds[q]
  BY <1>2, <1>3, VerbsAre DEF FileInv, FileTypes
<1>5. FileInv' /\ \A b \in Agents \ {a} : act'[b] = act[b]
  BY <1>1, <1>2, <1>3, <1>4, EndKeeps
<1>6. ASSUME ~raced PROVE StepSafe
  <2>1. holds[t] = New
    BY <1>1, <1>2, <1>6 DEF FileInv, OnItsWay
  <2>2. ReplacesWhole
    BY <1>2, <1>4, <1>5, <2>1, WholeElsewhere
  <2>3. KeepsOriginals
    BY <1>1, <1>2, <1>4, <1>6, OverwritesKeep DEF Overwriting
  <2> QED
    BY <2>2, <2>3 DEF StepSafe
<1> QED
  BY <1>5, <1>6

\* An append leaves the file that is there, and fills the one it has created.
LEMMA AppendKeeps ==
  ASSUME FileInv, NEW a \in Agents, OpenToAppend(a) \/ AppendText(a)
  PROVE  FileInv' /\ (~raced => StepSafe)
<1>1. act[a] # Resting /\ act[a] \in FileCalls /\ act[a].verb = "append"
  BY RestingIs, CallUses DEF OpenToAppend, AppendText, Is, FileInv
<1>2. PICK p \in Paths : p = act[a].to /\ p \in act[a].area
  BY <1>1, CallFields
<1>3. /\ UNCHANGED <<aimed, besides, raced>>
      /\ \/ holds' = holds
         \/ /\ holds[p] \in {Nothing, Fragment}
            /\ \E what \in {Fragment, New} : holds' = [holds EXCEPT ![p] = what]
  BY <1>2 DEF OpenToAppend, AppendText, Becomes, Exists
<1>4. /\ holds' \in [Paths -> Contents]
      /\ \A q \in Paths : q # p => holds'[q] = holds[q]
      /\ holds'[p] = holds[p] \/ holds[p] \notin Paths
  BY <1>2, <1>3, VerbsAre DEF FileInv, FileTypes
<1>5. FileInv' /\ \A b \in Agents \ {a} : act'[b] = act[b]
  <2>1. CASE ActEnds(a)
    BY <1>1, <1>2, <1>3, <1>4, <2>1, EndKeeps
  <2>2. CASE \E at \in {"open", "created"} : ActGoes(a, at)
    <3>1. PICK at \in Ats : act' = [act EXCEPT ![a].at = at]
      BY <2>2 DEF ActGoes, Ats
    <3>2. PICK c : c = [act[a] EXCEPT !.at = at]
      OBVIOUS
    <3>3. /\ c \in FileCalls /\ c.verb = "append" /\ c.from = act[a].from /\ c.area = act[a].area
      BY <1>1, <3>2, CallGoesOn
    <3>4. act' = [act EXCEPT ![a] = c] /\ act'[a] = c
      BY <3>1, <3>2 DEF FileInv, FileTypes
    <3>5. OnItsWay(a)'
      BY <3>3, <3>4 DEF OnItsWay, Overwriting
    <3> QED
      BY <1>1, <1>2, <1>3, <1>4, <3>3, <3>4, <3>5, StepKeeps
  <2> QED
    BY <2>1, <2>2 DEF OpenToAppend, AppendText
<1>6. KeepsOriginals
  BY <1>4, OriginalsGo
<1>7. ReplacesWhole
  BY <1>1, <1>5, WholeElsewhere
<1> QED
  BY <1>5, <1>6, <1>7 DEF StepSafe

\* A deletion, and the end of a zip or a download, in any of its ways.
LEMMA EndTargetKeeps ==
  ASSUME FileInv, NEW a \in Agents,
         Delete(a) \/ DownloadFails(a) \/ (FillTarget(a) /\ act[a].verb # "copy")
  PROVE  FileInv' /\ (~raced => StepSafe)
<1>1. act[a] # Resting /\ act[a] \in FileCalls /\ act[a].verb \in {"delete", "zip", "download"}
  BY RestingIs, CallUses DEF Delete, FillTarget, DownloadFails, Is, FileInv
<1>2. PICK p \in Paths : p = act[a].to /\ p \in act[a].area
  BY <1>1, CallFields
<1>3. PICK what \in Contents : holds' = [holds EXCEPT ![p] = what]
  BY <1>2, VerbsAre DEF Delete, FillTarget, DownloadFails, Becomes
<1>4. ActEnds(a) /\ UNCHANGED <<aimed, besides, raced>>
  BY DEF Delete, FillTarget, DownloadFails
<1>5. /\ holds' \in [Paths -> Contents]
      /\ \A q \in Paths : q # p => holds'[q] = holds[q]
  BY <1>2, <1>3 DEF FileInv, FileTypes
<1>6. FileInv' /\ \A b \in Agents \ {a} : act'[b] = act[b]
  BY <1>1, <1>2, <1>4, <1>5, EndKeeps
<1>7. ~raced => KeepsOriginals
  BY <1>1, <1>2, <1>5, OverwritesKeep DEF Overwriting
<1>8. ReplacesWhole
  BY <1>1, <1>6, WholeElsewhere
<1> QED
  BY <1>6, <1>7, <1>8 DEF StepSafe

LEMMA FillCopyKeeps ==
  ASSUME FileInv, NEW a \in Agents, FillTarget(a), act[a].verb = "copy"
  PROVE  FileInv' /\ (~raced => StepSafe)
<1>1. act[a] # Resting /\ act[a] \in FileCalls /\ act[a].at = "open"
  BY RestingIs, CallUses DEF FillTarget, FileInv
<1>2. PICK p \in Paths : p = act[a].to /\ p \in act[a].area
  BY <1>1, CallFields
<1>3. PICK what \in Contents : holds' = [holds EXCEPT ![p] = what]
  <2>1. holds[act[a].from] \in Contents
    BY <1>1, CallFields DEF FileInv, FileTypes
  <2> QED
    BY <1>2, <2>1, VerbsAre DEF FillTarget, Becomes
<1>4. ActEnds(a) /\ UNCHANGED <<aimed, besides, raced>>
  BY DEF FillTarget
<1>5. /\ holds' \in [Paths -> Contents]
      /\ \A q \in Paths : q # p => holds'[q] = holds[q]
  BY <1>2, <1>3 DEF FileInv, FileTypes
<1>6. FileInv' /\ \A b \in Agents \ {a} : act'[b] = act[b]
  BY <1>1, <1>2, <1>4, <1>5, EndKeeps
<1>7. ASSUME ~raced PROVE KeepsOriginals
  <2>1. holds[p] = Fragment
    BY <1>1, <1>2, <1>7 DEF FileInv, OnItsWay
  <2> QED
    BY <1>5, <2>1, OriginalsGo, VerbsAre
<1>8. ReplacesWhole
  BY <1>6, WholeElsewhere
<1> QED
  BY <1>6, <1>7, <1>8 DEF StepSafe

LEMMA MoveKeeps ==
  ASSUME FileInv, NEW a \in Agents, Move(a)
  PROVE  FileInv' /\ (~raced => StepSafe)
<1>1. act[a] # Resting /\ act[a] \in FileCalls /\ act[a].verb = "move" /\ act[a].at = "checked"
  BY RestingIs, CallUses DEF Move, Is, FileInv
<1>2. PICK p \in Paths, q \in Paths : /\ p = act[a].to /\ p \in act[a].area
                                      /\ q = act[a].from /\ q \in act[a].area
  BY <1>1, CallFields
<1>3. ActEnds(a) /\ UNCHANGED <<aimed, besides, raced>>
  BY DEF Move
<1>4. \/ holds' = holds
      \/ holds' = [holds EXCEPT ![p] = holds[q], ![q] = Nothing]
  BY <1>2 DEF Move
<1>5. /\ holds' \in [Paths -> Contents]
      /\ \A r \in Paths \ {p, q} : holds'[r] = holds[r]
      /\ p # q => holds' = holds \/ holds'[p] = holds[q]
  BY <1>2, <1>4, VerbsAre DEF FileInv, FileTypes
<1>6. FileInv' /\ \A b \in Agents \ {a} : act'[b] = act[b]
  BY <1>1, <1>2, <1>3, <1>5, EndKeeps
<1>7. ASSUME ~raced PROVE KeepsOriginals
  <2>1. holds[p] = Nothing /\ p # q
    BY <1>1, <1>2, <1>7 DEF FileInv, OnItsWay, Exists
  <2> QED
    BY <1>2, <1>5, <2>1, OriginalsGo, VerbsAre
<1>8. ReplacesWhole
  BY <1>1, <1>6, WholeElsewhere
<1> QED
  BY <1>6, <1>7, <1>8 DEF StepSafe

LEMMA OpenTargetKeeps ==
  ASSUME FileInv, NEW a \in Agents, OpenTarget(a)
  PROVE  FileInv' /\ (~raced => StepSafe)
<1>1. /\ act[a] # Resting /\ act[a] \in FileCalls /\ act[a].verb \in {"copy", "zip", "download"}
      /\ act[a].at = "checked"
  BY RestingIs, CallUses DEF OpenTarget, FileInv
<1>2. PICK p \in Paths : p = act[a].to /\ p \in act[a].area
  BY <1>1, CallFields
<1>3. PICK c : c = [act[a] EXCEPT !.at = "open"]
  OBVIOUS
<1>4. /\ c \in FileCalls /\ c.at = "open" /\ c.verb = act[a].verb
      /\ c.to = p /\ c.from = act[a].from /\ c.area = act[a].area
  BY <1>1, <1>2, <1>3, CallGoesOn DEF Ats
<1>5. act' = [act EXCEPT ![a] = c] /\ act'[a] = c
  BY <1>3 DEF OpenTarget, ActGoes, FileInv, FileTypes
<1>6. /\ holds' = [holds EXCEPT ![p] = Fragment] /\ UNCHANGED <<aimed, besides, raced>>
  BY <1>2 DEF OpenTarget, Becomes
<1>7. /\ holds' \in [Paths -> Contents] /\ holds'[p] = Fragment
      /\ \A q \in Paths : q # p => holds'[q] = holds[q]
  BY <1>2, <1>6, VerbsAre DEF FileInv, FileTypes
<1>8. act[a].area \subseteq Paths
  BY <1>1, CallFields
<1>9. ASSUME ~raced PROVE OnItsWay(a)'
  <2>1. act[a].verb \in Overwriting => GivenUp(act[a].area)
    BY <1>1, <1>9 DEF FileInv, OnItsWay
  <2>2. act[a].verb \in Overwriting => GivenUp(act[a].area)'
    <3> SUFFICES ASSUME act[a].verb \in Overwriting, NEW q \in act[a].area, holds'[q] \in Paths
                 PROVE  holds'[q] \in aimed' \cup besides'
      BY <1>4, <1>5 DEF GivenUp
    <3>1. q \in Paths /\ q # p /\ holds'[q] = holds[q]
      BY <1>7, <1>8, VerbsAre
    <3> QED
      BY <1>6, <2>1, <3>1 DEF GivenUp
  <2> QED
    BY <1>1, <1>4, <1>5, <1>7, <2>2 DEF OnItsWay, GivenUp
<1>10. FileInv' /\ \A b \in Agents \ {a} : act'[b] = act[b]
  BY <1>1, <1>2, <1>4, <1>5, <1>6, <1>7, <1>9, StepKeeps
<1>11. ASSUME ~raced PROVE KeepsOriginals
  <2>1. CASE act[a].verb = "copy"
    <3>1. holds[p] = Nothing
      BY <1>1, <1>2, <1>11, <2>1 DEF FileInv, OnItsWay, Exists
    <3> QED
      BY <1>7, <3>1, OriginalsGo, VerbsAre
  <2>2. CASE act[a].verb # "copy"
    BY <1>1, <1>2, <1>7, <1>11, <2>2, OverwritesKeep DEF Overwriting
  <2> QED
    BY <2>1, <2>2
<1>12. ReplacesWhole
  BY <1>1, <1>10, WholeElsewhere
<1> QED
  BY <1>10, <1>11, <1>12 DEF StepSafe

\* An archive's members, one after the other.
LEMMA MemberKeeps ==
  ASSUME FileInv, NEW a \in Agents, (\E p \in Paths : OpenMember(a, p)) \/ FillMember(a)
  PROVE  FileInv' /\ (~raced => StepSafe)
<1>1. act[a] # Resting /\ act[a] \in FileCalls /\ act[a].verb = "unzip"
  BY RestingIs, CallUses DEF OpenMember, FillMember, Is, FileInv
<1>2. act[a].area \subseteq Paths
  BY <1>1, CallFields
<1>3. UNCHANGED <<aimed, besides, raced>>
  BY DEF OpenMember, FillMember
<1>4. PICK p \in Paths, what \in {Fragment, New} :
        p \in act[a].area /\ holds' = [holds EXCEPT ![p] = what]
  <2>1. CASE FillMember(a)
    <3>1. act[a].to \in act[a].area
      BY <1>1, <2>1, CallFields DEF FillMember, Is
    <3> QED
      BY <1>2, <2>1, <3>1 DEF FillMember, Becomes
  <2>2. CASE \E p \in Paths : OpenMember(a, p)
    BY <2>2 DEF OpenMember, Becomes
  <2> QED
    BY <2>1, <2>2
<1>5. /\ holds' \in [Paths -> Contents] /\ holds'[p] = what
      /\ \A q \in Paths : q # p => holds'[q] = holds[q]
  BY <1>4, VerbsAre DEF FileInv, FileTypes
<1>6. FileInv' /\ \A b \in Agents \ {a} : act'[b] = act[b]
  <2>1. CASE ActEnds(a)
    BY <1>1, <1>3, <1>4, <1>5, <2>1, EndKeeps
  <2>2. ASSUME NEW c \in FileCalls, act' = [act EXCEPT ![a] = c], c.verb = "unzip",
               c.from = act[a].from, c.area \subseteq act[a].area
        PROVE  FileInv' /\ \A b \in Agents \ {a} : act'[b] = act[b]
    <3>1. act'[a] = c
      BY <2>2 DEF FileInv, FileTypes
    <3>2. ASSUME ~raced PROVE OnItsWay(a)'
      <4>1. GivenUp(act[a].area)
        BY <1>1, <3>2 DEF FileInv, OnItsWay, Overwriting
      <4>2. GivenUp(c.area)'
        BY <1>2, <1>3, <1>5, <2>2, <4>1, VerbsAre DEF GivenUp
      <4> QED
        BY <2>2, <3>1, <4>2 DEF OnItsWay, GivenUp
    <3> QED
      BY <1>1, <1>3, <1>4, <1>5, <2>2, <3>2, StepKeeps
  <2>3. CASE \E q \in Paths : OpenMember(a, q)
    <3>1. PICK q \in act[a].area : act' = [act EXCEPT ![a] = [@ EXCEPT !.at = "open", !.to = q]]
      BY <2>3 DEF OpenMember
    <3>2. PICK c : c = [act[a] EXCEPT !.at = "open", !.to = q]
      OBVIOUS
    <3>3. c \in FileCalls /\ c.verb = "unzip" /\ c.from = act[a].from /\ c.area = act[a].area
      BY <1>1, <3>2, CallOfMember
    <3>4. act' = [act EXCEPT ![a] = c]
      BY <3>1, <3>2 DEF FileInv, FileTypes
    <3> QED
      BY <2>2, <3>3, <3>4
  <2>4. CASE FillMember(a) /\ ~ActEnds(a)
    <3>1. PICK left \in SUBSET act[a].area :
            act' = [act EXCEPT ![a] = [verb |-> "unzip", at |-> "checked", from |-> @.from,
                                       to |-> Nothing, area |-> left]]
      BY <2>4 DEF FillMember
    <3>2. PICK c : c = [verb |-> "unzip", at |-> "checked", from |-> act[a].from,
                     to |-> Nothing, area |-> left]
      OBVIOUS
    <3>3. c \in FileCalls /\ c.verb = "unzip" /\ c.from = act[a].from /\ c.area = left
      BY <1>1, <3>2, CallOfRest
    <3>4. act' = [act EXCEPT ![a] = c]
      BY <3>1, <3>2 DEF FileInv, FileTypes
    <3> QED
      BY <2>2, <3>3, <3>4
  <2> QED
    BY <2>1, <2>3, <2>4
<1>7. ~raced => KeepsOriginals
  BY <1>1, <1>4, <1>5, OverwritesKeep DEF Overwriting
<1>8. ReplacesWhole
  BY <1>1, <1>6, WholeElsewhere
<1> QED
  BY <1>6, <1>7, <1>8 DEF StepSafe

LEMMA FailsKeeps ==
  ASSUME FileInv, NEW a \in Agents, Fails(a)
  PROVE  FileInv' /\ StepSafe
<1>1. /\ act[a] # Resting /\ ActEnds(a) /\ UNCHANGED <<holds, aimed, besides, raced>>
  BY DEF Fails
<1>2. FileInv'
  BY <1>1, EndKeeps DEF FileInv, FileTypes
<1> QED
  BY <1>1, <1>2, OriginalsGo DEF StepSafe, ReplacesWhole

\* What begins is an action on paths in the workspace.
LEMMA BegunCall ==
  ASSUME NEW verb \in Verbs, NEW from \in Paths \cup {Nothing}, NEW to \in Paths \cup {Nothing},
         NEW area \in SUBSET Paths, to \in Paths => to \in area, verb # "unzip" => to \in Paths,
         verb = "write" => to \in DOMAIN TempName /\ TempName[to] \in area,
         verb \in {"copy", "move"} => from \in Paths, verb = "move" => from \in area
  PROVE  [verb |-> verb, at |-> "checked", from |-> from, to |-> to, area |-> area] \in FileCalls
  BY DEF FileCalls, Ats

LEMMA BeginsKeep ==
  ASSUME FileInv, NEW a \in Agents,
         \/ \E p \in Paths : \/ BeginWrite(a, p) \/ BeginAppend(a, p) \/ BeginDelete(a, p)
                             \/ BeginZip(a, p) \/ BeginDownload(a, p)
         \/ \E p, q \in Paths : p # q /\ (BeginCopy(a, p, q) \/ BeginMove(a, p, q))
         \/ \E p \in Paths, members \in SUBSET Inside : BeginUnzip(a, p, members)
  PROVE  FileInv' /\ StepSafe
<1>1. CASE \E p \in Paths : BeginWrite(a, p)
  <2>1. PICK p \in Paths : /\ p \in DOMAIN TempName
                           /\ Begin(a, "write", Nothing, p, {p, TempName[p]}, {p})
    BY <1>1 DEF BeginWrite
  <2>2. TempName[p] \in Paths
    BY <2>1, FileAssumption DEF Paths
  <2>3. [verb |-> "write", at |-> "checked", from |-> Nothing, to |-> p,
         area |-> {p, TempName[p]}] \in FileCalls
    BY <2>1, <2>2, BegunCall DEF Verbs, Overwriting
  <2> QED
    BY <2>1, <2>3, BeginFileKeeps
<1>2. CASE \E p \in Paths : BeginAppend(a, p) \/ BeginDelete(a, p) \/ BeginZip(a, p)
                            \/ BeginDownload(a, p)
  <2>1. PICK p \in Paths, verb \in {"append", "delete", "zip", "download"}, named \in SUBSET Paths :
          Begin(a, verb, Nothing, p, {p}, named)
    BY <1>2 DEF BeginAppend, BeginDelete, BeginZip, BeginDownload
  <2>2. [verb |-> verb, at |-> "checked", from |-> Nothing, to |-> p, area |-> {p}] \in FileCalls
    BY BegunCall DEF Verbs, Overwriting
  <2> QED
    BY <2>1, <2>2, BeginFileKeeps
<1>3. CASE \E p, q \in Paths : p # q /\ (BeginCopy(a, p, q) \/ BeginMove(a, p, q))
  <2>1. PICK p \in Paths, q \in Paths, verb \in {"copy", "move"}, area \in SUBSET Paths :
          /\ Begin(a, verb, p, q, area, {}) /\ ~Exists(q) /\ p # q /\ q \in area
          /\ verb = "move" => area = {p, q}
    BY <1>3 DEF BeginCopy, BeginMove, IsFree
  <2>2. [verb |-> verb, at |-> "checked", from |-> p, to |-> q, area |-> area] \in FileCalls
    BY <2>1, BegunCall DEF Verbs
  <2> QED
    BY <2>1, <2>2, BeginFileKeeps
<1>4. CASE \E p \in Paths, members \in SUBSET Inside : BeginUnzip(a, p, members)
  <2>1. PICK p \in Paths, members \in SUBSET Inside : Begin(a, "unzip", p, Nothing, members, {})
    BY <1>4 DEF BeginUnzip
  <2>2. [verb |-> "unzip", at |-> "checked", from |-> p, to |-> Nothing, area |-> members]
          \in FileCalls
    BY BegunCall, VerbsAre DEF Verbs, Overwriting, Paths
  <2> QED
    BY <2>1, <2>2, BeginFileKeeps
<1> QED
  BY <1>1, <1>2, <1>3, <1>4

LEMMA FilesStep == FileInv /\ [FilesNext]_filesVars => FileInv' /\ (~raced => StepSafe)
<1> SUFFICES ASSUME FileInv, [FilesNext]_filesVars PROVE FileInv' /\ (~raced => StepSafe)
  OBVIOUS
<1>1. CASE UNCHANGED filesVars
  <2>1. FileInv'
    BY <1>1 DEF filesVars, FileInv, FileTypes, Apart, UsedBy, OnItsWay, GivenUp, Exists
  <2> QED
    BY <1>1, <2>1, OriginalsGo DEF filesVars, StepSafe, ReplacesWhole
<1>2. ASSUME NEW a \in Agents, ActionStep(a) PROVE FileInv' /\ (~raced => StepSafe)
  BY <1>2, TempKeeps, ReplaceFileKeeps, AppendKeeps, MoveKeeps, OpenTargetKeeps, EndTargetKeeps,
     FillCopyKeeps, MemberKeeps, FailsKeeps DEF ActionStep
<1> QED
  BY <1>1, <1>2, BeginsKeep DEF FilesNext

\* For any number of processes, paths and actions: what the user had is lost
\* only by an action that names its place, or overwrites it as <path>.tmp, as a
\* target made up by zip_directory or download_file, or as an archive's member,
\* and write_file leaves its file as it was or whole, unless two actions were
\* at work on one path (file_ops.py).
THEOREM FilesStaySafe == FilesSpec => FilesAreSafe
<1>1. FileInv /\ [FilesNext]_filesVars => [raced \/ (KeepsOriginals /\ ReplacesWhole)]_filesVars
  BY FilesStep DEF StepSafe
<1> QED
  BY <1>1, FilesStart, FilesStep, PTL DEF FilesSpec, FilesAreSafe

-----------------------------------------------------------------------------
(* The tools of the workflow agent.                                        *)

Texts == [there : BOOLEAN, of : SUBSET Nat, writers : SUBSET Bots]
WritesAt == {"fill", "replace", "clean"}
Ops == {"write", "patch", "screenshot", "organize", "read", "command"} \cup Walks
Dirs == {"top", "category"}
ToolCalls ==
    {c \in [op : Ops, at : {"open", "shoot", "draw", "move", "look", "run"} \cup WritesAt,
            spot : Spots \cup {NoSpot}, n : Nat, dirs : SUBSET Dirs,
            todo : SUBSET (Names \cup Spots), seen : SUBSET Spots, failed : BOOLEAN,
            since : SUBSET Spots] :
       /\ c.at \in {"open", "shoot", "draw"} \cup WritesAt => c.spot \in {Top(f) : f \in Names}
       /\ c.at \in {"move", "look", "run"} => c.spot = NoSpot
       /\ c.at = "move" => c.todo \subseteq Names
       /\ c.at = "look" => c.todo \subseteq Spots}

ToolTypes ==
    /\ disk \in [Spots -> Texts] /\ temp \in [Spots -> Texts]
    /\ call \in [Bots -> ToolCalls \cup {Idle}]
    /\ calls \in Nat /\ ended \in BOOLEAN

\* Two calls have the same file only if that was noted.
SharingIsNoted ==
    \A b, c \in Bots : b # c /\ call[b].spot = call[c].spot /\ call[b].spot # NoSpot
                       => call[b].spot \in shared

\* Whoever has a temporary file open is filling it.
TempsAreWritten ==
    \A p \in Spots : \A c \in temp[p].writers : call[c].at = "fill" /\ call[c].spot = p

\* A call that shares its file with none has its temporary file to itself.
WritesAlone(c) ==
    LET k == call[c] IN
    k.spot \notin shared =>
      /\ k.at = "fill" => temp[k.spot] = [there |-> TRUE, of |-> {}, writers |-> {c}]
      /\ k.at = "replace" => temp[k.spot] = [there |-> TRUE, of |-> {k.n}, writers |-> {}]

TempsHaveCalls ==
    \A p \in Spots : temp[p].there =>
       ended \/ \E c \in Bots : call[c].spot = p /\ call[c].at \in WritesAt

FindsPlaces(c) ==
    CallAt(c, "move") =>
       \A f \in call[c].todo : disk[Sorted(f)].there => Sorted(f) \in call[c].since

MissesNothing(c) ==
    CallAt(c, "look") /\ call[c].op \in Walks /\ ~call[c].failed =>
       \A p \in Spots : p[1] \in Visible /\ disk[p].there =>
          \/ p[2] \in call[c].dirs
          \/ p \in call[c].todo \cup call[c].seen \cup call[c].since

\* A file is whole, or two calls have shared it or a screenshot of it was cut
\* short, or one screenshot has it open and nobody else.
OfFile(p, spot) == \E f \in Names : spot = Top(f) /\ p \in {Top(f), Sorted(f)}
Blamed(p) == \E spot \in shared \cup halfDrawn : OfFile(p, spot)
DrawnBy(p, c) ==
    call[c].at = "draw" /\ OfFile(p, call[c].spot) /\ disk[p].of = {} /\ disk[p].writers = {c}
Explained(p) == WholeText(disk[p]) \/ Blamed(p) \/ \E c \in Bots : DrawnBy(p, c)

ToolInv ==
    /\ ToolTypes /\ SharingIsNoted /\ TempsAreWritten /\ TempsHaveCalls
    /\ \A p \in Spots : Explained(p)
    /\ \A c \in Bots : WritesAlone(c) /\ FindsPlaces(c) /\ MissesNothing(c)

LEMMA SpotsAre ==
  /\ NoSpot \notin Spots
  /\ \A f \in Names : Top(f) \in Spots /\ Sorted(f) \in Spots /\ Top(f) # NoSpot
  /\ \A f, g \in Names : Top(f) # Sorted(g) /\ (Top(f) = Top(g) => f = g)
                         /\ (Sorted(f) = Sorted(g) => f = g)
  /\ \A p \in Spots : \E f \in Names : p = Top(f) \/ p = Sorted(f)
  /\ \A p \in Spots : p[2] \in Dirs
<1>1. \A f : <<f, "top">> # <<>>
  OBVIOUS
<1>2. NoSpot \notin Spots
  BY DEF NoSpot, Spots
<1> QED
  BY <1>1, <1>2 DEF NoSpot, Spots, Top, Sorted, Dirs

LEMMA NoTextIs ==
  NoText \in Texts /\ WholeText(NoText) /\ ~NoText.there /\ NoText.writers = {}
  BY DEF NoText, Texts, WholeText

LEMMA TextIs ==
  ASSUME NEW n \in Nat
  PROVE  /\ [there |-> TRUE, of |-> {n}, writers |-> {}] \in Texts
         /\ WholeText([there |-> TRUE, of |-> {n}, writers |-> {}])
         /\ Text(n) \in Texts /\ WholeText(Text(n))
<1>1. Cardinality({n}) = 1
  BY FS_Singleton
<1> QED
  BY <1>1 DEF Text, Texts, WholeText

LEMMA IdleIs ==
  /\ Idle.at = "idle" /\ Idle.spot = NoSpot /\ Idle \notin ToolCalls
  BY DEF Idle, ToolCalls, WritesAt

LEMMA ToolCallFields ==
  ASSUME NEW k \in ToolCalls
  PROVE  /\ k.at \in {"open", "shoot", "draw", "move", "look", "run"} \cup WritesAt
         /\ k.spot \in Spots \cup {NoSpot} /\ k.n \in Nat /\ k # Idle
         /\ k.at \in {"open", "shoot", "draw"} \cup WritesAt => \E f \in Names : k.spot = Top(f)
         /\ k.at \in {"open", "shoot", "draw"} \cup WritesAt => k.spot \in Spots
         /\ k.at \in {"move", "look", "run"} => k.spot = NoSpot
         /\ k.at = "move" => k.todo \subseteq Names
         /\ k.at = "look" => k.todo \subseteq Spots
         /\ k.seen \subseteq Spots /\ k.since \subseteq Spots /\ k.dirs \subseteq Dirs
  BY IdleIs, SpotsAre DEF ToolCalls

SameBut(k, j) == j.op = k.op /\ j.spot = k.spot /\ j.n = k.n /\ j.dirs = k.dirs /\ j.failed = k.failed

LEMMA SinceGrows ==
  ASSUME NEW k \in ToolCalls, NEW s \in SUBSET Spots, NEW j, j = [k EXCEPT !.since = @ \cup s]
  PROVE  /\ j \in ToolCalls /\ SameBut(k, j) /\ j.at = k.at /\ j.todo = k.todo
         /\ j.seen = k.seen /\ j.since = k.since \cup s
  BY DEF ToolCalls, SameBut

\* A writing call goes on to the next place.
LEMMA WriteGoesOn ==
  ASSUME NEW k \in ToolCalls, k.at \in {"open"} \cup WritesAt, NEW at \in WritesAt,
         NEW j, j = [k EXCEPT !.at = at]
  PROVE  /\ j \in ToolCalls /\ SameBut(k, j) /\ j.at = at
  BY DEF ToolCalls, SameBut, WritesAt

Begun(op, at, spot, n, dirs, todo) ==
    [op |-> op, at |-> at, spot |-> spot, n |-> n, dirs |-> dirs, todo |-> todo,
     seen |-> {}, failed |-> FALSE, since |-> {}]

LEMMA BeginsIs ==
  ASSUME NEW c, NEW op, NEW at, NEW spot, NEW dirs, NEW todo, Begins(c, op, at, spot, dirs, todo)
  PROVE  /\ call[c] = Idle /\ calls' = calls + 1 /\ UNCHANGED <<disk, temp, ended, halfDrawn>>
         /\ call' = [call EXCEPT ![c] = Begun(op, at, spot, calls + 1, dirs, todo)]
  BY DEF Begins, Begun

-----------------------------------------------------------------------------
(* What a step does to the calls. *)

Changed == {p \in Spots : disk'[p].there # disk[p].there}

Onward(b) ==
    \/ call[b] = Idle /\ call'[b] = Idle
    \/ /\ call[b] \in ToolCalls /\ call'[b] \in ToolCalls /\ SameBut(call[b], call'[b])
       /\ call'[b].at = call[b].at /\ call'[b].todo = call[b].todo
       /\ call'[b].seen = call[b].seen
       /\ call[b].at \in {"move", "look"} => call'[b].since = call[b].since \cup Changed

\* What Disk notes in the calls.
LEMMA DiskNotes ==
  ASSUME ToolInv, NEW new \in [Spots -> Texts], NEW becomes \in [Bots -> ToolCalls \cup {Idle}],
         Disk(new, becomes)
  PROVE  /\ disk' = new /\ call' \in [Bots -> ToolCalls \cup {Idle}]
         /\ \A b \in Bots : becomes[b] = Idle => call'[b] = Idle
         /\ \A b \in Bots : becomes[b] # Idle =>
              /\ call'[b] \in ToolCalls /\ SameBut(becomes[b], call'[b])
              /\ call'[b].at = becomes[b].at /\ call'[b].todo = becomes[b].todo
              /\ call'[b].seen = becomes[b].seen
              /\ becomes[b].at \in {"move", "look"} =>
                   call'[b].since = becomes[b].since \cup Changed
         /\ \A b \in Bots : becomes[b] = call[b] => Onward(b)
<1>1. disk' = new
  BY DEF Disk
<1>2. Changed = {p \in Spots : new[p].there # disk[p].there}
  BY <1>1 DEF Changed
<1>3. PICK s \in SUBSET Spots : s = Changed
  BY DEF Changed
<1>4. call' = [b \in Bots |-> IF becomes[b].at \notin {"move", "look"} THEN becomes[b]
                              ELSE [becomes[b] EXCEPT !.since = @ \cup s]]
  BY <1>2, <1>3 DEF Disk
<1>5. ASSUME NEW b \in Bots, becomes[b] # Idle
      PROVE  /\ call'[b] \in ToolCalls /\ SameBut(becomes[b], call'[b])
             /\ call'[b].at = becomes[b].at /\ call'[b].todo = becomes[b].todo
             /\ call'[b].seen = becomes[b].seen
             /\ becomes[b].at \in {"move", "look"} =>
                  call'[b].since = becomes[b].since \cup Changed
  <2>1. becomes[b] \in ToolCalls
    BY <1>5
  <2>2. PICK j : j = [becomes[b] EXCEPT !.since = @ \cup s]
    OBVIOUS
  <2>3. CASE becomes[b].at \in {"move", "look"}
    <3>1. call'[b] = j
      BY <1>4, <2>2, <2>3
    <3> QED
      BY <1>3, <2>1, <2>2, <3>1, SinceGrows
  <2>4. CASE becomes[b].at \notin {"move", "look"}
    BY <1>4, <2>1, <2>4 DEF SameBut
  <2> QED
    BY <2>3, <2>4
<1>6. ASSUME NEW b \in Bots, becomes[b] = Idle PROVE call'[b] = Idle
  BY <1>4, <1>6, IdleIs
<1>7. ASSUME NEW b \in Bots, becomes[b] = call[b] PROVE Onward(b)
  BY <1>5, <1>6, <1>7 DEF Onward, ToolInv, ToolTypes
<1>8. call' \in [Bots -> ToolCalls \cup {Idle}]
  <2>1. /\ call' = [b \in Bots |-> call'[b]]
    BY <1>4
  <2>2. \A b \in Bots : call'[b] \in ToolCalls \cup {Idle}
    BY <1>5, <1>6
  <2> QED
    BY <2>1, <2>2
<1> QED
  BY <1>1, <1>5, <1>6, <1>7, <1>8

LEMMA OthersUnmoved ==
  ASSUME ToolInv, NEW c \in Bots, NEW k \in ToolCalls \cup {Idle}, call' = [call EXCEPT ![c] = k],
         \A p \in Spots : disk'[p].there = disk[p].there
  PROVE  /\ call' \in [Bots -> ToolCalls \cup {Idle}] /\ call'[c] = k
         /\ \A b \in Bots : b # c => Onward(b)
<1>1. Changed = {}
  BY DEF Changed
<1>2. \A b \in Bots : b # c => call'[b] = call[b]
  BY DEF ToolInv, ToolTypes
<1>3. \A b \in Bots : b # c => Onward(b)
  BY <1>1, <1>2 DEF Onward, ToolInv, ToolTypes, SameBut
<1> QED
  BY <1>3 DEF ToolInv, ToolTypes

LEMMA OnwardKeeps ==
  ASSUME ToolInv, disk' \in [Spots -> Texts], NEW b \in Bots, Onward(b)
  PROVE  FindsPlaces(b)' /\ MissesNothing(b)'
<1>1. CASE call'[b] = Idle
  BY <1>1, IdleIs DEF FindsPlaces, MissesNothing, CallAt
<1>2. CASE call'[b] # Idle
  <2>1. /\ call[b] \in ToolCalls /\ call'[b].at = call[b].at /\ call'[b].op = call[b].op
        /\ call'[b].todo = call[b].todo /\ call'[b].seen = call[b].seen
        /\ call'[b].dirs = call[b].dirs /\ call'[b].failed = call[b].failed
        /\ call[b].at \in {"move", "look"} => call'[b].since = call[b].since \cup Changed
    BY <1>2 DEF Onward, SameBut
  <2>2. FindsPlaces(b)'
    <3> SUFFICES ASSUME call[b].at = "move", NEW f \in call[b].todo, disk'[Sorted(f)].there
                 PROVE  Sorted(f) \in call'[b].since
      BY <2>1 DEF FindsPlaces, CallAt
    <3>1. f \in Names /\ Sorted(f) \in Spots
      BY <2>1, ToolCallFields, SpotsAre
    <3>2. disk[Sorted(f)].there => Sorted(f) \in call[b].since
      BY DEF ToolInv, FindsPlaces, CallAt
    <3> QED
      BY <2>1, <3>1, <3>2 DEF Changed
  <2>3. MissesNothing(b)'
    <3> SUFFICES ASSUME call[b].at = "look", call[b].op \in Walks, ~call[b].failed,
                        NEW p \in Spots, p[1] \in Visible, disk'[p].there, p[2] \notin call[b].dirs
                 PROVE  p \in call'[b].todo \cup call'[b].seen \cup call'[b].since
      BY <2>1 DEF MissesNothing, CallAt
    <3>1. disk[p].there => p \in call[b].todo \cup call[b].seen \cup call[b].since
      BY DEF ToolInv, MissesNothing, CallAt
    <3> QED
      BY <2>1, <3>1 DEF Changed
  <2> QED
    BY <2>2, <2>3
<1> QED
  BY <1>1, <1>2

Writing(k, p) == k.spot = p /\ k.at \in WritesAt

\* What a step of a call that has begun does, whatever the call.
StepOf(c) ==
    /\ call[c] # Idle
    /\ disk' \in [Spots -> Texts] /\ temp' \in [Spots -> Texts]
    /\ call' \in [Bots -> ToolCalls \cup {Idle}]
    /\ calls' = calls /\ shared' = shared /\ ended' \in BOOLEAN /\ (ended => ended')
    /\ \A b \in Bots : b # c => Onward(b)
    /\ call'[c].spot \in {call[c].spot, NoSpot}
    /\ \A p \in Spots : p # call[c].spot => temp'[p] = temp[p]
    /\ \A p \in Spots : temp'[p].writers \subseteq temp[p].writers \cup {c}
    /\ \A p \in Spots : c \in temp'[p].writers => call'[c].at = "fill" /\ call'[c].spot = p
    /\ \A p \in Spots : temp'[p].there =>
         ended' \/ Writing(call'[c], p) \/ (temp[p].there /\ ~Writing(call[c], p))
    /\ \A p \in Spots : Explained(p)'
    /\ WritesAlone(c)' /\ FindsPlaces(c)' /\ MissesNothing(c)'

LEMMA OnwardIs ==
  ASSUME NEW b \in Bots, Onward(b)
  PROVE  /\ call'[b].at = call[b].at /\ call'[b].spot = call[b].spot
         /\ call[b] \in ToolCalls => call'[b].n = call[b].n
         /\ call[b] = Idle => call'[b] = Idle
  BY IdleIs DEF Onward, SameBut

\* A spot that a call leaves as it was, or a picture that it fails to finish,
\* stays explained.
LEMMA StaysExplained ==
  ASSUME ToolInv, NEW c \in Bots, \A b \in Bots : b # c => Onward(b),
         shared \subseteq shared', halfDrawn \subseteq halfDrawn',
         NEW p \in Spots, disk'[p] = disk[p],
         \/ call[c].at # "draw"
         \/ c \notin disk[p].writers
  PROVE  Explained(p)'
<1>1. Explained(p)
  BY DEF ToolInv
<1>2. CASE WholeText(disk[p]) \/ Blamed(p)
  BY <1>2 DEF Explained, Blamed
<1>3. CASE \E b \in Bots : DrawnBy(p, b)
  <2>1. PICK b \in Bots : DrawnBy(p, b)
    BY <1>3
  <2>2. b # c
    BY <2>1 DEF DrawnBy
  <2>3. call'[b].at = call[b].at /\ call'[b].spot = call[b].spot
    BY <2>2, OnwardIs
  <2> QED
    BY <2>1, <2>3 DEF DrawnBy, Explained
<1> QED
  BY <1>1, <1>2, <1>3 DEF Explained

LEMMA StepOfKeeps ==
  ASSUME ToolInv, NEW c \in Bots, StepOf(c)
  PROVE  ToolInv'
<1>1. ToolTypes'
  BY DEF ToolInv, ToolTypes, StepOf
<1>2. \A b \in Bots : b # c => /\ Onward(b) /\ call'[b].spot = call[b].spot
                               /\ call'[b].at = call[b].at
  BY OnwardIs DEF StepOf
<1>3. SharingIsNoted'
  BY <1>2 DEF ToolInv, StepOf, SharingIsNoted
<1>4. TempsAreWritten'
  <2> SUFFICES ASSUME NEW p \in Spots, NEW b \in temp'[p].writers
               PROVE  call'[b].at = "fill" /\ call'[b].spot = p
    BY DEF TempsAreWritten
  <2>1. b \in Bots
    BY <1>1 DEF ToolTypes, Texts
  <2>2. CASE b = c
    BY <2>2 DEF StepOf
  <2>3. CASE b # c
    BY <1>2, <2>1, <2>3 DEF StepOf, ToolInv, TempsAreWritten
  <2> QED
    BY <2>2, <2>3
<1>5. TempsHaveCalls'
  <2> SUFFICES ASSUME NEW p \in Spots, temp'[p].there, ~ended'
               PROVE  \E b \in Bots : call'[b].spot = p /\ call'[b].at \in WritesAt
    BY DEF TempsHaveCalls
  <2>1. CASE Writing(call'[c], p)
    BY <2>1 DEF Writing
  <2>2. CASE temp[p].there /\ ~Writing(call[c], p)
    <3>1. ~ended
      BY DEF StepOf
    <3>2. PICK b \in Bots : Writing(call[b], p)
      BY <2>2, <3>1 DEF ToolInv, TempsHaveCalls, Writing
    <3>3. b # c
      BY <2>2, <3>2
    <3> QED
      BY <1>2, <3>2, <3>3 DEF Writing
  <2> QED
    BY <2>1, <2>2 DEF StepOf
<1>6. \A p \in Spots : Explained(p)'
  BY DEF StepOf
<1>7. ASSUME NEW b \in Bots, b # c PROVE WritesAlone(b)'
  <2>0. /\ call'[b].spot = call[b].spot /\ call'[b].at = call[b].at /\ shared' = shared
        /\ WritesAlone(b)
    BY <1>2, <1>7 DEF ToolInv, StepOf
  <2> SUFFICES ASSUME call[b].spot \notin shared, call[b].at \in {"fill", "replace"}
               PROVE  call'[b].n = call[b].n /\ temp'[call[b].spot] = temp[call[b].spot]
    BY <2>0 DEF WritesAlone
  <2>1. call[b] \in ToolCalls
    BY IdleIs DEF ToolInv, ToolTypes
  <2>2. call[b].spot \in Spots /\ call[b].spot # NoSpot
    BY <2>1, ToolCallFields, SpotsAre DEF WritesAt
  <2>3. call[b].spot # call[c].spot
    BY <1>7, <2>2 DEF ToolInv, SharingIsNoted
  <2> QED
    BY <1>2, <1>7, <2>1, <2>2, <2>3, OnwardIs DEF StepOf
<1>8. ASSUME NEW b \in Bots PROVE WritesAlone(b)' /\ FindsPlaces(b)' /\ MissesNothing(b)'
  <2>1. CASE b = c
    BY <2>1 DEF StepOf
  <2>2. CASE b # c
    BY <1>1, <1>2, <1>7, <2>2, OnwardKeeps DEF ToolTypes
  <2> QED
    BY <2>1, <2>2
<1> QED
  BY <1>1, <1>3, <1>4, <1>5, <1>6, <1>8 DEF ToolInv

\* A call that ends with its temporary file gone.
LEMMA NothingLeft ==
  ASSUME NEW c \in Bots, call'[c] = Idle
  PROVE  /\ WritesAlone(c)' /\ FindsPlaces(c)' /\ MissesNothing(c)'
         /\ call'[c].spot = NoSpot /\ call'[c].at = "idle" /\ call'[c].at \notin WritesAt
  BY IdleIs DEF WritesAlone, FindsPlaces, MissesNothing, CallAt, WritesAt

LEMMA WrittenBackIs ==
  ASSUME NEW files \in [Spots -> Texts], NEW c \in Bots, NEW text \in SUBSET Nat
  PROVE  LET new == WrittenBack(files, c, text) IN
         /\ new \in [Spots -> Texts]
         /\ \A p \in Spots : new[p].there = files[p].there /\ new[p].writers = files[p].writers \ {c}
         /\ \A p \in Spots : c \notin files[p].writers => new[p] = files[p]
         /\ \A p \in Spots : c \in files[p].writers =>
              new[p] = [there |-> files[p].there, of |-> files[p].of \cup text,
                        writers |-> files[p].writers \ {c}]
<1> DEFINE new == WrittenBack(files, c, text)
<1>1. ASSUME NEW p \in Spots, c \in files[p].writers
      PROVE  /\ new[p] = [there |-> files[p].there, of |-> files[p].of \cup text,
                          writers |-> files[p].writers \ {c}]
             /\ new[p] \in Texts
  BY <1>1 DEF WrittenBack, Texts
<1>2. ASSUME NEW p \in Spots, c \notin files[p].writers
      PROVE  new[p] = files[p] /\ new[p] \in Texts
  BY <1>2 DEF WrittenBack
<1>3. new = [p \in Spots |-> new[p]]
  BY DEF WrittenBack
<1>4. \A p \in Spots : new[p] \in Texts
  BY <1>1, <1>2
<1>5. new \in [Spots -> Texts]
  BY <1>3, <1>4
<1> QED
  BY <1>1, <1>2, <1>5

LEMMA ToolsStart == AgentToolsInit => ToolInv
<1> SUFFICES ASSUME AgentToolsInit PROVE ToolInv
  OBVIOUS
<1>1. PICK some \in SUBSET Spots : disk = [p \in Spots |-> IF p \in some THEN Text(0) ELSE NoText]
  BY DEF AgentToolsInit
<1>2. disk \in [Spots -> Texts] /\ \A p \in Spots : WholeText(disk[p])
  BY <1>1, NoTextIs, TextIs
<1>3. temp \in [Spots -> Texts] /\ \A p \in Spots : ~temp[p].there /\ temp[p].writers = {}
  BY NoTextIs DEF AgentToolsInit
<1>4. call \in [Bots -> {Idle}] /\ \A c \in Bots : call[c].at = "idle" /\ call[c].spot = NoSpot
  BY IdleIs DEF AgentToolsInit
<1>5. ToolTypes
  BY <1>2, <1>3, <1>4 DEF AgentToolsInit, ToolTypes
<1> QED
  BY <1>2, <1>3, <1>4, <1>5 DEF ToolInv, SharingIsNoted, TempsAreWritten, TempsHaveCalls,
     Explained, WritesAlone, FindsPlaces, MissesNothing, CallAt

\* A call begins with what its arguments say.
LEMMA BeginsKeeps ==
  ASSUME ToolInv, NEW c \in Bots, NEW k \in ToolCalls, call[c] = Idle,
         call' = [call EXCEPT ![c] = k], k.at \notin WritesAt,
         UNCHANGED <<disk, temp, ended, halfDrawn>>, calls' \in Nat,
         shared \subseteq shared',
         k.spot # NoSpot => \A b \in Bots : call[b].spot = k.spot => k.spot \in shared',
         k.at = "move" => \A f \in k.todo : ~disk[Sorted(f)].there,
         k.at = "look" /\ k.op \in Walks => k.dirs = Dirs
  PROVE  ToolInv'
<1>1. /\ call' \in [Bots -> ToolCalls \cup {Idle}] /\ call'[c] = k
      /\ \A b \in Bots : b # c => call'[b] = call[b]
  BY DEF ToolInv, ToolTypes
<1>2. ToolTypes'
  BY <1>1 DEF ToolInv, ToolTypes
<1>3. call[c].at = "idle" /\ call[c].spot = NoSpot
  BY IdleIs
<1>4. SharingIsNoted'
  BY <1>1 DEF ToolInv, SharingIsNoted
<1>5. TempsAreWritten'
  <2> SUFFICES ASSUME NEW p \in Spots, NEW b \in temp[p].writers
               PROVE  call'[b].at = "fill" /\ call'[b].spot = p
    BY DEF TempsAreWritten
  <2>1. b \in Bots /\ call[b].at = "fill" /\ call[b].spot = p
    BY DEF ToolInv, ToolTypes, Texts, TempsAreWritten
  <2> QED
    BY <1>1, <1>3, <2>1
<1>6. TempsHaveCalls'
  BY <1>1, <1>3 DEF ToolInv, TempsHaveCalls, WritesAt
<1>7. ASSUME NEW p \in Spots PROVE Explained(p)'
  <2>1. CASE WholeText(disk[p]) \/ Blamed(p)
    BY <2>1 DEF Explained, Blamed
  <2>2. CASE \E b \in Bots : DrawnBy(p, b)
    BY <1>1, <1>3, <2>2 DEF Explained, DrawnBy
  <2> QED
    BY <2>1, <2>2 DEF ToolInv, Explained
<1>8. ASSUME NEW b \in Bots, b # c PROVE WritesAlone(b)' /\ FindsPlaces(b)' /\ MissesNothing(b)'
  BY <1>1, <1>8 DEF ToolInv, WritesAlone, FindsPlaces, MissesNothing, CallAt
<1>9. WritesAlone(c)' /\ FindsPlaces(c)' /\ MissesNothing(c)'
  BY <1>1, SpotsAre DEF WritesAlone, FindsPlaces, MissesNothing, CallAt, WritesAt
<1> QED
  BY <1>2, <1>4, <1>5, <1>6, <1>7, <1>8, <1>9 DEF ToolInv

LEMMA BeginOnFileKeeps ==
  ASSUME ToolInv, NEW c \in Bots, NEW f \in Names,
         BeginTextWrite(c, f) \/ BeginPatch(c, f) \/ BeginScreenshot(c, f)
  PROVE  ToolInv'
<1>1. PICK op \in {"write", "patch", "screenshot"}, at \in {"open", "shoot"} :
        Begins(c, op, at, Top(f), {}, {}) /\ NotesSharing(Top(f))
  BY DEF BeginTextWrite, BeginPatch, BeginScreenshot
<1>2. PICK spot, n : spot = Top(f) /\ n = calls + 1
  OBVIOUS
<1>3. PICK k : k = Begun(op, at, spot, n, {}, {})
  OBVIOUS
<1>4. spot \in Spots /\ n \in Nat
  BY <1>2, SpotsAre DEF ToolInv, ToolTypes
<1>5. k \in ToolCalls /\ k.at = at /\ k.spot = spot
  BY <1>2, <1>3, <1>4 DEF Begun, ToolCalls, Ops, WritesAt
<1>6. /\ call[c] = Idle /\ call' = [call EXCEPT ![c] = k] /\ calls' = n
      /\ UNCHANGED <<disk, temp, ended, halfDrawn>>
  BY <1>1, <1>2, <1>3, BeginsIs
<1>7. /\ shared \subseteq shared'
      /\ \A b \in Bots : call[b].spot = spot => spot \in shared'
  BY <1>1, <1>2 DEF NotesSharing
<1> QED
  BY <1>4, <1>5, <1>6, <1>7, BeginsKeeps DEF WritesAt

LEMMA BeginElseKeeps ==
  ASSUME ToolInv, NEW c \in Bots,
         BeginOrganize(c) \/ BeginWalk(c) \/ BeginRead(c) \/ BeginCommand(c)
  PROVE  ToolInv'
<1>1. PICK op \in Ops, at \in {"move", "look", "run"}, dirs \in SUBSET Dirs,
           todo \in SUBSET (Names \cup Spots) :
        /\ Begins(c, op, at, NoSpot, dirs, todo) /\ shared' = shared
        /\ at = "move" => todo = Plan
        /\ at = "look" => todo \subseteq Spots /\ (op \in Walks => dirs = Dirs)
  <2>1. Plan \subseteq Names
    BY DEF Plan, Visible
  <2>2. CASE BeginOrganize(c)
    BY <2>1, <2>2 DEF BeginOrganize, Ops
  <2>3. CASE BeginWalk(c)
    <3>1. PICK op \in Walks : Begins(c, op, "look", NoSpot, Dirs, {}) /\ shared' = shared
      BY <2>3 DEF BeginWalk, Dirs
    <3>2. op \in Ops /\ {} \in SUBSET (Names \cup Spots)
      BY DEF Ops
    <3> QED
      BY <3>1, <3>2
  <2>4. CASE BeginRead(c)
    <3>1. \A which \in SUBSET {Top(f) : f \in Visible} : which \subseteq Spots
      BY SpotsAre DEF Visible
    <3> QED
      BY <2>4, <3>1 DEF BeginRead, Ops, Walks
  <2>5. CASE BeginCommand(c)
    BY <2>5 DEF BeginCommand, Ops
  <2> QED
    BY <2>2, <2>3, <2>4, <2>5
<1>2. PICK n : n = calls + 1
  OBVIOUS
<1>3. PICK k : k = Begun(op, at, NoSpot, n, dirs, todo)
  OBVIOUS
<1>4. n \in Nat /\ Plan \subseteq Names
  BY <1>2 DEF ToolInv, ToolTypes, Plan, Visible
<1>5. k \in ToolCalls /\ k.at = at /\ k.op = op /\ k.spot = NoSpot /\ k.todo = todo
      /\ k.dirs = dirs
  BY <1>1, <1>3, <1>4 DEF Begun, ToolCalls, WritesAt
<1>6. /\ call[c] = Idle /\ call' = [call EXCEPT ![c] = k] /\ calls' = n
      /\ UNCHANGED <<disk, temp, ended, halfDrawn>>
  BY <1>1, <1>2, <1>3, BeginsIs
<1>7. at = "move" => \A f \in todo : ~disk[Sorted(f)].there
  BY <1>1 DEF Plan
<1>8. at = "look" /\ op \in Walks => dirs = Dirs
  BY <1>1
<1>9. k.at \notin WritesAt
  BY <1>5 DEF WritesAt
<1> QED
  BY <1>1, <1>4, <1>5, <1>6, <1>7, <1>8, <1>9, BeginsKeeps

LEMMA OpenTempKeeps ==
  ASSUME ToolInv, NEW c \in Bots, OpenTemp(c)
  PROVE  ToolInv'
<1>1. call[c] \in ToolCalls /\ call[c].at = "open" /\ call[c] # Idle
  BY IdleIs DEF ToolInv, ToolTypes, OpenTemp, CallAt
<1>2. PICK spot \in Spots : spot = call[c].spot
  BY <1>1, ToolCallFields
<1>3. PICK k : k = [call[c] EXCEPT !.at = "fill"]
  OBVIOUS
<1>4. k \in ToolCalls /\ k.spot = spot /\ k.at = "fill" /\ k.n = call[c].n
  BY <1>1, <1>2, <1>3, WriteGoesOn DEF WritesAt, SameBut
<1>5. PICK text : text = [there |-> TRUE, of |-> {}, writers |-> temp[spot].writers \cup {c}]
  OBVIOUS
<1>6. /\ call' = [call EXCEPT ![c] = k] /\ temp' = [temp EXCEPT ![spot] = text]
      /\ UNCHANGED <<disk, calls, ended, shared, halfDrawn>>
  BY <1>2, <1>3, <1>5 DEF OpenTemp, CallGoes
<1>7. text \in Texts /\ text.there /\ text.writers = temp[spot].writers \cup {c}
  BY <1>2, <1>5 DEF ToolInv, ToolTypes, Texts
<1>8. /\ temp' \in [Spots -> Texts] /\ temp'[spot] = text
      /\ \A p \in Spots : p # spot => temp'[p] = temp[p]
  BY <1>2, <1>6, <1>7 DEF ToolInv, ToolTypes
<1>9. /\ call' \in [Bots -> ToolCalls \cup {Idle}] /\ call'[c] = k
      /\ \A b \in Bots : b # c => Onward(b)
  BY <1>4, <1>6, OthersUnmoved
<1>10. ASSUME NEW p \in Spots, c \in temp[p].writers PROVE FALSE
  BY <1>1, <1>10 DEF ToolInv, TempsAreWritten
<1>11. WritesAlone(c)'
  <2> SUFFICES ASSUME spot \notin shared
               PROVE  temp'[spot] = [there |-> TRUE, of |-> {}, writers |-> {c}]
    BY <1>4, <1>6, <1>9 DEF WritesAlone
  <2>1. temp[spot].writers = {}
    <3> SUFFICES ASSUME NEW b \in temp[spot].writers PROVE FALSE
      OBVIOUS
    <3>1. b \in Bots /\ call[b].spot = spot
      BY <1>2 DEF ToolInv, ToolTypes, Texts, TempsAreWritten
    <3>2. b # c
      BY <1>2, <1>10
    <3> QED
      BY <1>2, <3>1, <3>2, SpotsAre DEF ToolInv, SharingIsNoted
  <2> QED
    BY <1>5, <1>8, <2>1
<1>12. FindsPlaces(c)' /\ MissesNothing(c)'
  BY <1>4, <1>9 DEF FindsPlaces, MissesNothing, CallAt
<1>13. StepOf(c)
  <2>1. \A p \in Spots : temp'[p].writers \subseteq temp[p].writers \cup {c}
    BY <1>7, <1>8
  <2>2. \A p \in Spots : c \in temp'[p].writers => call'[c].at = "fill" /\ call'[c].spot = p
    BY <1>4, <1>8, <1>9, <1>10
  <2>3. \A p \in Spots : temp'[p].there =>
          ended' \/ Writing(call'[c], p) \/ (temp[p].there /\ ~Writing(call[c], p))
    BY <1>2, <1>4, <1>8, <1>9 DEF Writing, WritesAt
  <2>4. \A p \in Spots : Explained(p)'
    BY <1>1, <1>6, <1>9, StaysExplained
  <2> QED
    BY <1>1, <1>2, <1>4, <1>6, <1>8, <1>9, <1>11, <1>12, <2>1, <2>2, <2>3, <2>4
    DEF StepOf, ToolInv, ToolTypes
<1> QED
  BY <1>13, StepOfKeeps

\* The open file is closed, with its text or without it.
LEMMA ClosesFile ==
  ASSUME ToolInv, NEW c \in Bots, NEW text \in SUBSET Nat, NEW at \in {"replace", "clean"},
         CallAt(c, "fill"), temp' = WrittenBack(temp, c, text),
         Disk(WrittenBack(disk, c, text), CallGoes(c, at)),
         UNCHANGED <<calls, edits, ended, shared, halfDrawn>>,
         at = "replace" => text = {call[c].n}
  PROVE  ToolInv'
<1>1. call[c] \in ToolCalls /\ call[c].at = "fill" /\ call[c] # Idle
  BY IdleIs DEF ToolInv, ToolTypes, CallAt
<1>2. PICK spot \in Spots, n \in Nat : spot = call[c].spot /\ n = call[c].n
  BY <1>1, ToolCallFields DEF WritesAt
<1>3. PICK k : k = [call[c] EXCEPT !.at = at]
  OBVIOUS
<1>4. k \in ToolCalls /\ k.spot = spot /\ k.at = at /\ k.n = n /\ k # Idle
  BY <1>1, <1>2, <1>3, WriteGoesOn, IdleIs DEF WritesAt, SameBut
<1>5. PICK becomes : becomes = [call EXCEPT ![c] = k]
  OBVIOUS
<1>6. PICK new : new = WrittenBack(disk, c, text)
  OBVIOUS
<1>7. Disk(new, becomes) /\ becomes \in [Bots -> ToolCalls \cup {Idle}] /\ becomes[c] = k
      /\ \A b \in Bots : b # c => becomes[b] = call[b]
  BY <1>3, <1>4, <1>5, <1>6 DEF CallGoes, ToolInv, ToolTypes
<1>8. /\ new \in [Spots -> Texts]
      /\ \A p \in Spots : c \notin disk[p].writers => new[p] = disk[p]
  BY <1>6, WrittenBackIs DEF ToolInv, ToolTypes
<1>9. /\ disk' = new /\ call' \in [Bots -> ToolCalls \cup {Idle}]
      /\ call'[c].spot = spot /\ call'[c].at = at /\ call'[c].n = n
      /\ \A b \in Bots : b # c => Onward(b)
  BY <1>4, <1>7, <1>8, DiskNotes DEF SameBut
<1>10. /\ temp' \in [Spots -> Texts]
       /\ \A p \in Spots : temp'[p].there = temp[p].there /\ temp'[p].writers = temp[p].writers \ {c}
       /\ \A p \in Spots : c \notin temp[p].writers => temp'[p] = temp[p]
       /\ \A p \in Spots : c \in temp[p].writers =>
            temp'[p] = [there |-> temp[p].there, of |-> temp[p].of \cup text,
                        writers |-> temp[p].writers \ {c}]
  <2>1. PICK t : t = WrittenBack(temp, c, text)
    OBVIOUS
  <2>2. temp' = t
    BY <2>1
  <2>3. temp \in [Spots -> Texts]
    BY DEF ToolInv, ToolTypes
  <2>4. /\ t \in [Spots -> Texts]
        /\ \A p \in Spots : t[p].there = temp[p].there /\ t[p].writers = temp[p].writers \ {c}
        /\ \A p \in Spots : c \notin temp[p].writers => t[p] = temp[p]
        /\ \A p \in Spots : c \in temp[p].writers =>
             t[p] = [there |-> temp[p].there, of |-> temp[p].of \cup text,
                     writers |-> temp[p].writers \ {c}]
    BY <2>1, <2>3, WrittenBackIs
  <2> QED
    BY <2>2, <2>4
<1>11. \A p \in Spots : c \in temp[p].writers => p = spot
  BY <1>2 DEF ToolInv, TempsAreWritten
<1>12. ASSUME NEW p \in Spots PROVE Explained(p)'
  <2>1. CASE disk'[p] = disk[p]
    BY <1>1, <1>9, <2>1, StaysExplained
  <2>2. CASE disk'[p] # disk[p]
    <3>1. c \in disk[p].writers
      BY <1>8, <1>9, <2>2
    <3>2. Blamed(p)
      BY <1>1, <3>1 DEF ToolInv, Explained, WholeText, DrawnBy
    <3> QED
      BY <3>2 DEF Explained, Blamed
  <2> QED
    BY <2>1, <2>2
<1>13. WritesAlone(c)'
  <2> SUFFICES ASSUME spot \notin shared, at = "replace"
               PROVE  temp'[spot] = [there |-> TRUE, of |-> {n}, writers |-> {}]
    BY <1>9 DEF WritesAlone
  <2>1. PICK old : old = temp[spot]
    OBVIOUS
  <2>2. old = [there |-> TRUE, of |-> {}, writers |-> {c}]
    BY <1>1, <1>2, <2>1 DEF ToolInv, WritesAlone
  <2>3. old.there = TRUE /\ old.of = {} /\ old.writers = {c}
    BY <2>2
  <2>4. temp'[spot] = [there |-> TRUE, of |-> {} \cup text, writers |-> {c} \ {c}]
    BY <1>10, <2>1, <2>3
  <2> QED
    BY <1>2, <2>4
<1>14. FindsPlaces(c)' /\ MissesNothing(c)'
  BY <1>9 DEF FindsPlaces, MissesNothing, CallAt
<1>15. StepOf(c)
  <2>1. \A p \in Spots : p # call[c].spot => temp'[p] = temp[p]
    BY <1>2, <1>10, <1>11
  <2>2. \A p \in Spots : /\ temp'[p].writers \subseteq temp[p].writers \cup {c}
                         /\ c \in temp'[p].writers => call'[c].at = "fill" /\ call'[c].spot = p
    BY <1>10
  <2>3. \A p \in Spots : temp'[p].there =>
          ended' \/ Writing(call'[c], p) \/ (temp[p].there /\ ~Writing(call[c], p))
    BY <1>2, <1>9, <1>10 DEF Writing, WritesAt
  <2> QED
    BY <1>1, <1>2, <1>8, <1>9, <1>10, <1>12, <1>13, <1>14, <2>1, <2>2, <2>3
    DEF StepOf, ToolInv, ToolTypes
<1> QED
  BY <1>15, StepOfKeeps

LEMMA FillKeeps ==
  ASSUME ToolInv, NEW c \in Bots, FillText(c) \/ FillFails(c)
  PROVE  ToolInv'
<1>1. CASE FillText(c)
  <2>1. call[c] \in ToolCalls
    BY <1>1, IdleIs DEF ToolInv, ToolTypes, FillText, CallAt
  <2>2. PICK text \in SUBSET Nat : text = {call[c].n}
    BY <2>1, ToolCallFields
  <2>3. /\ CallAt(c, "fill") /\ temp' = WrittenBack(temp, c, text)
        /\ Disk(WrittenBack(disk, c, text), CallGoes(c, "replace"))
        /\ UNCHANGED <<calls, edits, ended, shared, halfDrawn>>
    BY <1>1, <2>2 DEF FillText
  <2> QED
    BY <2>2, <2>3, ClosesFile
<1>2. CASE FillFails(c)
  <2>1. PICK text \in SUBSET Nat : text = {}
    OBVIOUS
  <2>2. /\ CallAt(c, "fill") /\ temp' = WrittenBack(temp, c, text)
        /\ Disk(WrittenBack(disk, c, text), CallGoes(c, "clean"))
        /\ UNCHANGED <<calls, edits, ended, shared, halfDrawn>>
    BY <1>2, <2>1 DEF FillFails
  <2> QED
    BY <2>2, ClosesFile
<1> QED
  BY <1>1, <1>2

LEMMA ReplaceKeeps ==
  ASSUME ToolInv, NEW c \in Bots, Replace(c)
  PROVE  ToolInv'
<1>1. call[c] \in ToolCalls /\ call[c].at = "replace" /\ call[c] # Idle
  BY IdleIs DEF ToolInv, ToolTypes, Replace, CallAt
<1>2. PICK spot \in Spots, n \in Nat, f \in Names :
        spot = call[c].spot /\ n = call[c].n /\ spot = Top(f)
  BY <1>1, ToolCallFields DEF WritesAt
<1>3. PICK k : k = [call[c] EXCEPT !.at = "clean"]
  OBVIOUS
<1>4. k \in ToolCalls /\ k.spot = spot /\ k.at = "clean" /\ k # Idle
  BY <1>1, <1>2, <1>3, WriteGoesOn, IdleIs DEF WritesAt, SameBut
<1>5. PICK becomes : becomes = [call EXCEPT ![c] = k]
  OBVIOUS
<1>6. PICK new : /\ Disk(new, becomes)
                 /\ \/ new = [disk EXCEPT ![spot] = temp[spot]] /\ temp' = [temp EXCEPT ![spot] = NoText]
                       /\ temp[spot].there
                    \/ new = disk /\ temp' = temp /\ ~temp[spot].there
  BY <1>2, <1>3, <1>5 DEF Replace, CallGoes
<1>7. /\ becomes \in [Bots -> ToolCalls \cup {Idle}] /\ becomes[c] = k
      /\ \A b \in Bots : b # c => becomes[b] = call[b]
  BY <1>4, <1>5 DEF ToolInv, ToolTypes
<1>8. /\ new \in [Spots -> Texts] /\ \A p \in Spots : p # spot => new[p] = disk[p]
      /\ new[spot] = disk[spot] \/ (new[spot] = temp[spot] /\ temp[spot].there)
      /\ temp' \in [Spots -> Texts] /\ \A p \in Spots : p # spot => temp'[p] = temp[p]
      /\ ~temp'[spot].there /\ (temp'[spot] = temp[spot] \/ temp'[spot].writers = {})
  BY <1>6, NoTextIs DEF ToolInv, ToolTypes
<1>9. /\ disk' = new /\ call' \in [Bots -> ToolCalls \cup {Idle}]
      /\ call'[c].spot = spot /\ call'[c].at = "clean"
      /\ \A b \in Bots : b # c => Onward(b)
  BY <1>4, <1>6, <1>7, <1>8, DiskNotes DEF SameBut
<1>10. \A p \in Spots : c \notin temp[p].writers
  BY <1>1 DEF ToolInv, TempsAreWritten
<1>11. ASSUME NEW p \in Spots PROVE Explained(p)'
  <2>0. shared' = shared /\ halfDrawn' = halfDrawn
    BY DEF Replace
  <2>1. CASE disk'[p] = disk[p]
    BY <1>1, <1>9, <2>0, <2>1, StaysExplained
  <2>2. CASE disk'[p] # disk[p] /\ spot \in shared
    <3>1. p = spot
      BY <1>8, <1>9, <2>2
    <3> QED
      BY <1>2, <2>0, <2>2, <3>1 DEF Explained, Blamed, OfFile
  <2>3. CASE disk'[p] # disk[p] /\ spot \notin shared
    <3>1. p = spot /\ new[spot] = temp[spot]
      BY <1>8, <1>9, <2>3
    <3>2. temp[spot] = [there |-> TRUE, of |-> {n}, writers |-> {}]
      BY <1>1, <1>2, <2>3 DEF ToolInv, WritesAlone
    <3>3. WholeText(temp[spot])
      BY <3>2, TextIs
    <3> QED
      BY <1>9, <3>1, <3>3 DEF Explained
  <2> QED
    BY <2>1, <2>2, <2>3
<1>12. WritesAlone(c)' /\ FindsPlaces(c)' /\ MissesNothing(c)'
  BY <1>9 DEF WritesAlone, FindsPlaces, MissesNothing, CallAt
<1>13. StepOf(c)
  <2>1. \A p \in Spots : temp'[p].writers \subseteq temp[p].writers \cup {c}
    BY <1>8
  <2>2. \A p \in Spots : c \notin temp'[p].writers
    BY <1>8, <1>10
  <2>3. \A p \in Spots : temp'[p].there =>
          ended' \/ Writing(call'[c], p) \/ (temp[p].there /\ ~Writing(call[c], p))
    BY <1>2, <1>8 DEF Writing
  <2>4. calls' = calls /\ ended' = ended /\ shared' = shared
    BY DEF Replace
  <2> QED
    BY <1>1, <1>2, <1>8, <1>9, <1>11, <1>12, <2>1, <2>2, <2>3, <2>4
    DEF StepOf, ToolInv, ToolTypes
<1> QED
  BY <1>13, StepOfKeeps

\* A call ends and leaves the files as they are, but perhaps for its temporary
\* file.
LEMMA EndsQuietly ==
  ASSUME ToolInv, NEW c \in Bots, call[c] # Idle, call' = Returns(c), disk' = disk,
         UNCHANGED <<calls, ended, shared, halfDrawn>>, call[c].at # "draw",
         \/ temp' = temp /\ call[c].at \notin WritesAt
         \/ temp' = [temp EXCEPT ![call[c].spot] = NoText] /\ call[c].at = "clean"
  PROVE  ToolInv'
<1>1. call[c] \in ToolCalls
  BY DEF ToolInv, ToolTypes
<1>2. PICK k : k = Idle
  OBVIOUS
<1>3. call' = [call EXCEPT ![c] = k]
  BY <1>2 DEF Returns
<1>4. /\ call' \in [Bots -> ToolCalls \cup {Idle}] /\ call'[c] = Idle
      /\ \A b \in Bots : b # c => Onward(b)
  BY <1>2, <1>3, OthersUnmoved
<1>5. /\ temp' \in [Spots -> Texts] /\ \A p \in Spots : p # call[c].spot => temp'[p] = temp[p]
      /\ \A p \in Spots : temp'[p] = temp[p] \/ (~temp'[p].there /\ temp'[p].writers = {})
      /\ \A p \in Spots : temp'[p].there => ~Writing(call[c], p)
  BY NoTextIs DEF ToolInv, ToolTypes, Writing
<1>6. \A p \in Spots : c \notin temp[p].writers
  BY DEF ToolInv, TempsAreWritten, WritesAt
<1>7. StepOf(c)
  <2>1. \A p \in Spots : /\ temp'[p].writers \subseteq temp[p].writers \cup {c}
                         /\ c \notin temp'[p].writers
    BY <1>5, <1>6
  <2>2. \A p \in Spots : temp'[p].there => temp[p].there /\ ~Writing(call[c], p)
    BY <1>5
  <2>3. \A p \in Spots : Explained(p)'
    BY <1>4, StaysExplained
  <2> QED
    BY <1>4, <1>5, <2>1, <2>2, <2>3, NothingLeft DEF StepOf, ToolInv, ToolTypes
<1> QED
  BY <1>7, StepOfKeeps

LEMMA CleanKeeps ==
  ASSUME ToolInv, NEW c \in Bots, Clean(c) \/ Finish(c)
  PROVE  ToolInv'
<1>1. call[c] # Idle
  BY IdleIs DEF Clean, Finish, CallAt
<1> QED
  BY <1>1, EndsQuietly DEF Clean, Finish, CallAt, WritesAt

LEMMA MoveFileKeeps ==
  ASSUME ToolInv, NEW c \in Bots, NEW f \in Names, MoveFile(c, f)
  PROVE  ToolInv'
<1>1. /\ call[c] \in ToolCalls /\ call[c].at = "move" /\ call[c] # Idle /\ call[c].spot = NoSpot
      /\ call[c].todo \subseteq Names /\ f \in call[c].todo
  BY IdleIs, ToolCallFields DEF ToolInv, ToolTypes, MoveFile, CallAt
<1>2. CASE ~disk[Top(f)].there
  <2>1. call' = Returns(c) /\ UNCHANGED <<disk, temp, calls, ended, shared, halfDrawn>>
    BY <1>2 DEF MoveFile
  <2> QED
    BY <1>1, <2>1, EndsQuietly DEF WritesAt
<1>3. CASE disk[Top(f)].there
  <2>1. PICK todo : todo = call[c].todo \ {f}
    OBVIOUS
  <2>4. PICK j : j = [call[c] EXCEPT !.todo = todo]
    OBVIOUS
  <2>5. /\ j \in ToolCalls /\ j.spot = NoSpot /\ j.at = "move" /\ j.todo = todo
        /\ j.since = call[c].since /\ j # Idle
    BY <1>1, <2>1, <2>4, IdleIs DEF ToolCalls, WritesAt
  <2>6. PICK becomes : becomes = [call EXCEPT ![c] = j]
    OBVIOUS
  <2>7. PICK new : new = [disk EXCEPT ![Sorted(f)] = disk[Top(f)], ![Top(f)] = NoText]
    OBVIOUS
  <2>8. /\ Disk(new, becomes) /\ UNCHANGED <<temp, calls, ended, shared, halfDrawn>>
    BY <1>3, <2>1, <2>4, <2>6, <2>7 DEF MoveFile
  <2>9. /\ becomes \in [Bots -> ToolCalls \cup {Idle}] /\ becomes[c] = j
        /\ \A b \in Bots : b # c => becomes[b] = call[b]
    BY <2>5, <2>6 DEF ToolInv, ToolTypes
  <2>10. Top(f) \in Spots /\ Sorted(f) \in Spots /\ Top(f) # Sorted(f)
    BY SpotsAre
  <2>11. /\ new \in [Spots -> Texts] /\ new[Sorted(f)] = disk[Top(f)] /\ new[Top(f)] = NoText
         /\ \A p \in Spots : p # Top(f) /\ p # Sorted(f) => new[p] = disk[p]
    BY <2>7, <2>10, NoTextIs DEF ToolInv, ToolTypes
  <2>12. /\ disk' = new /\ call' \in [Bots -> ToolCalls \cup {Idle}]
         /\ call'[c].spot = NoSpot /\ call'[c].at = "move" /\ call'[c].todo = todo
         /\ call'[c].since = call[c].since \cup Changed
         /\ \A b \in Bots : b # c => Onward(b)
    BY <2>5, <2>8, <2>9, <2>11, DiskNotes DEF SameBut
  <2>13. ASSUME NEW p \in Spots PROVE Explained(p)'
    <3>1. CASE p = Sorted(f)
      <4>1. Explained(Top(f)) /\ disk'[p] = disk[Top(f)]
        BY <2>10, <2>11, <2>12, <3>1 DEF ToolInv
      <4>2. \A spot : OfFile(Top(f), spot) => OfFile(p, spot)
        BY <3>1, SpotsAre DEF OfFile
      <4>3. CASE WholeText(disk[Top(f)]) \/ Blamed(Top(f))
        BY <2>8, <4>1, <4>2, <4>3 DEF Explained, Blamed
      <4>4. CASE \E b \in Bots : DrawnBy(Top(f), b)
        <5>1. PICK b \in Bots : DrawnBy(Top(f), b)
          BY <4>4
        <5>2. b # c
          BY <1>1, <5>1 DEF DrawnBy
        <5>3. call'[b].at = call[b].at /\ call'[b].spot = call[b].spot
          BY <2>12, <5>2, OnwardIs
        <5>4. DrawnBy(p, b)'
          BY <4>1, <4>2, <5>1, <5>3 DEF DrawnBy
        <5> QED
          BY <5>4 DEF Explained
      <4> QED
        BY <4>1, <4>3, <4>4 DEF Explained
    <3>2. CASE p = Top(f)
      BY <2>11, <2>12, <3>2, NoTextIs DEF Explained
    <3>3. CASE p # Sorted(f) /\ p # Top(f)
      <4>1. disk'[p] = disk[p]
        BY <2>11, <2>12, <3>3
      <4> QED
        BY <1>1, <2>8, <2>12, <4>1, StaysExplained
    <3> QED
      BY <3>1, <3>2, <3>3
  <2>14. FindsPlaces(c)'
    <3> SUFFICES ASSUME NEW g \in todo, new[Sorted(g)].there PROVE Sorted(g) \in call'[c].since
      BY <2>12 DEF FindsPlaces, CallAt
    <3>1. g \in call[c].todo /\ g # f /\ g \in Names
      BY <1>1, <2>1
    <3>2. Sorted(g) \in Spots /\ new[Sorted(g)] = disk[Sorted(g)]
      BY <2>11, <3>1, SpotsAre
    <3> QED
      BY <1>1, <2>12, <3>1, <3>2 DEF ToolInv, FindsPlaces, CallAt
  <2>15. WritesAlone(c)' /\ MissesNothing(c)'
    BY <2>12 DEF WritesAlone, MissesNothing, CallAt
  <2>16. \A p \in Spots : c \notin temp[p].writers
    BY <1>1 DEF ToolInv, TempsAreWritten
  <2>17. StepOf(c)
    <3>1. \A p \in Spots : ~Writing(call[c], p)
      BY <1>1 DEF Writing, WritesAt
    <3> QED
      BY <1>1, <2>8, <2>11, <2>12, <2>13, <2>14, <2>15, <2>16, <3>1 DEF StepOf, ToolInv, ToolTypes
  <2> QED
    BY <2>17, StepOfKeeps
<1> QED
  BY <1>2, <1>3

\* A call that looks goes on, and lists or looks at more.
LEMMA LooksOn ==
  ASSUME ToolInv, NEW c \in Bots, NEW k \in ToolCalls, call[c].at = "look", k.at = "look",
         call' = [call EXCEPT ![c] = k],
         UNCHANGED <<disk, temp, calls, ended, shared, halfDrawn>>,
         MissesNothing(c)'
  PROVE  ToolInv'
<1>1. call[c] \in ToolCalls /\ call[c] # Idle /\ call[c].spot = NoSpot /\ k.spot = NoSpot
  BY IdleIs, ToolCallFields DEF ToolInv, ToolTypes
<1>2. /\ call' \in [Bots -> ToolCalls \cup {Idle}] /\ call'[c] = k
      /\ \A b \in Bots : b # c => Onward(b)
  BY OthersUnmoved
<1>3. WritesAlone(c)' /\ FindsPlaces(c)'
  BY <1>2 DEF WritesAlone, FindsPlaces, CallAt
<1>4. \A q \in Spots : c \notin temp[q].writers /\ ~Writing(call[c], q)
  BY DEF ToolInv, TempsAreWritten, Writing, WritesAt
<1>5. \A q \in Spots : Explained(q)'
  BY <1>2, StaysExplained
<1>6. StepOf(c)
  BY <1>1, <1>2, <1>3, <1>4, <1>5 DEF StepOf, ToolInv, ToolTypes
<1> QED
  BY <1>6, StepOfKeeps

LEMMA LookIs ==
  ASSUME ToolInv, NEW c \in Bots, CallAt(c, "look")
  PROVE  /\ call[c] \in ToolCalls /\ call[c].at = "look" /\ call[c] # Idle
         /\ call[c].at \notin WritesAt
         /\ call[c].todo \subseteq Spots /\ call[c].seen \subseteq Spots
         /\ call[c].dirs \subseteq Dirs
  BY IdleIs, ToolCallFields DEF ToolInv, ToolTypes, CallAt, WritesAt

LEMMA ListsNothing ==
  ASSUME NEW j \in ToolCalls, j.at = "look",
         NEW k, k = [j EXCEPT !.dirs = {}, !.todo = {}, !.seen = {}, !.failed = TRUE]
  PROVE  k \in ToolCalls /\ k.at = "look" /\ k.failed = TRUE
  BY DEF ToolCalls, WritesAt

LEMMA ListDirectoryKeeps ==
  ASSUME ToolInv, NEW c \in Bots, NEW d \in Dirs, ListDirectory(c, d)
  PROVE  ToolInv'
<1>1. /\ call[c] \in ToolCalls /\ call[c].at = "look" /\ call[c].todo \subseteq Spots
      /\ call[c].seen \subseteq Spots /\ call[c].dirs \subseteq Dirs
  BY LookIs DEF ListDirectory
<1>2. UNCHANGED <<disk, temp, calls, ended, shared, halfDrawn>>
  BY DEF ListDirectory
<1>3. PICK dirs \in SUBSET Dirs, todo \in SUBSET Spots :
        dirs = call[c].dirs \ {d} /\ todo = call[c].todo \cup {p \in Listed : p[2] = d}
  BY <1>1 DEF Listed
<1>4. PICK j : j = call[c]
  OBVIOUS
<1>5. PICK k : k = [j EXCEPT !.dirs = dirs, !.todo = todo]
  OBVIOUS
<1>6. /\ k \in ToolCalls /\ k.at = "look" /\ k.op = j.op /\ k.dirs = dirs /\ k.todo = todo
      /\ k.seen = j.seen /\ k.failed = j.failed /\ k.since = j.since
  BY <1>1, <1>4, <1>5 DEF ToolCalls, WritesAt
<1>8. call' = [call EXCEPT ![c] = k] /\ call'[c] = k
  BY <1>3, <1>4, <1>5 DEF ListDirectory, ToolInv, ToolTypes
<1>9. MissesNothing(c)'
  <2> SUFFICES ASSUME call[c].op \in Walks, ~call[c].failed, NEW q \in Spots,
                      q[1] \in Visible, disk[q].there, q[2] \notin dirs
               PROVE  q \in todo \cup call[c].seen \cup call[c].since
    BY <1>2, <1>4, <1>6, <1>8 DEF MissesNothing, CallAt
  <2>1. q[2] \in call[c].dirs \/ q \in call[c].todo \cup call[c].seen \cup call[c].since
    BY <1>1 DEF ToolInv, MissesNothing, CallAt
  <2>2. CASE q[2] = d
    BY <1>3, <2>2 DEF Listed
  <2>3. CASE q[2] # d
    BY <1>3, <2>1, <2>3
  <2> QED
    BY <2>2, <2>3
<1> QED
  BY <1>1, <1>2, <1>6, <1>8, <1>9, LooksOn

LEMMA ListingFailsKeeps ==
  ASSUME ToolInv, NEW c \in Bots, ListingFails(c)
  PROVE  ToolInv'
<1>1. /\ call[c] \in ToolCalls /\ call[c].at = "look" /\ call[c] # Idle
      /\ call[c].at \notin WritesAt
  BY LookIs DEF ListingFails
<1>2. UNCHANGED <<disk, temp, calls, ended, shared, halfDrawn>>
  BY DEF ListingFails
<1>3. CASE call' = Returns(c)
  BY <1>1, <1>2, <1>3, EndsQuietly
<1>4. CASE call' # Returns(c)
  <2>1. PICK j : j = call[c]
    OBVIOUS
  <2>2. PICK k : k = [j EXCEPT !.dirs = {}, !.todo = {}, !.seen = {}, !.failed = TRUE]
    OBVIOUS
  <2>3. k \in ToolCalls /\ k.at = "look" /\ k.failed = TRUE
    BY <1>1, <2>1, <2>2, ListsNothing
  <2>5. call' = [call EXCEPT ![c] = k] /\ call'[c] = k
    BY <1>4, <2>1, <2>2 DEF ListingFails, ToolInv, ToolTypes
  <2>6. MissesNothing(c)'
    BY <2>3, <2>5 DEF MissesNothing
  <2> QED
    BY <1>1, <1>2, <2>3, <2>5, <2>6, LooksOn
<1> QED
  BY <1>3, <1>4

LEMMA LookKeeps ==
  ASSUME ToolInv, NEW c \in Bots, NEW p \in Spots, Look(c, p)
  PROVE  ToolInv'
<1>1. /\ call[c] \in ToolCalls /\ call[c].at = "look" /\ call[c] # Idle
      /\ call[c].at \notin WritesAt /\ call[c].todo \subseteq Spots
      /\ call[c].seen \subseteq Spots /\ call[c].dirs \subseteq Dirs
  BY LookIs DEF Look, MayLook
<1>2. UNCHANGED <<disk, temp, calls, ended, shared, halfDrawn>>
  BY DEF Look
<1>3. CASE call' = Returns(c)
  BY <1>1, <1>2, <1>3, EndsQuietly
<1>4. CASE call' # Returns(c)
  <2>1. PICK j : j = call[c]
    OBVIOUS
  <2>2. PICK todo \in SUBSET Spots, seen \in SUBSET Spots :
          todo = j.todo \ {p} /\ seen = j.seen \cup {p}
    BY <1>1, <2>1
  <2>3. PICK k : k = [j EXCEPT !.todo = todo, !.seen = seen]
    OBVIOUS
  <2>4. /\ k \in ToolCalls /\ k.at = "look" /\ k.op = j.op /\ k.dirs = j.dirs /\ k.todo = todo
        /\ k.seen = seen /\ k.failed = j.failed /\ k.since = j.since
    BY <1>1, <2>1, <2>3 DEF ToolCalls, WritesAt
  <2>6. call' = [call EXCEPT ![c] = k] /\ call'[c] = k
    BY <1>4, <2>1, <2>2, <2>3 DEF Look, ToolInv, ToolTypes
  <2>7. MissesNothing(c)'
    <3> SUFFICES ASSUME call[c].op \in Walks, ~call[c].failed, NEW q \in Spots,
                        q[1] \in Visible, disk[q].there, q[2] \notin call[c].dirs
                 PROVE  q \in todo \cup seen \cup call[c].since
      BY <1>2, <2>1, <2>4, <2>6 DEF MissesNothing, CallAt
    <3>1. q \in call[c].todo \cup call[c].seen \cup call[c].since
      BY <1>1 DEF ToolInv, MissesNothing, CallAt
    <3> QED
      BY <2>1, <2>2, <3>1
  <2> QED
    BY <1>1, <1>2, <2>4, <2>6, <2>7, LooksOn
<1> QED
  BY <1>3, <1>4

LEMMA OpenPictureKeeps ==
  ASSUME ToolInv, NEW c \in Bots, OpenPicture(c)
  PROVE  ToolInv'
<1>1. call[c] \in ToolCalls /\ call[c].at = "shoot" /\ call[c] # Idle
  BY IdleIs DEF ToolInv, ToolTypes, OpenPicture, CallAt
<1>2. PICK spot \in Spots, f \in Names : spot = call[c].spot /\ spot = Top(f)
  BY <1>1, ToolCallFields
<1>3. PICK k : k = [call[c] EXCEPT !.at = "draw"]
  OBVIOUS
<1>4. k \in ToolCalls /\ k.spot = spot /\ k.at = "draw" /\ k # Idle
  BY <1>1, <1>2, <1>3, IdleIs DEF ToolCalls, WritesAt
<1>5. PICK becomes : becomes = [call EXCEPT ![c] = k]
  OBVIOUS
<1>6. PICK text : text = [there |-> TRUE, of |-> {}, writers |-> disk[spot].writers \cup {c}]
  OBVIOUS
<1>7. PICK new : new = [disk EXCEPT ![spot] = text]
  OBVIOUS
<1>8. /\ Disk(new, becomes) /\ UNCHANGED <<temp, calls, ended, shared, halfDrawn>>
  BY <1>2, <1>3, <1>5, <1>6, <1>7 DEF OpenPicture, CallGoes
<1>9. /\ text \in Texts /\ text.of = {} /\ text.writers = disk[spot].writers \cup {c}
  BY <1>6 DEF ToolInv, ToolTypes, Texts
<1>10. /\ becomes \in [Bots -> ToolCalls \cup {Idle}] /\ becomes[c] = k
       /\ \A b \in Bots : b # c => becomes[b] = call[b]
       /\ new \in [Spots -> Texts] /\ new[spot] = text
       /\ \A p \in Spots : p # spot => new[p] = disk[p]
  BY <1>4, <1>5, <1>7, <1>9 DEF ToolInv, ToolTypes
<1>11. /\ disk' = new /\ call' \in [Bots -> ToolCalls \cup {Idle}]
       /\ call'[c].spot = spot /\ call'[c].at = "draw"
       /\ \A b \in Bots : b # c => Onward(b)
  BY <1>4, <1>8, <1>10, DiskNotes DEF SameBut
<1>12. ASSUME NEW p \in Spots PROVE Explained(p)'
  <2>1. CASE p # spot
    <3>1. disk'[p] = disk[p]
      BY <1>10, <1>11, <2>1
    <3> QED
      BY <1>1, <1>8, <1>11, <3>1, StaysExplained
  <2>2. CASE p = spot /\ Blamed(p)
    BY <1>8, <2>2 DEF Explained, Blamed
  <2>3. CASE p = spot /\ WholeText(disk[p])
    <3>1. disk'[p].of = {} /\ disk'[p].writers = {c}
      BY <1>9, <1>10, <1>11, <2>3 DEF WholeText
    <3>2. OfFile(p, spot)
      BY <1>2, <2>3 DEF OfFile
    <3>3. DrawnBy(p, c)'
      BY <1>11, <3>1, <3>2 DEF DrawnBy
    <3> QED
      BY <3>3 DEF Explained
  <2>4. CASE p = spot /\ \E b \in Bots : DrawnBy(p, b)
    <3>1. PICK b \in Bots : call[b].at = "draw" /\ OfFile(spot, call[b].spot)
      BY <2>4 DEF DrawnBy
    <3>2. call[b].spot = spot /\ b # c /\ OfFile(spot, spot)
      <4>1. PICK g \in Names : call[b].spot = Top(g) /\ spot \in {Top(g), Sorted(g)}
        BY <3>1 DEF OfFile
      <4>2. spot = Top(g)
        BY <1>2, <4>1, SpotsAre
      <4> QED
        BY <1>1, <3>1, <4>1, <4>2 DEF OfFile
    <3>3. spot \in shared
      <4>1. SharingIsNoted /\ spot # NoSpot
        BY SpotsAre DEF ToolInv
      <4> QED
        BY <1>2, <3>2, <4>1 DEF SharingIsNoted
    <3> QED
      BY <1>8, <2>4, <3>2, <3>3 DEF Explained, Blamed
  <2> QED
    BY <2>1, <2>2, <2>3, <2>4 DEF ToolInv, Explained
<1>13. WritesAlone(c)' /\ FindsPlaces(c)' /\ MissesNothing(c)'
  BY <1>11 DEF WritesAlone, FindsPlaces, MissesNothing, CallAt
<1>14. \A p \in Spots : c \notin temp[p].writers /\ ~Writing(call[c], p)
  BY <1>1 DEF ToolInv, TempsAreWritten, Writing, WritesAt
<1>15. StepOf(c)
  BY <1>1, <1>2, <1>8, <1>10, <1>11, <1>12, <1>13, <1>14 DEF StepOf, ToolInv, ToolTypes
<1> QED
  BY <1>15, StepOfKeeps

LEMMA ShootFailsKeeps ==
  ASSUME ToolInv, NEW c \in Bots, ShootFails(c)
  PROVE  ToolInv'
<1>1. call[c].at = "shoot" /\ call[c] # Idle
  BY IdleIs DEF ShootFails, CallAt
<1> QED
  BY <1>1, EndsQuietly DEF ShootFails, WritesAt

\* The picture's file is closed, with the picture or without it.
LEMMA ClosesPicture ==
  ASSUME ToolInv, NEW c \in Bots, call[c].at = "draw",
         disk' \in [Spots -> Texts], \A p \in Spots : c \notin disk[p].writers => disk'[p] = disk[p],
         shared' = shared, halfDrawn \subseteq halfDrawn', \A b \in Bots : b # c => Onward(b),
         \/ call[c].spot \in halfDrawn'
         \/ \A p \in Spots : DrawnBy(p, c) => WholeText(disk'[p]),
         NEW p \in Spots
  PROVE  Explained(p)'
<1>1. CASE c \notin disk[p].writers
  BY <1>1, StaysExplained
<1>2. CASE c \in disk[p].writers
  <2>1. Blamed(p) \/ DrawnBy(p, c)
    BY <1>2 DEF ToolInv, Explained, WholeText, DrawnBy
  <2>2. CASE Blamed(p)
    BY <2>2 DEF Explained, Blamed
  <2>3. CASE DrawnBy(p, c)
    <3>1. OfFile(p, call[c].spot)
      BY <2>3 DEF DrawnBy
    <3> QED
      BY <2>3, <3>1 DEF Explained, Blamed
  <2> QED
    BY <2>1, <2>2, <2>3
<1> QED
  BY <1>1, <1>2

LEMMA PictureKeeps ==
  ASSUME ToolInv, NEW c \in Bots, FillPicture(c) \/ PictureFails(c)
  PROVE  ToolInv'
<1>1. call[c] \in ToolCalls /\ call[c].at = "draw" /\ call[c] # Idle
  BY IdleIs DEF ToolInv, ToolTypes, FillPicture, PictureFails, CallAt
<1>2. PICK spot \in Spots, n \in Nat : spot = call[c].spot /\ n = call[c].n
  BY <1>1, ToolCallFields
<1>3. PICK idle : idle = Idle
  OBVIOUS
<1>4. PICK becomes : becomes = [call EXCEPT ![c] = idle]
  OBVIOUS
<1>5. /\ becomes \in [Bots -> ToolCalls \cup {Idle}] /\ becomes[c] = Idle
      /\ \A b \in Bots : b # c => becomes[b] = call[b]
  BY <1>3, <1>4 DEF ToolInv, ToolTypes
<1>6. PICK text \in SUBSET Nat :
        /\ Disk(WrittenBack(disk, c, text), becomes)
        /\ text = {n} \/ spot \in halfDrawn'
  BY <1>2, <1>3, <1>4 DEF FillPicture, PictureFails, Returns
<1>7. UNCHANGED <<temp, calls, ended, shared>> /\ halfDrawn \subseteq halfDrawn'
  BY DEF FillPicture, PictureFails
<1>8. PICK new : new = WrittenBack(disk, c, text)
  OBVIOUS
<1>9. /\ new \in [Spots -> Texts]
      /\ \A p \in Spots : c \notin disk[p].writers => new[p] = disk[p]
      /\ \A p \in Spots : c \in disk[p].writers =>
           new[p] = [there |-> disk[p].there, of |-> disk[p].of \cup text,
                     writers |-> disk[p].writers \ {c}]
  BY <1>8, WrittenBackIs DEF ToolInv, ToolTypes
<1>10. /\ disk' = new /\ call' \in [Bots -> ToolCalls \cup {Idle}] /\ call'[c] = Idle
       /\ \A b \in Bots : b # c => Onward(b)
  BY <1>5, <1>6, <1>8, <1>9, DiskNotes
<1>11. ASSUME text = {n}, NEW p \in Spots, DrawnBy(p, c) PROVE WholeText(disk'[p])
  <2>1. c \in disk[p].writers /\ disk[p].of = {} /\ disk[p].writers = {c}
    BY <1>11 DEF DrawnBy
  <2>2. disk'[p] = [there |-> disk[p].there, of |-> {n}, writers |-> {}]
    <3>1. disk[p].of \cup text = {n} /\ disk[p].writers \ {c} = {}
      BY <1>11, <2>1
    <3> QED
      BY <1>9, <1>10, <2>1, <3>1
  <2>3. Cardinality({n}) = 1
    BY FS_Singleton
  <2> QED
    BY <2>2, <2>3 DEF WholeText
<1>12. \A p \in Spots : Explained(p)'
  BY <1>1, <1>2, <1>6, <1>7, <1>9, <1>10, <1>11, ClosesPicture
<1>13. \A p \in Spots : c \notin temp[p].writers /\ ~Writing(call[c], p)
  BY <1>1 DEF ToolInv, TempsAreWritten, Writing, WritesAt
<1>14. StepOf(c)
  BY <1>1, <1>7, <1>9, <1>10, <1>12, <1>13, NothingLeft DEF StepOf, ToolInv, ToolTypes
<1> QED
  BY <1>14, StepOfKeeps

LEMMA ProcessEndsKeeps ==
  ASSUME ToolInv, NEW c \in Bots, ProcessEnds(c)
  PROVE  ToolInv'
<1>1. call[c] \in ToolCalls /\ call[c] # Idle
  BY DEF ToolInv, ToolTypes, ProcessEnds
<1>2. PICK idle, t, d : idle = Idle /\ t = WrittenBack(temp, c, {}) /\ d = WrittenBack(disk, c, {})
  OBVIOUS
<1>3. /\ call' = [call EXCEPT ![c] = idle] /\ temp' = t /\ disk' = d /\ ended' = TRUE
      /\ UNCHANGED <<calls, shared>>
      /\ halfDrawn' = IF call[c].at = "draw" THEN halfDrawn \cup {call[c].spot} ELSE halfDrawn
  BY <1>2 DEF ProcessEnds, Returns, CallAt
<1>4. /\ t \in [Spots -> Texts]
      /\ \A p \in Spots : t[p].writers = temp[p].writers \ {c}
      /\ \A p \in Spots : c \notin temp[p].writers => t[p] = temp[p]
  BY <1>2, WrittenBackIs DEF ToolInv, ToolTypes
<1>5. /\ d \in [Spots -> Texts] /\ \A p \in Spots : d[p].there = disk[p].there
      /\ \A p \in Spots : c \notin disk[p].writers => d[p] = disk[p]
  BY <1>2, WrittenBackIs DEF ToolInv, ToolTypes
<1>6. /\ call' \in [Bots -> ToolCalls \cup {Idle}] /\ call'[c] = Idle
      /\ \A b \in Bots : b # c => Onward(b)
  BY <1>2, <1>3, <1>5, OthersUnmoved
<1>7. ASSUME NEW p \in Spots PROVE Explained(p)'
  <2>1. CASE call[c].at = "draw"
    BY <1>3, <1>5, <1>6, <2>1, ClosesPicture
  <2>2. CASE call[c].at # "draw" /\ c \notin disk[p].writers
    BY <1>3, <1>5, <1>6, <2>2, StaysExplained
  <2>3. CASE call[c].at # "draw" /\ c \in disk[p].writers
    <3>1. Blamed(p)
      BY <2>3 DEF ToolInv, Explained, WholeText, DrawnBy
    <3> QED
      BY <1>3, <2>3, <3>1 DEF Explained, Blamed
  <2> QED
    BY <2>1, <2>2, <2>3
<1>8. \A p \in Spots : p # call[c].spot => temp'[p] = temp[p]
  BY <1>3, <1>4 DEF ToolInv, TempsAreWritten
<1>9. StepOf(c)
  BY <1>1, <1>3, <1>4, <1>5, <1>6, <1>7, <1>8, NothingLeft DEF StepOf, ToolInv, ToolTypes
<1> QED
  BY <1>9, StepOfKeeps

LEMMA EditKeeps ==
  ASSUME ToolInv, NEW q \in Spots, Edit(q)
  PROVE  ToolInv'
<1>0. PICK text \in {NoText, Text(0)} :
        Disk([disk EXCEPT ![q] = text], call) /\ UNCHANGED <<temp, calls, ended, shared, halfDrawn>>
  BY DEF Edit
<1>1. PICK new, becomes : /\ new = [disk EXCEPT ![q] = text] /\ becomes = call
                          /\ Disk(new, becomes)
                          /\ UNCHANGED <<temp, calls, ended, shared, halfDrawn>>
  BY <1>0
<1>2. /\ new \in [Spots -> Texts] /\ \A p \in Spots : new[p] = disk[p] \/ WholeText(new[p])
      /\ becomes \in [Bots -> ToolCalls \cup {Idle}] /\ \A b \in Bots : becomes[b] = call[b]
  BY <1>1, NoTextIs, TextIs DEF ToolInv, ToolTypes
<1>3. /\ disk' = new /\ call' \in [Bots -> ToolCalls \cup {Idle}]
      /\ \A b \in Bots : Onward(b)
  BY <1>1, <1>2, DiskNotes
<1>4. ToolTypes'
  BY <1>1, <1>2, <1>3 DEF ToolInv, ToolTypes
<1>5. \A b \in Bots : call'[b].spot = call[b].spot /\ call'[b].at = call[b].at
  BY <1>3, OnwardIs
<1>6. SharingIsNoted' /\ TempsHaveCalls'
  BY <1>1, <1>5 DEF ToolInv, SharingIsNoted, TempsHaveCalls
<1>7. TempsAreWritten'
  <2> SUFFICES ASSUME NEW p \in Spots, NEW b \in temp[p].writers
               PROVE  call'[b].at = "fill" /\ call'[b].spot = p
    BY <1>1 DEF TempsAreWritten
  <2> QED
    BY <1>5 DEF ToolInv, ToolTypes, Texts, TempsAreWritten
<1>8. ASSUME NEW p \in Spots PROVE Explained(p)'
  <2>1. CASE WholeText(disk'[p])
    BY <2>1 DEF Explained
  <2>2. CASE disk'[p] = disk[p]
    BY <1>1, <1>5, <2>2 DEF ToolInv, Explained, Blamed, DrawnBy
  <2> QED
    BY <1>2, <1>3, <2>1, <2>2
<1>9. ASSUME NEW b \in Bots PROVE WritesAlone(b)' /\ FindsPlaces(b)' /\ MissesNothing(b)'
  <2>1. FindsPlaces(b)' /\ MissesNothing(b)'
    BY <1>2, <1>3, OnwardKeeps
  <2>2. call[b].at \in {"fill", "replace"} => call'[b].n = call[b].n
    BY <1>3, OnwardIs, IdleIs DEF ToolInv, ToolTypes
  <2>3. WritesAlone(b)'
    BY <1>1, <1>5, <2>2 DEF ToolInv, WritesAlone
  <2> QED
    BY <2>1, <2>3
<1> QED
  BY <1>4, <1>6, <1>7, <1>8, <1>9 DEF ToolInv

LEMMA ToolsStep == ToolInv /\ [AgentToolsNext]_toolVars => ToolInv'
<1> SUFFICES ASSUME ToolInv, [AgentToolsNext]_toolVars PROVE ToolInv'
  OBVIOUS
<1>1. CASE UNCHANGED toolVars
  BY <1>1 DEF toolVars, ToolInv, ToolTypes, SharingIsNoted, TempsAreWritten, TempsHaveCalls,
     Explained, Blamed, DrawnBy, WritesAlone, FindsPlaces, MissesNothing, CallAt
<1>2. ASSUME NEW c \in Bots, NEW f \in Names,
             BeginTextWrite(c, f) \/ BeginPatch(c, f) \/ BeginScreenshot(c, f) \/ MoveFile(c, f)
      PROVE  ToolInv'
  BY <1>2, BeginOnFileKeeps, MoveFileKeeps
<1>3. ASSUME NEW c \in Bots,
             BeginOrganize(c) \/ BeginWalk(c) \/ BeginRead(c) \/ BeginCommand(c)
      PROVE  ToolInv'
  BY <1>3, BeginElseKeeps
<1>4. ASSUME NEW c \in Bots, OpenTemp(c) \/ FillText(c) \/ FillFails(c) \/ Replace(c) \/ Clean(c)
                             \/ ShootFails(c) \/ OpenPicture(c) \/ FillPicture(c)
                             \/ PictureFails(c) \/ ListingFails(c) \/ Finish(c) \/ ProcessEnds(c)
      PROVE  ToolInv'
  BY <1>4, OpenTempKeeps, FillKeeps, ReplaceKeeps, CleanKeeps, ShootFailsKeeps,
     OpenPictureKeeps, PictureKeeps, ListingFailsKeeps, ProcessEndsKeeps
<1>5. ASSUME NEW c \in Bots, NEW p \in Spots, Look(c, p) PROVE ToolInv'
  BY <1>5, LookKeeps
<1>7. ASSUME NEW c \in Bots, NEW d \in Dirs, ListDirectory(c, d) PROVE ToolInv'
  BY <1>7, ListDirectoryKeeps
<1>6. ASSUME NEW p \in Spots, Edit(p) PROVE ToolInv'
  BY <1>6, EditKeeps
<1> QED
  BY <1>1, <1>2, <1>3, <1>4, <1>5, <1>6, <1>7 DEF AgentToolsNext, Dirs

\* For any number of bots, files, calls and edits: a file is torn only if two
\* calls have written it at once or a screenshot was cut short, no temporary
\* file stays when nobody writes unless a process ended, a plan moves files to
\* free places only, and a walk that neither fails nor stops at its cap looks
\* at every file that stays (agent/tools.py: _write_text, capture_screenshot,
\* organize_files, list_files, search_files).
THEOREM AgentToolsStaySafe == AgentToolsSpec => []AgentToolsSafe
<1>1. ToolInv => AgentToolsSafe
  <2> SUFFICES ASSUME ToolInv PROVE AgentToolsSafe
    OBVIOUS
  <2>1. TornOnlyIfShared
    <3> SUFFICES ASSUME NEW p \in Spots, ~WholeText(disk[p])
                 PROVE  \E f \in Names :
                          /\ p \in {Top(f), Sorted(f)}
                          /\ \/ Top(f) \in shared \cup halfDrawn
                             \/ \E c \in Bots : CallAt(c, "draw") /\ call[c].spot = Top(f)
      BY DEF TornOnlyIfShared
    <3>1. Blamed(p) \/ \E c \in Bots : DrawnBy(p, c)
      BY DEF ToolInv, Explained
    <3> QED
      BY <3>1 DEF Blamed, DrawnBy, OfFile, CallAt
  <2>3. NoTempIsLeft
    BY DEF ToolInv, TempsHaveCalls, NoTempIsLeft
  <2>2. MovesFindAFreePlace /\ WalksMissNothing
    BY DEF ToolInv, FindsPlaces, MissesNothing, MovesFindAFreePlace, WalksMissNothing
  <2> QED
    BY <2>1, <2>2, <2>3 DEF AgentToolsSafe
<1> QED
  BY <1>1, ToolsStart, ToolsStep, PTL DEF AgentToolsSpec


-----------------------------------------------------------------------------
(* Gmail.                                                                  *)

MailIds == Mails \cup {NoMail}
Passwords == {"none", "wrong", "right"}
Tokens == {"none", "valid", "expired", "revoked"}
Clients == [key : Passwords, session : Nat, creds : Tokens]
MailCalls ==
    [verb : {"none", "list", "read", "reply", "send"},
     at : {"waiting", "selecting", "selected", "replying", "sending", "ended"},
     client : Nat, tries : {0, 1}, session : Nat, seen : Seq(Mails), got : MailIds,
     result : {"none", "ok", "failed"}]
Listings == [id : Nat, mail : MailIds, moved : BOOLEAN]

\* The clients: an action goes through one that was made.
ClientTypes ==
    /\ password \in Passwords /\ token \in Tokens /\ logins \in Nat
    /\ clients \in Seq(Clients)
    /\ current \in 0..Len(clients) /\ connects \in 0..Len(clients)
    /\ \A a \in MailAgents : ~At(a, "ended") => mcall[a].client \in 1..Len(clients)

MailTypes ==
    /\ backend \in {"imap", "oauth"} /\ inbox \in Seq(Mails)
    /\ mcall \in [MailAgents -> MailCalls]
    /\ listed \in [MailAgents -> Listings]
    /\ delivered \in [MailAgents -> Nat]

\* A mail is in the inbox once, and one that was deleted does not come back.
MailsAreThemselves ==
    /\ \A i, j \in DOMAIN inbox : inbox[i] = inbox[j] => i = j
    /\ \A i \in DOMAIN inbox : inbox[i] \notin gone

IsAt(mails, l) == l.id \in DOMAIN mails /\ mails[l.id] = l.mail
IsStartOf(mails, more) == Len(mails) <= Len(more) /\ \A i \in DOMAIN mails : mails[i] = more[i]

\* As long as no mail before it went, a listed id is its mail's place.
IdsArePlaces(a) ==
    backend = "imap" /\ listed[a] # NoListing /\ ~listed[a].moved => IsAt(inbox, listed[a])

\* What a selected inbox still says of the one that is there now, and of the
\* message to be read.
SelectedIsKnown(a) ==
    LET seen == mcall[a].seen IN
    backend = "imap" /\ At(a, "selected") =>
      /\ IsStartOf(seen, inbox) \/ \E i \in DOMAIN seen : seen[i] \in gone
      /\ mcall[a].verb \in {"read", "reply"} /\ ~listed[a].moved => IsAt(seen, listed[a])

\* Only reading gets a mail, and only what was listed is read.
ReadsWhatWasListed(a) ==
    /\ mcall[a].got # NoMail => mcall[a].verb \in {"read", "reply"}
    /\ mcall[a].verb \in {"read", "reply"} => listed[a] # NoListing

Rightly(got, l) == got = l.mail \/ (backend = "imap" /\ l.moved)

NothingIsSentYet(a) == At(a, "sending") => delivered[a] = 0

MailInv ==
    /\ MailsAreThemselves
    /\ \A a \in MailAgents : IdsArePlaces(a) /\ SelectedIsKnown(a)
                             /\ ReadsWhatWasListed(a) /\ NothingIsSentYet(a)
    /\ IdsNameTheirMail /\ SendsAreTold

LEMMA Removed ==
  ASSUME NEW S, NEW s \in Seq(S), NEW i \in DOMAIN s
  PROVE  /\ RemoveAt(s, i) \in Seq(S) /\ Len(RemoveAt(s, i)) = Len(s) - 1
         /\ \A k \in 1..Len(s) - 1 : RemoveAt(s, i)[k] = IF k < i THEN s[k] ELSE s[k + 1]
<1> DEFINE first == SubSeq(s, 1, i - 1)
           last == SubSeq(s, i + 1, Len(s))
<1>1. Len(s) \in Nat /\ DOMAIN s = 1..Len(s) /\ i \in 1..Len(s)
  OBVIOUS
<1>2. /\ first \in Seq(S) /\ Len(first) = i - 1
      /\ \A k \in 1..i - 1 : first[k] = s[k]
  BY <1>1
<1>3. /\ last \in Seq(S) /\ Len(last) = Len(s) - i
      /\ \A k \in 1..Len(s) - i : last[k] = s[i + k]
  BY <1>1
<1> HIDE DEF first, last
<1>4. /\ first \o last \in Seq(S) /\ Len(first \o last) = Len(first) + Len(last)
      /\ \A k \in 1..Len(first) + Len(last) :
           (first \o last)[k] = IF k <= Len(first) THEN first[k] ELSE last[k - Len(first)]
  <2>1. first \in Seq(S) /\ last \in Seq(S)
    BY <1>2, <1>3
  <2> QED
    BY <2>1, ConcatProperties
<1>5. RemoveAt(s, i) = first \o last
  BY DEF RemoveAt, first, last
<1>6. ASSUME NEW k \in 1..Len(s) - 1
      PROVE  (first \o last)[k] = IF k < i THEN s[k] ELSE s[k + 1]
  <2>1. CASE k < i
    BY <2>1, <1>1, <1>2, <1>3, <1>4
  <2>2. CASE ~(k < i)
    <3>1. (first \o last)[k] = last[k - (i - 1)] /\ k - (i - 1) \in 1..Len(s) - i
      <4>1. /\ k \in 1..Len(first) + Len(last) /\ ~(k <= Len(first)) /\ Len(first) = i - 1
            /\ k - (i - 1) \in 1..Len(s) - i
        BY <2>2, <1>1, <1>2, <1>3
      <4> QED
        BY <4>1, <1>4
    <3>2. i + (k - (i - 1)) = k + 1
      BY <1>1
    <3> QED
      BY <3>1, <3>2, <2>2, <1>3
  <2> QED
    BY <2>1, <2>2
<1>7. first \o last \in Seq(S) /\ Len(first \o last) = Len(s) - 1
  BY <1>1, <1>2, <1>3, <1>4
<1> QED
  BY <1>5, <1>6, <1>7

LEMMA IdNames ==
  ASSUME NEW seen \in Seq(Mails), NEW m \in ToSet(seen)
  PROVE  IdOf(seen, m) \in DOMAIN seen /\ seen[IdOf(seen, m)] = m
  BY DEF IdOf, ToSet

LEMMA GmailStart == GmailInit => MailTypes /\ ClientTypes /\ MailInv
<1> SUFFICES ASSUME GmailInit PROVE MailTypes /\ ClientTypes /\ MailInv
  OBVIOUS
<1>1. PICK m \in 0..2 : inbox \in [1..m -> Mails]
  BY DEF GmailInit, SeqOf
<1>2. inbox \in Seq(Mails) /\ Len(inbox) = 2 /\ inbox[1] # inbox[2] /\ DOMAIN inbox = 1..2
  BY <1>1 DEF GmailInit
<1>3. MailsAreThemselves
  BY <1>2 DEF GmailInit, MailsAreThemselves
<1>4. NoCall \in MailCalls /\ NoListing \in Listings
  <2>1. <<>> \in Seq(Mails)
    OBVIOUS
  <2> QED
    BY <2>1 DEF NoCall, NoListing, MailCalls, Listings, MailIds
<1>5. MailTypes
  BY <1>2, <1>4 DEF GmailInit, MailTypes
<1>6. ClientTypes
  <2>1. clients = <<>> /\ Len(clients) = 0 /\ clients \in Seq(Clients)
    BY DEF GmailInit
  <2>2. \A a \in MailAgents : At(a, "ended")
    BY DEF GmailInit, At, NoCall
  <2> QED
    BY <2>1, <2>2 DEF GmailInit, ClientTypes, Passwords, Tokens
<1>7. ASSUME NEW a \in MailAgents
      PROVE  /\ mcall[a].at = "ended" /\ mcall[a].got = NoMail /\ mcall[a].verb = "none"
             /\ listed[a] = NoListing /\ delivered[a] = 0
  BY DEF GmailInit, NoCall
<1> QED
  BY <1>3, <1>5, <1>6, <1>7 DEF MailInv, IdsArePlaces, SelectedIsKnown, ReadsWhatWasListed,
     NothingIsSentYet, IdsNameTheirMail, SendsAreTold, At

\* What an action of a run does to its call, when it lists nothing: the call is
\* new and n messages are delivered.
CallBecomes(a, new) == mcall' = [mcall EXCEPT ![a] = new]
Delivers(a, n) == delivered' = [delivered EXCEPT ![a] = n]
Fits(a, new, n) ==
    /\ backend = "imap" /\ new.at = "selected" => new.seen = inbox
    /\ new.verb \in {"read", "reply"} => listed[a] # NoListing
    /\ new.got # NoMail => new.verb \in {"read", "reply"} /\ Rightly(new.got, listed[a])
    /\ n <= 1 /\ (new.at = "sending" => n = 0)
    /\ new.verb = "send" /\ new.result = "ok" => n = 1
Moves(a, new, n) ==
    /\ new \in MailCalls /\ n \in Nat /\ CallBecomes(a, new) /\ Delivers(a, n)
    /\ UNCHANGED <<backend, inbox, gone, listed>> /\ Fits(a, new, n)

LEMMA MovesKeep ==
  ASSUME MailTypes, MailInv, NEW a \in MailAgents, NEW new, NEW n, Moves(a, new, n)
  PROVE  MailTypes' /\ MailInv'
<1>1. MailTypes'
  BY DEF MailTypes, Moves, CallBecomes, Delivers
<1>2. MailsAreThemselves'
  BY DEF MailInv, MailsAreThemselves, Moves, Fits
<1>3. /\ mcall'[a] = new /\ delivered'[a] = n
      /\ \A b \in MailAgents \ {a} : mcall'[b] = mcall[b] /\ delivered'[b] = delivered[b]
  BY DEF MailTypes, Moves, CallBecomes, Delivers
<1>4. ASSUME NEW b \in MailAgents
      PROVE  (/\ IdsArePlaces(b) /\ SelectedIsKnown(b) /\ ReadsWhatWasListed(b)
              /\ NothingIsSentYet(b))'
  <2>1. IdsArePlaces(b)'
    BY DEF MailInv, IdsArePlaces, IsAt, Moves, Fits
  <2>2. CASE b = a
    <3>1. ReadsWhatWasListed(a)' /\ NothingIsSentYet(a)'
      BY <1>3 DEF Moves, Fits, ReadsWhatWasListed, NothingIsSentYet, At
    <3>2. SelectedIsKnown(a)'
      <4> SUFFICES ASSUME backend = "imap", new.at = "selected"
                   PROVE  /\ IsStartOf(inbox, inbox)
                          /\ new.verb \in {"read", "reply"} /\ ~listed[a].moved
                             => IsAt(inbox, listed[a])
        BY <1>3 DEF Moves, Fits, SelectedIsKnown, At, IsStartOf, IsAt
      <4>1. IsStartOf(inbox, inbox)
        <5>1. Len(inbox) <= Len(inbox)
          BY DEF MailTypes
        <5> QED
          BY <5>1 DEF IsStartOf
      <4> QED
        BY <4>1 DEF Moves, Fits, MailInv, IdsArePlaces
    <3> QED
      BY <2>1, <2>2, <3>1, <3>2
  <2>3. CASE b # a
    <3>1. mcall'[b] = mcall[b] /\ delivered'[b] = delivered[b]
      BY <1>3, <2>3
    <3>2. SelectedIsKnown(b)'
      BY <3>1 DEF MailInv, SelectedIsKnown, IsStartOf, IsAt, At, Moves, Fits
    <3>3. ReadsWhatWasListed(b)' /\ NothingIsSentYet(b)'
      BY <3>1 DEF MailInv, ReadsWhatWasListed, NothingIsSentYet, At, Moves, Fits
    <3> QED
      BY <2>1, <3>2, <3>3
  <2> QED
    BY <2>2, <2>3
<1>5. IdsNameTheirMail'
  BY <1>3 DEF MailInv, IdsNameTheirMail, Moves, Fits, Rightly
<1>6. SendsAreTold'
  BY <1>3 DEF MailInv, SendsAreTold, Moves, Fits
<1> QED
  BY <1>1, <1>2, <1>4, <1>5, <1>6 DEF MailInv

-----------------------------------------------------------------------------
(* The steps that come from elsewhere.                                     *)

LEMMA ArrivesKeeps ==
  ASSUME MailTypes, ClientTypes, MailInv, NEW m \in Mails, MailArrives(m)
  PROVE  MailTypes' /\ ClientTypes' /\ MailInv'
<1>1. /\ UNCHANGED <<gone, backend, mcall, listed, delivered>>
      /\ inbox' = Append(inbox, m) /\ m \notin ToSet(inbox) \cup gone
      /\ UNCHANGED <<password, token, logins, clients, current, connects>>
  BY DEF MailArrives, account
<1>2. /\ inbox' \in Seq(Mails) /\ Len(inbox') = Len(inbox) + 1 /\ Len(inbox) \in Nat
      /\ inbox'[Len(inbox) + 1] = m /\ \A i \in DOMAIN inbox : inbox'[i] = inbox[i]
      /\ DOMAIN inbox = 1..Len(inbox) /\ DOMAIN inbox' = 1..Len(inbox) + 1
  BY <1>1 DEF MailTypes
<1>3. \A i \in DOMAIN inbox : inbox[i] # m /\ m \notin gone
  BY <1>1 DEF ToSet
<1>4. MailTypes'
  BY <1>1, <1>2 DEF MailTypes
<1>5. ClientTypes'
  BY <1>1 DEF ClientTypes, At
<1>6. MailsAreThemselves'
  <2>1. ASSUME NEW i \in DOMAIN inbox', NEW j \in DOMAIN inbox', inbox'[i] = inbox'[j]
        PROVE  i = j
    <3>1. i \in DOMAIN inbox \/ i = Len(inbox) + 1
      BY <1>2
    <3>2. j \in DOMAIN inbox \/ j = Len(inbox) + 1
      BY <1>2
    <3> QED
      BY <2>1, <3>1, <3>2, <1>2, <1>3 DEF MailInv, MailsAreThemselves
  <2>2. ASSUME NEW i \in DOMAIN inbox' PROVE inbox'[i] \notin gone'
    <3>1. i \in DOMAIN inbox \/ i = Len(inbox) + 1
      BY <1>2
    <3> QED
      BY <3>1, <1>1, <1>2, <1>3 DEF MailInv, MailsAreThemselves
  <2> QED
    BY <2>1, <2>2 DEF MailsAreThemselves
<1>7. ASSUME NEW a \in MailAgents PROVE IdsArePlaces(a)' /\ SelectedIsKnown(a)'
  <2>1. IdsArePlaces(a)'
    <3>1. \A l : IsAt(inbox, l) => IsAt(inbox', l)
      BY <1>2 DEF IsAt
    <3> QED
      BY <3>1, <1>1 DEF MailInv, IdsArePlaces
  <2>2. SelectedIsKnown(a)'
    <3>1. mcall[a].seen \in Seq(Mails)
      BY DEF MailTypes, MailCalls
    <3>2. IsStartOf(mcall[a].seen, inbox) => IsStartOf(mcall[a].seen, inbox')
      BY <1>2, <3>1 DEF IsStartOf
    <3> QED
      BY <3>2, <1>1 DEF MailInv, SelectedIsKnown, At
  <2> QED
    BY <2>1, <2>2
<1>8. (/\ \A a \in MailAgents : ReadsWhatWasListed(a) /\ NothingIsSentYet(a)
       /\ IdsNameTheirMail /\ SendsAreTold)'
  BY <1>1 DEF MailInv, ReadsWhatWasListed, NothingIsSentYet, IdsNameTheirMail, SendsAreTold, At
<1> QED
  BY <1>4, <1>5, <1>6, <1>7, <1>8 DEF MailInv

LEMMA GoesKeeps ==
  ASSUME MailTypes, ClientTypes, MailInv, NEW m \in Mails, MailGoes(m)
  PROVE  MailTypes' /\ ClientTypes' /\ MailInv'
<1>1. PICK i \in DOMAIN inbox :
        /\ inbox[i] = m /\ inbox' = RemoveAt(inbox, i)
        /\ listed' = [a \in MailAgents |-> [listed[a] EXCEPT !.moved = @ \/ i <= listed[a].id]]
  BY DEF MailGoes
<1>2. /\ UNCHANGED <<backend, mcall, delivered>> /\ gone' = gone \cup {m}
      /\ UNCHANGED <<password, token, logins, clients, current, connects>>
  BY DEF MailGoes, account
<1>3. /\ inbox' \in Seq(Mails) /\ Len(inbox') = Len(inbox) - 1 /\ Len(inbox) \in Nat
      /\ \A k \in 1..Len(inbox) - 1 : inbox'[k] = IF k < i THEN inbox[k] ELSE inbox[k + 1]
  BY <1>1, Removed DEF MailTypes
<1>4. /\ DOMAIN inbox = 1..Len(inbox) /\ DOMAIN inbox' = 1..Len(inbox) - 1
      /\ i \in 1..Len(inbox)
  BY <1>3 DEF MailTypes
<1>5. ASSUME NEW a \in MailAgents
      PROVE  /\ listed[a] \in Listings /\ listed'[a] \in Listings
             /\ listed'[a].id = listed[a].id /\ listed'[a].mail = listed[a].mail
             /\ listed'[a].moved = (listed[a].moved \/ i <= listed[a].id)
             /\ listed[a] # NoListing => listed'[a] # NoListing
             /\ ~listed'[a].moved => listed'[a] = listed[a]
  <2>1. PICK l \in Listings : l = listed[a]
    BY DEF MailTypes
  <2>2. listed'[a] = [l EXCEPT !.moved = l.moved \/ i <= l.id]
    BY <1>1, <2>1
  <2>3. PICK new : new = [l EXCEPT !.moved = l.moved \/ i <= l.id]
    OBVIOUS
  <2>4. /\ new \in Listings /\ new.id = l.id /\ new.mail = l.mail
        /\ new.moved = (l.moved \/ i <= l.id)
    BY <2>3 DEF Listings
  <2>5. new.moved \in BOOLEAN /\ l.moved \in BOOLEAN /\ (~new.moved => ~l.moved)
    BY <2>4 DEF Listings
  <2>6. ~new.moved => new = l
    BY <2>4, <2>5 DEF Listings
  <2>7. l # NoListing => new # NoListing
    BY <2>6 DEF NoListing
  <2> QED
    BY <2>1, <2>2, <2>3, <2>4, <2>6, <2>7
<1>6. MailTypes'
  <2>1. listed' \in [MailAgents -> Listings]
    BY <1>1, <1>5
  <2> QED
    BY <2>1, <1>2, <1>3 DEF MailTypes
<1>7. ClientTypes'
  BY <1>2 DEF ClientTypes, At
<1>8. ASSUME NEW k \in DOMAIN inbox'
      PROVE  /\ inbox'[k] = IF k < i THEN inbox[k] ELSE inbox[k + 1]
             /\ k \in DOMAIN inbox /\ k + 1 \in DOMAIN inbox
             /\ inbox'[k] # m /\ inbox'[k] \notin gone
  <2>1. /\ inbox'[k] = IF k < i THEN inbox[k] ELSE inbox[k + 1]
        /\ k \in DOMAIN inbox /\ k + 1 \in DOMAIN inbox
    BY <1>3, <1>4
  <2>2. k # i => inbox[k] # m
    BY <2>1, <1>1 DEF MailInv, MailsAreThemselves
  <2>3. k + 1 # i => inbox[k + 1] # m
    BY <2>1, <1>1 DEF MailInv, MailsAreThemselves
  <2>4. inbox[k] \notin gone /\ inbox[k + 1] \notin gone
    BY <2>1 DEF MailInv, MailsAreThemselves
  <2>5. CASE k < i
    BY <2>1, <2>2, <2>4, <2>5, <1>4
  <2>6. CASE ~(k < i)
    <3>1. k + 1 # i
      BY <2>6, <1>4
    <3> QED
      BY <2>1, <2>3, <2>4, <2>6, <3>1
  <2> QED
    BY <2>1, <2>5, <2>6
<1>9. MailsAreThemselves'
  <2>1. ASSUME NEW j \in DOMAIN inbox', NEW k \in DOMAIN inbox', inbox'[j] = inbox'[k]
        PROVE  j = k
    <3>1. PICK p \in DOMAIN inbox : p = (IF j < i THEN j ELSE j + 1) /\ inbox'[j] = inbox[p]
      BY <1>8
    <3>2. PICK q \in DOMAIN inbox : q = (IF k < i THEN k ELSE k + 1) /\ inbox'[k] = inbox[q]
      BY <1>8
    <3>3. p = q
      BY <2>1, <3>1, <3>2 DEF MailInv, MailsAreThemselves
    <3> QED
      BY <3>1, <3>2, <3>3, <1>4
  <2>2. ASSUME NEW k \in DOMAIN inbox' PROVE inbox'[k] \notin gone'
    BY <1>2, <1>8
  <2> QED
    BY <2>1, <2>2 DEF MailsAreThemselves
<1>10. ASSUME NEW a \in MailAgents PROVE IdsArePlaces(a)' /\ SelectedIsKnown(a)'
  <2>1. IdsArePlaces(a)'
    <3> SUFFICES ASSUME backend = "imap", listed'[a] # NoListing, ~listed'[a].moved
                 PROVE  IsAt(inbox, listed[a])'
      BY <1>2 DEF IdsArePlaces
    <3>1. listed'[a] = listed[a] /\ ~(i <= listed[a].id)
      BY <1>5
    <3>2. IsAt(inbox, listed[a])
      BY <3>1 DEF MailInv, IdsArePlaces
    <3>3. listed[a].id \in 1..Len(inbox) /\ listed[a].id < i
      BY <3>1, <3>2, <1>4 DEF IsAt
    <3>4. listed[a].id \in DOMAIN inbox' /\ inbox'[listed[a].id] = inbox[listed[a].id]
      BY <3>3, <1>4, <1>3
    <3> QED
      BY <3>1, <3>2, <3>4 DEF IsAt
  <2>2. SelectedIsKnown(a)'
    <3> SUFFICES ASSUME backend = "imap", At(a, "selected")
                 PROVE  LET seen == mcall[a].seen IN
                        /\ IsStartOf(seen, inbox') \/ \E k \in DOMAIN seen : seen[k] \in gone'
                        /\ mcall[a].verb \in {"read", "reply"} /\ ~listed'[a].moved
                             => IsAt(seen, listed'[a])
      BY <1>2 DEF SelectedIsKnown, At
    <3>1. mcall[a].seen \in Seq(Mails)
      BY DEF MailTypes, MailCalls
    <3>2. PICK seen \in Seq(Mails) : seen = mcall[a].seen
      BY <3>1
    <3>3. IsStartOf(seen, inbox') \/ \E k \in DOMAIN seen : seen[k] \in gone'
      <4>1. CASE \E k \in DOMAIN seen : seen[k] \in gone
        BY <4>1, <1>2
      <4>2. CASE IsStartOf(seen, inbox) /\ i \in DOMAIN seen
        <5>1. seen[i] \in gone'
          BY <4>2, <1>1, <1>2 DEF IsStartOf
        <5> QED
          BY <4>2, <5>1
      <4>3. CASE IsStartOf(seen, inbox) /\ i \notin DOMAIN seen
        <5>1. Len(seen) < i /\ Len(seen) \in Nat /\ DOMAIN seen = 1..Len(seen)
          BY <4>3, <1>4
        <5>2. Len(seen) <= Len(inbox')
          BY <5>1, <1>3, <1>4
        <5>3. \A k \in DOMAIN seen : seen[k] = inbox'[k]
          BY <4>3, <5>1, <1>3, <1>4 DEF IsStartOf
        <5> QED
          BY <5>2, <5>3 DEF IsStartOf
      <4> QED
        BY <4>1, <4>2, <4>3, <3>2 DEF MailInv, SelectedIsKnown
    <3>4. mcall[a].verb \in {"read", "reply"} /\ ~listed'[a].moved
             => IsAt(mcall[a].seen, listed'[a])
      BY <1>5 DEF MailInv, SelectedIsKnown
    <3> QED
      BY <3>2, <3>3, <3>4
  <2> QED
    BY <2>1, <2>2
<1>11. (/\ \A a \in MailAgents : ReadsWhatWasListed(a) /\ NothingIsSentYet(a)
        /\ IdsNameTheirMail /\ SendsAreTold)'
  <2>1. \A a \in MailAgents : ReadsWhatWasListed(a)' /\ NothingIsSentYet(a)'
    BY <1>2, <1>5 DEF MailInv, ReadsWhatWasListed, NothingIsSentYet, At
  <2>2. IdsNameTheirMail'
    BY <1>2, <1>5 DEF MailInv, IdsNameTheirMail
  <2>3. SendsAreTold'
    BY <1>2 DEF MailInv, SendsAreTold
  <2> QED
    BY <2>1, <2>2, <2>3
<1> QED
  BY <1>6, <1>7, <1>9, <1>10, <1>11 DEF MailInv

-----------------------------------------------------------------------------
(* The web requests.                                                       *)

MailStays == UNCHANGED <<backend, inbox, gone, mcall, listed, delivered>>

LEMMA MailStaysKept ==
  ASSUME MailTypes, MailInv, MailStays
  PROVE  MailTypes' /\ MailInv'
<1>1. MailTypes'
  BY DEF MailTypes, MailStays
<1>2. MailsAreThemselves' /\ IdsNameTheirMail' /\ SendsAreTold'
  BY DEF MailInv, MailStays, MailsAreThemselves, IdsNameTheirMail, SendsAreTold
<1>3. \A a \in MailAgents : IdsArePlaces(a)' /\ SelectedIsKnown(a)'
  BY DEF MailInv, MailStays, IdsArePlaces, SelectedIsKnown, At, IsAt, IsStartOf
<1>4. \A a \in MailAgents : ReadsWhatWasListed(a)' /\ NothingIsSentYet(a)'
  BY DEF MailInv, MailStays, ReadsWhatWasListed, NothingIsSentYet, At
<1> QED
  BY <1>1, <1>2, <1>3, <1>4 DEF MailInv

\* Clients are made and change, and none goes.
LEMMA ClientsFollow ==
  ASSUME ClientTypes, mcall' = mcall,
         password' \in Passwords, token' \in Tokens, logins' \in Nat,
         clients' \in Seq(Clients), Len(clients) <= Len(clients'),
         current' \in 0..Len(clients'), connects' \in 0..Len(clients')
  PROVE  ClientTypes'
<1>1. Len(clients) \in Nat /\ Len(clients') \in Nat
  BY DEF ClientTypes
<1>2. \A a \in MailAgents : ~At(a, "ended")' => mcall'[a].client \in 1..Len(clients')
  BY <1>1 DEF ClientTypes, At
<1> QED
  BY <1>2 DEF ClientTypes

LEMMA ClientMade ==
  ASSUME NEW cs \in Seq(Clients), NEW k \in Passwords
  PROVE  /\ Append(cs, Made(k)) \in Seq(Clients)
         /\ Len(Append(cs, Made(k))) = Len(cs) + 1 /\ Len(cs) \in Nat
<1>1. Made(k) \in Clients
  BY DEF Made, Clients, Tokens
<1> QED
  BY <1>1

\* The ways in which a client changes.
WithSession(cs, i, s) == [cs EXCEPT ![i].session = s]
WithCreds(cs, i, c) == [cs EXCEPT ![i].creds = c]
Dropped(cs, i) == [cs EXCEPT ![i].session = 0, ![i].creds = "none"]
Authorized(cs, i, s) == [cs EXCEPT ![i].creds = "valid", ![i].session = s]

LEMMA ClientChanged ==
  ASSUME NEW cs \in Seq(Clients), NEW i \in 1..Len(cs), NEW new \in Clients
  PROVE  [cs EXCEPT ![i] = new] \in Seq(Clients) /\ Len([cs EXCEPT ![i] = new]) = Len(cs)
  OBVIOUS

LEMMA ClientsChanged ==
  ASSUME NEW cs \in Seq(Clients), NEW i \in 1..Len(cs), NEW s \in Nat, NEW c \in Tokens,
         NEW new \in {WithSession(cs, i, s), WithCreds(cs, i, c), Dropped(cs, i),
                      Authorized(cs, i, s)}
  PROVE  new \in Seq(Clients) /\ Len(new) = Len(cs)
<1>1. PICK old \in Clients : old = cs[i]
  OBVIOUS
<1>2. PICK n1 \in Clients : n1 = [old EXCEPT !.session = s]
  BY DEF Clients
<1>3. PICK n2 \in Clients : n2 = [old EXCEPT !.creds = c]
  BY DEF Clients
<1>4. PICK n3 \in Clients : n3 = [old EXCEPT !.session = 0, !.creds = "none"]
  BY DEF Clients, Tokens
<1>5. PICK n4 \in Clients : n4 = [old EXCEPT !.creds = "valid", !.session = s]
  BY DEF Clients, Tokens
<1>6. /\ WithSession(cs, i, s) = [cs EXCEPT ![i] = n1]
      /\ WithCreds(cs, i, c) = [cs EXCEPT ![i] = n2]
  BY <1>1, <1>2, <1>3 DEF WithSession, WithCreds
<1>7. Dropped(cs, i) = [cs EXCEPT ![i] = n3] /\ Authorized(cs, i, s) = [cs EXCEPT ![i] = n4]
  BY <1>1, <1>4, <1>5 DEF Dropped, Authorized
<1>8. \A n \in Clients : [cs EXCEPT ![i] = n] \in Seq(Clients) /\ Len([cs EXCEPT ![i] = n]) = Len(cs)
  BY ClientChanged
<1>9. new \in {[cs EXCEPT ![i] = n1], [cs EXCEPT ![i] = n2], [cs EXCEPT ![i] = n3],
              [cs EXCEPT ![i] = n4]}
  BY <1>6, <1>7
<1> QED
  BY ONLY <1>8, <1>9, n1 \in Clients, n2 \in Clients, n3 \in Clients, n4 \in Clients

\* None comes and none goes.
ClientsGoOn ==
    /\ clients' \in Seq(Clients) /\ Len(clients') = Len(clients) /\ logins' \in Nat

LEMMA LoggedIn ==
  ASSUME ClientTypes, NEW i \in 1..Len(clients), LogsIn(i)
  PROVE  ClientsGoOn
<1>1. logins + 1 \in Nat /\ clients \in Seq(Clients) /\ "none" \in Tokens
  BY DEF ClientTypes, Tokens
<1>2. clients' = WithSession(clients, i, logins + 1) /\ logins' = logins + 1
  BY DEF LogsIn, WithSession
<1> QED
  BY <1>1, <1>2, ClientsChanged DEF ClientsGoOn

LEMMA WebKeeps ==
  ASSUME MailTypes, ClientTypes, MailInv,
         WebStep \/ \E s \in open : ConnectionBreaks(s)
  PROVE  MailTypes' /\ ClientTypes' /\ MailInv'
<1> USE DEF server, account
<1>1. MailStays
  BY DEF WebStep, ConnectionBreaks, SaveSettings, ConnectBegins, ImapCloses, ImapConnects,
     OAuthConnects, Disconnect, MailStays
<1>2. Len(clients) \in Nat /\ clients \in Seq(Clients) /\ 0 \in Nat /\ "none" \in Tokens
      /\ "valid" \in Tokens /\ 1 \in Nat
  BY DEF ClientTypes, Tokens
<1>3. ClientTypes'
  <2>1. ASSUME NEW s \in open, ConnectionBreaks(s) PROVE ClientTypes'
    BY <2>1 DEF ConnectionBreaks, ClientTypes, At
  <2>2. ASSUME NEW on \in BOOLEAN, NEW k \in {"none", "wrong", "right"}, SaveSettings(on, k)
        PROVE  ClientTypes'
    <3>1. /\ password' = k /\ k \in Passwords /\ token' = token /\ token \in Tokens
          /\ logins' = logins /\ connects' = connects /\ mcall' = mcall
      BY <2>2 DEF SaveSettings, Passwords, ClientTypes
    <3>2. /\ clients' \in Seq(Clients) /\ Len(clients) <= Len(clients')
          /\ current' \in 0..Len(clients')
      <4>1. CASE clients' = Append(clients, Made(k)) /\ current' = Len(clients) + 1
        BY <4>1, <1>2, <3>1, ClientMade
      <4>2. CASE /\ current # 0 /\ current' = 0
                 /\ clients' = Dropped(clients, current)
        <5>1. current \in 1..Len(clients)
          BY <4>2, <1>2 DEF ClientTypes
        <5> QED
          BY <4>2, <5>1, <1>2, ClientsChanged
      <4>3. CASE UNCHANGED <<clients, current>>
        BY <4>3, <1>2 DEF ClientTypes
      <4> QED
        BY <2>2, <4>1, <4>2, <4>3 DEF SaveSettings, Dropped
    <3>3. connects' \in 0..Len(clients')
      BY <3>1, <3>2, <1>2 DEF ClientTypes
    <3> QED
      BY <3>1, <3>2, <3>3, ClientsFollow DEF ClientTypes
  <2>3. CASE ConnectBegins
    <3>1. /\ password' = password /\ token' = token /\ logins' = logins /\ mcall' = mcall
          /\ connects' = current'
      BY <2>3 DEF ConnectBegins
    <3>2. /\ clients' \in Seq(Clients) /\ Len(clients) <= Len(clients')
          /\ current' \in 0..Len(clients')
      <4>1. CASE clients' = Append(clients, Made(password)) /\ current' = Len(clients) + 1
        BY <4>1, <1>2, ClientMade DEF ClientTypes
      <4>2. CASE UNCHANGED <<clients, current>>
        BY <4>2, <1>2 DEF ClientTypes
      <4> QED
        BY <2>3, <4>1, <4>2 DEF ConnectBegins
    <3> QED
      BY <3>1, <3>2, ClientsFollow DEF ClientTypes
  <2>4. CASE ImapCloses
    <3>1. connects \in 1..Len(clients)
      BY <2>4, <1>2 DEF ImapCloses, ClientTypes
    <3>2. /\ clients' = WithSession(clients, connects, 0)
          /\ UNCHANGED <<password, token, current, connects, logins, mcall>>
      BY <2>4 DEF ImapCloses, WithSession
    <3>3. clients' \in Seq(Clients) /\ Len(clients') = Len(clients)
      BY <3>1, <3>2, <1>2, ClientsChanged
    <3> QED
      BY <3>2, <3>3, <1>2, ClientsFollow DEF ClientTypes
  <2>5. CASE ImapConnects
    <3>1. connects \in 1..Len(clients) /\ connects' = 0
      BY <2>5, <1>2 DEF ImapConnects, ClientTypes
    <3>2. clients' \in Seq(Clients) /\ Len(clients') = Len(clients) /\ logins' \in Nat
      <4>1. CASE LogsIn(connects)
        BY <3>1, <4>1, LoggedIn DEF ClientsGoOn
      <4>2. CASE UNCHANGED <<clients, logins>>
        BY <4>2 DEF ClientTypes
      <4> QED
        BY <2>5, <4>1, <4>2 DEF ImapConnects
    <3>3. UNCHANGED <<password, token, current, mcall>>
      BY <2>5 DEF ImapConnects
    <3> QED
      BY <3>1, <3>2, <3>3, <1>2, ClientsFollow DEF ClientTypes
  <2>6. CASE OAuthConnects
    <3>1. connects \in 1..Len(clients) /\ connects' = 0
      BY <2>6, <1>2 DEF OAuthConnects, ClientTypes
    <3>2. UNCHANGED <<password, current, logins, mcall>>
      BY <2>6 DEF OAuthConnects
    <3>3. clients[connects] \in Clients /\ token \in Tokens
      BY <3>1, <1>2 DEF ClientTypes
    <3>4. clients' \in Seq(Clients) /\ Len(clients') = Len(clients) /\ token' \in Tokens
      <4>1. ASSUME NEW session \in {clients[connects].session, 1},
                   clients' = Authorized(clients, connects, session), token' \in {token, "valid"}
            PROVE  clients' \in Seq(Clients) /\ Len(clients') = Len(clients) /\ token' \in Tokens
        <5>1. session \in Nat
          BY <3>3, <1>2 DEF Clients
        <5> QED
          BY <3>1, <3>3, <4>1, <5>1, <1>2, ClientsChanged
      <4>2. ASSUME NEW had \in {clients[connects].creds, token},
                   clients' = WithCreds(clients, connects, had), token' = token
            PROVE  clients' \in Seq(Clients) /\ Len(clients') = Len(clients) /\ token' \in Tokens
        <5>1. had \in Tokens
          BY <3>3 DEF Clients
        <5> QED
          BY <3>1, <3>3, <4>2, <5>1, <1>2, ClientsChanged
      <4>3. \/ \E session \in {clients[connects].session, 1} :
                 clients' = Authorized(clients, connects, session) /\ token' \in {token, "valid"}
            \/ \E had \in {clients[connects].creds, token} :
                 clients' = WithCreds(clients, connects, had) /\ token' = token
        BY <2>6 DEF OAuthConnects, Authorized, WithCreds
      <4> QED
        BY <4>1, <4>2, <4>3
    <3> QED
      BY <3>1, <3>2, <3>4, <1>2, ClientsFollow DEF ClientTypes
  <2>7. CASE Disconnect
    <3>1. current \in 1..Len(clients)
      BY <2>7, <1>2 DEF Disconnect, ClientTypes
    <3>2. /\ clients' = Dropped(clients, current)
          /\ UNCHANGED <<password, token, current, connects, logins, mcall>>
      BY <2>7 DEF Disconnect, Dropped
    <3>3. clients' \in Seq(Clients) /\ Len(clients') = Len(clients)
      BY <3>1, <3>2, <1>2, ClientsChanged
    <3> QED
      BY <3>2, <3>3, <1>2, ClientsFollow DEF ClientTypes
  <2> QED
    BY <2>1, <2>2, <2>3, <2>4, <2>5, <2>6, <2>7 DEF WebStep
<1> QED
  BY <1>1, <1>3, MailStaysKept

-----------------------------------------------------------------------------
(* The actions.                                                            *)

\* The ways in which a call goes on; all but the named fields stay.
LEMMA MailCallGoesOn ==
  ASSUME NEW c \in MailCalls, NEW place \in {"selecting", "selected", "replying"}, NEW new,
         new = [c EXCEPT !.at = place]
  PROVE  /\ new \in MailCalls /\ new.at = place /\ new.verb = c.verb /\ new.got = c.got
         /\ new.result = c.result /\ new.client = c.client
  BY DEF MailCalls

EndedAs(c, result) == [c EXCEPT !.at = "ended", !.result = result]
LEMMA CallEnds ==
  ASSUME NEW c \in MailCalls, NEW result \in {"ok", "failed"}, NEW new,
         new = EndedAs(c, result)
  PROVE  /\ new \in MailCalls /\ new.at = "ended" /\ new.verb = c.verb /\ new.got = c.got
         /\ new.result = result /\ new.client = c.client
  BY DEF MailCalls, EndedAs

Selected(c, s, mails) == [c EXCEPT !.at = "selected", !.session = s, !.seen = mails]
LEMMA CallSelects ==
  ASSUME NEW c \in MailCalls, NEW s \in Nat, NEW mails \in Seq(Mails), NEW new,
         new = Selected(c, s, mails)
  PROVE  /\ new \in MailCalls /\ new.at = "selected" /\ new.verb = c.verb /\ new.got = c.got
         /\ new.result = c.result /\ new.seen = mails /\ new.client = c.client
  BY DEF MailCalls, Selected

LEMMA CallTries ==
  ASSUME NEW c \in MailCalls, NEW new, new = [c EXCEPT !.tries = 1]
  PROVE  /\ new \in MailCalls /\ new.at = c.at /\ new.verb = c.verb /\ new.got = c.got
         /\ new.result = c.result /\ new.client = c.client
  BY DEF MailCalls

Answering(c, m) == [c EXCEPT !.at = "replying", !.got = m]
Got(c, m) == [c EXCEPT !.at = "ended", !.result = "ok", !.got = m]
LEMMA CallGets ==
  ASSUME NEW c \in MailCalls, NEW m \in MailIds, NEW new \in {Answering(c, m), Got(c, m)}
  PROVE  /\ new \in MailCalls /\ new.at \in {"replying", "ended"} /\ new.verb = c.verb
         /\ new.got = m /\ new.result \in {c.result, "ok"} /\ new.client = c.client
<1>1. CASE new = Answering(c, m)
  BY <1>1 DEF MailCalls, Answering
<1>2. CASE new = Got(c, m)
  BY <1>2 DEF MailCalls, Got
<1> QED
  BY <1>1, <1>2

TakenAs(verb, i, place) == [NoCall EXCEPT !.verb = verb, !.client = i, !.at = place]
LEMMA CallBegins ==
  ASSUME NEW verb \in {"list", "read", "reply", "send"}, NEW i \in Nat,
         NEW place \in {"waiting", "selected", "sending"}, NEW new,
         new = TakenAs(verb, i, place)
  PROVE  /\ new \in MailCalls /\ new.at = place /\ new.verb = verb /\ new.got = NoMail
         /\ new.result = "none" /\ new.client = i
<1>1. <<>> \in Seq(Mails)
  OBVIOUS
<1> QED
  BY <1>1 DEF NoCall, MailCalls, MailIds, TakenAs

\* What an action does to the clients: those who are not through with one have one.
LEMMA ActionClients ==
  ASSUME MailTypes, ClientTypes, NEW a \in MailAgents, NEW new \in MailCalls,
         CallBecomes(a, new), new.at # "ended" => new.client \in 1..Len(clients),
         ClientsGoOn, UNCHANGED <<password, token, current, connects>>
  PROVE  ClientTypes'
<1>1. \A b \in MailAgents : ~At(b, "ended")' => mcall'[b].client \in 1..Len(clients')
  BY DEF ClientTypes, MailTypes, At, ClientsGoOn, CallBecomes
<1> QED
  BY <1>1 DEF ClientTypes, ClientsGoOn

\* What each action but a listing does.
Acts(a) ==
    /\ \E new, n : Moves(a, new, n) /\ (new.at # "ended" => new.client \in 1..Len(clients))
    /\ ClientsGoOn /\ UNCHANGED <<password, token, current, connects>>

LEMMA ActsKeep ==
  ASSUME MailTypes, ClientTypes, MailInv, NEW a \in MailAgents, Acts(a)
  PROVE  MailTypes' /\ ClientTypes' /\ MailInv'
<1>1. PICK new : \E n : Moves(a, new, n) /\ (new.at # "ended" => new.client \in 1..Len(clients))
  BY DEF Acts
<1>2. PICK n : Moves(a, new, n) /\ (new.at # "ended" => new.client \in 1..Len(clients))
  BY <1>1
<1>3. MailTypes' /\ MailInv'
  BY <1>2, MovesKeep
<1>4. new \in MailCalls /\ CallBecomes(a, new)
  BY <1>2 DEF Moves
<1>5. ClientTypes'
  BY <1>2, <1>4, ActionClients DEF Acts
<1> QED
  BY <1>3, <1>5

\* What the call of a is before a step.
LEMMA CallIs ==
  ASSUME MailTypes, ClientTypes, MailInv, NEW a \in MailAgents
  PROVE  /\ mcall[a] \in MailCalls /\ delivered[a] \in Nat
         /\ mcall[a].verb \in {"read", "reply"} => listed[a] # NoListing
         /\ mcall[a].got # NoMail => /\ mcall[a].verb \in {"read", "reply"}
                                    /\ Rightly(mcall[a].got, listed[a])
         /\ delivered[a] <= 1 /\ (mcall[a].at = "sending" => delivered[a] = 0)
         /\ mcall[a].verb = "send" /\ mcall[a].result = "ok" => delivered[a] = 1
         /\ mcall[a].at # "ended" => mcall[a].client \in 1..Len(clients)
<1>1. mcall[a] \in MailCalls /\ delivered[a] \in Nat
  BY DEF MailTypes
<1>2. ReadsWhatWasListed(a) /\ NothingIsSentYet(a) /\ IdsNameTheirMail /\ SendsAreTold
  BY DEF MailInv
<1> QED
  BY <1>1, <1>2 DEF ReadsWhatWasListed, NothingIsSentYet, IdsNameTheirMail, SendsAreTold,
     ClientTypes, At, Rightly

LEMMA SameCall ==
  ASSUME MailTypes, NEW a \in MailAgents
  PROVE  /\ UNCHANGED delivered => Delivers(a, delivered[a])
         /\ UNCHANGED mcall => CallBecomes(a, mcall[a])
  BY DEF MailTypes, Delivers, CallBecomes

OutsideStays == UNCHANGED <<backend, inbox, gone, password, token, current, connects>>

\* A call goes on, or fails, without getting a mail or delivering a message.
GoesOnAs(a, new) ==
    /\ new \in MailCalls /\ CallBecomes(a, new)
    /\ OutsideStays /\ UNCHANGED <<listed, delivered>> /\ ClientsGoOn
    /\ new.verb = mcall[a].verb /\ new.got = mcall[a].got /\ new.client = mcall[a].client
    /\ new.result \in {mcall[a].result, "failed"}
    /\ mcall[a].at # "ended" /\ new.at # "sending" /\ (new.at = "selected" => new.seen = inbox)

LEMMA GoesOn ==
  ASSUME MailTypes, ClientTypes, MailInv, NEW a \in MailAgents, NEW new, GoesOnAs(a, new)
  PROVE  Acts(a)
<1>1. PICK c, n : c = mcall[a] /\ n = delivered[a]
  OBVIOUS
<1>2. PICK l : l = listed[a]
  OBVIOUS
<1>3. /\ n \in Nat /\ (c.verb \in {"read", "reply"} => l # NoListing)
      /\ c.got # NoMail => c.verb \in {"read", "reply"} /\ Rightly(c.got, l)
      /\ n <= 1 /\ (c.verb = "send" /\ c.result = "ok" => n = 1)
      /\ c.at # "ended" => c.client \in 1..Len(clients)
  BY <1>1, <1>2, CallIs
<1>4. /\ new.verb = c.verb /\ new.got = c.got /\ new.client = c.client /\ c.at # "ended"
      /\ new.result \in {c.result, "failed"} /\ new.at # "sending"
      /\ new.at = "selected" => new.seen = inbox
  BY <1>1 DEF GoesOnAs
<1>5. Fits(a, new, n)
  BY <1>2, <1>3, <1>4 DEF Fits
<1>6. /\ new \in MailCalls /\ CallBecomes(a, new) /\ Delivers(a, n)
      /\ UNCHANGED <<backend, inbox, gone, listed>>
  BY <1>1, SameCall DEF GoesOnAs, OutsideStays
<1>7. Moves(a, new, n)
  BY <1>3, <1>5, <1>6 DEF Moves
<1> QED
  BY <1>3, <1>4, <1>7 DEF Acts, GoesOnAs, OutsideStays

LEMMA TakeActs ==
  ASSUME MailTypes, ClientTypes, MailInv, NEW a \in MailAgents,
         NEW verb \in {"list", "read", "reply", "send"}, Take(a, verb)
  PROVE  Acts(a)
<1>1. PICK place \in {"waiting", "selected", "sending"} :
        /\ place = "sending" => verb = "send"
        /\ place = "selected" => backend = "oauth"
        /\ CallBecomes(a, TakenAs(verb, current, place))
  BY DEF Take, CallBecomes, TakenAs
<1>3. PICK i : i = current /\ i \in 1..Len(clients) /\ i \in Nat
  BY DEF Take, ClientTypes
<1>2. PICK new : new = TakenAs(verb, i, place)
  OBVIOUS
<1>4. /\ new \in MailCalls /\ new.at = place /\ new.verb = verb /\ new.got = NoMail
      /\ new.result = "none" /\ new.client = i
  BY <1>2, <1>3, CallBegins
<1>5. /\ CallBecomes(a, new) /\ Delivers(a, 0)
      /\ UNCHANGED <<backend, inbox, gone, listed, clients, logins>>
      /\ UNCHANGED <<password, token, current, connects>>
      /\ verb \in {"read", "reply"} => listed[a] # NoListing
  BY <1>1, <1>2, <1>3 DEF Take, ServerAndWeb, account, server, Delivers
<1>6. Moves(a, new, 0)
  <2>1. /\ ~(backend = "imap" /\ new.at = "selected")
        /\ new.verb \in {"read", "reply"} => listed[a] # NoListing
        /\ ~(new.verb = "send" /\ new.result = "ok")
    BY <1>1, <1>4, <1>5
  <2> QED
    BY <1>4, <1>5, <2>1 DEF Moves, Fits
<1>7. ClientsGoOn
  BY <1>5 DEF ClientTypes, ClientsGoOn
<1> QED
  BY <1>3, <1>4, <1>5, <1>6, <1>7 DEF Acts

LEMMA Untouched ==
  ASSUME ClientTypes, UNCHANGED ServerAndWeb
  PROVE  OutsideStays /\ (UNCHANGED <<clients, logins>> => ClientsGoOn)
  BY DEF ServerAndWeb, account, server, ClientsGoOn, ClientTypes, OutsideStays

LEMMA FailureActs ==
  ASSUME MailTypes, ClientTypes, MailInv, NEW a \in MailAgents, Ends(a, "failed"),
         mcall[a].at # "ended", OutsideStays, UNCHANGED <<listed, delivered>>, ClientsGoOn
  PROVE  Acts(a)
<1>1. PICK c \in MailCalls : c = mcall[a]
  BY DEF MailTypes
<1>2. PICK new : new = EndedAs(c, "failed")
  OBVIOUS
<1>3. /\ new \in MailCalls /\ new.at = "ended" /\ new.verb = c.verb /\ new.got = c.got
      /\ new.result = "failed" /\ new.client = c.client
  BY <1>2, CallEnds
<1>4. CallBecomes(a, new)
  BY <1>1, <1>2 DEF Ends, MailTypes, CallBecomes, EndedAs
<1>5. GoesOnAs(a, new)
  BY <1>1, <1>3, <1>4 DEF GoesOnAs
<1> QED
  BY <1>5, GoesOn

LEMMA LockActs ==
  ASSUME MailTypes, ClientTypes, MailInv, NEW a \in MailAgents, Lock(a)
  PROVE  Acts(a)
<1>1. PICK c \in MailCalls : c = mcall[a]
  BY DEF MailTypes
<1>2. PICK new : new = [c EXCEPT !.at = "selecting"]
  OBVIOUS
<1>3. /\ new \in MailCalls /\ new.at = "selecting" /\ new.verb = c.verb /\ new.got = c.got
      /\ new.result = c.result /\ new.client = c.client
  BY <1>2, MailCallGoesOn
<1>4. /\ CallBecomes(a, new) /\ c.at = "waiting"
      /\ UNCHANGED ServerAndWeb /\ UNCHANGED <<listed, delivered, clients, logins>>
  BY <1>1, <1>2 DEF Lock, Step, At, MailTypes, CallBecomes
<1>5. GoesOnAs(a, new)
  BY <1>1, <1>3, <1>4, Untouched DEF GoesOnAs
<1> QED
  BY <1>5, GoesOn

LEMMA ReconnectActs ==
  ASSUME MailTypes, ClientTypes, MailInv, NEW a \in MailAgents, Reconnects(a)
  PROVE  Acts(a)
<1>1. /\ mcall[a].at = "selecting" /\ UNCHANGED ServerAndWeb /\ UNCHANGED <<listed, delivered>>
  BY DEF Reconnects, At
<1>2. CASE Ends(a, "failed") /\ UNCHANGED <<clients, logins>>
  BY <1>1, <1>2, FailureActs, Untouched
<1>3. CASE LogsIn(mcall[a].client) /\ UNCHANGED mcall
  <2>1. PICK c \in MailCalls : c = mcall[a] /\ CallBecomes(a, c)
    BY <1>3, CallIs, SameCall
  <2>2. c.client \in 1..Len(clients)
    BY <1>1, <2>1, CallIs
  <2>3. ClientsGoOn
    BY <1>3, <2>1, <2>2, LoggedIn
  <2>4. GoesOnAs(a, c)
    BY <1>1, <2>1, <2>3, Untouched DEF GoesOnAs
  <2> QED
    BY <2>4, GoesOn
<1> QED
  BY <1>2, <1>3 DEF Reconnects

LEMMA SelectActs ==
  ASSUME MailTypes, ClientTypes, MailInv, NEW a \in MailAgents, Selects(a)
  PROVE  Acts(a)
<1>1. PICK c \in MailCalls : c = mcall[a]
  BY DEF MailTypes
<1>2. PICK s : s = Uses(a).session
  OBVIOUS
<1>8. PICK mails \in Seq(Mails) : mails = inbox
  BY DEF MailTypes
<1>3. PICK new : new = Selected(c, s, mails)
  OBVIOUS
<1>4. /\ CallBecomes(a, new) /\ c.at = "selecting"
      /\ UNCHANGED ServerAndWeb /\ UNCHANGED <<listed, delivered, clients, logins>>
  BY <1>1, <1>2, <1>3, <1>8 DEF Selects, At, MailTypes, CallBecomes, Selected
<1>5. s \in Nat
  <2>1. clients[c.client] \in Clients
    BY <1>1, <1>4, CallIs DEF ClientTypes
  <2> QED
    BY <1>1, <1>2, <2>1 DEF Uses, Clients
<1>6. /\ new \in MailCalls /\ new.at = "selected" /\ new.verb = c.verb /\ new.got = c.got
      /\ new.result = c.result /\ new.seen = inbox /\ new.client = c.client
  <2>1. /\ new \in MailCalls /\ new.at = "selected" /\ new.verb = c.verb /\ new.got = c.got
        /\ new.result = c.result /\ new.seen = mails /\ new.client = c.client
    BY <1>3, <1>5, CallSelects
  <2> QED
    BY <1>8, <2>1
<1>7. GoesOnAs(a, new)
  BY <1>1, <1>4, <1>6, Untouched DEF GoesOnAs
<1> QED
  BY <1>7, GoesOn

LEMMA SelectFailureActs ==
  ASSUME MailTypes, ClientTypes, MailInv, NEW a \in MailAgents, SelectFails(a)
  PROVE  Acts(a)
<1>1. PICK c \in MailCalls : c = mcall[a]
  BY DEF MailTypes
<1>2. /\ c.at = "selecting" /\ UNCHANGED ServerAndWeb /\ UNCHANGED <<listed, delivered, logins>>
      /\ clients' = WithSession(clients, c.client, 0)
  BY <1>1 DEF SelectFails, At, WithSession
<1>3. c.client \in 1..Len(clients) /\ clients \in Seq(Clients) /\ "none" \in Tokens
  BY <1>1, <1>2, CallIs DEF ClientTypes, Tokens
<1>4. ClientsGoOn
  <2>1. clients' \in Seq(Clients) /\ Len(clients') = Len(clients)
    BY <1>2, <1>3, ClientsChanged
  <2> QED
    BY <1>2, <2>1 DEF ClientTypes, ClientsGoOn
<1>5. CASE Ends(a, "failed")
  BY <1>1, <1>2, <1>4, <1>5, FailureActs, Untouched
<1>6. CASE mcall' = [mcall EXCEPT ![a].tries = 1]
  <2>1. PICK new : new = [c EXCEPT !.tries = 1]
    OBVIOUS
  <2>2. /\ new \in MailCalls /\ new.at = c.at /\ new.verb = c.verb /\ new.got = c.got
        /\ new.result = c.result /\ new.client = c.client
    BY <2>1, CallTries
  <2>3. CallBecomes(a, new)
    BY <1>1, <1>6, <2>1 DEF MailTypes, CallBecomes
  <2>4. GoesOnAs(a, new)
    BY <1>1, <1>2, <1>4, <2>2, <2>3, Untouched DEF GoesOnAs
  <2> QED
    BY <2>4, GoesOn
<1> QED
  BY <1>5, <1>6 DEF SelectFails

LEMMA FetchFailureActs ==
  ASSUME MailTypes, ClientTypes, MailInv, NEW a \in MailAgents, FetchFails(a) \/ Replies(a)
  PROVE  Acts(a)
<1>1. /\ mcall[a].at # "ended" /\ Ends(a, "failed") /\ UNCHANGED ServerAndWeb
      /\ UNCHANGED <<listed, delivered, clients, logins>>
  BY DEF FetchFails, Replies, At
<1> QED
  BY <1>1, FailureActs, Untouched

LEMMA ReadActs ==
  ASSUME MailTypes, ClientTypes, MailInv, NEW a \in MailAgents, Reads(a)
  PROVE  Acts(a)
<1>1. PICK c \in MailCalls : c = mcall[a]
  BY DEF MailTypes
<1>2. PICK m : m = MailOf(a)
  OBVIOUS
<1>3. /\ c.at = "selected" /\ c.verb \in {"read", "reply"}
      /\ UNCHANGED <<backend, inbox, gone, listed, delivered, clients, logins>>
      /\ UNCHANGED <<password, token, current, connects>>
      /\ \/ m = NoMail /\ Ends(a, "failed")
         \/ /\ m # NoMail
            /\ \/ mcall' = [mcall EXCEPT ![a].at = "replying", ![a].got = m]
               \/ mcall' = [mcall EXCEPT ![a].at = "ended", ![a].result = "ok", ![a].got = m]
  BY <1>1, <1>2 DEF Reads, At, account
<1>4. ClientsGoOn
  BY <1>3 DEF ClientTypes, ClientsGoOn
<1>5. CASE m = NoMail /\ Ends(a, "failed")
  <2>1. OutsideStays /\ UNCHANGED <<listed, delivered>>
    BY <1>3 DEF OutsideStays
  <2> QED
    BY <1>1, <1>3, <1>4, <1>5, <2>1, FailureActs
<1>6. CASE m # NoMail
  <2>1. m \in Mails /\ Rightly(m, listed[a])
    <3>1. CASE backend = "oauth"
      <4>1. m = listed[a].mail /\ m \in ToSet(inbox)
        BY <1>2, <1>6, <3>1 DEF MailOf
      <4> QED
        BY <4>1 DEF ToSet, MailTypes, Rightly
    <3>2. CASE backend # "oauth"
      <4>1. m \in ToSet(inbox) /\ m = c.seen[listed[a].id] /\ backend = "imap"
        <5>1. PICK l : l = listed[a]
          OBVIOUS
        <5>2. m = IF l.id <= Len(c.seen) /\ c.seen[l.id] \in ToSet(inbox)
                  THEN c.seen[l.id] ELSE NoMail
          BY <1>1, <1>2, <3>2, <5>1 DEF MailOf
        <5>3. l.id <= Len(c.seen) /\ c.seen[l.id] \in ToSet(inbox) /\ m = c.seen[l.id]
          BY <1>6, <5>2
        <5>4. backend \in {"imap", "oauth"}
          BY DEF MailTypes
        <5> QED
          BY <3>2, <5>1, <5>3, <5>4
      <4>2. ~listed[a].moved => c.seen[listed[a].id] = listed[a].mail
        BY <1>1, <1>3, <4>1 DEF MailInv, SelectedIsKnown, At, IsAt
      <4> QED
        BY <4>1, <4>2 DEF ToSet, MailTypes, Rightly
    <3> QED
      BY <3>1, <3>2
  <2>2. PICK new \in {Answering(c, m), Got(c, m)} : CallBecomes(a, new)
    <3>1. CASE mcall' = [mcall EXCEPT ![a].at = "replying", ![a].got = m]
      <4>1. CallBecomes(a, Answering(c, m))
        BY <1>1, <3>1 DEF MailTypes, CallBecomes, Answering
      <4> QED
        BY <4>1
    <3>2. CASE mcall' = [mcall EXCEPT ![a].at = "ended", ![a].result = "ok", ![a].got = m]
      <4>1. CallBecomes(a, Got(c, m))
        BY <1>1, <3>2 DEF MailTypes, CallBecomes, Got
      <4> QED
        BY <4>1
    <3> QED
      BY <1>3, <1>6, <3>1, <3>2
  <2>3. /\ new \in MailCalls /\ new.at \in {"replying", "ended"} /\ new.verb = c.verb
        /\ new.got = m /\ new.client = c.client
    <3>1. m \in MailIds
      BY <2>1 DEF MailIds
    <3> QED
      BY <2>2, <3>1, CallGets
  <2>4. PICK n : n = delivered[a]
    OBVIOUS
  <2>5. /\ n \in Nat /\ Delivers(a, n) /\ n <= 1
        /\ listed[a] # NoListing /\ c.client \in 1..Len(clients)
    BY <1>1, <1>3, <2>4, CallIs, SameCall
  <2>6. Moves(a, new, n)
    <3>1. /\ new.at # "selected" /\ new.at # "sending" /\ new.verb # "send"
          /\ new.verb \in {"read", "reply"}
      BY <1>3, <2>3
    <3> QED
      BY <1>3, <2>1, <2>2, <2>3, <2>5, <3>1 DEF Moves, Fits
  <2> QED
    BY <1>3, <1>4, <2>3, <2>5, <2>6 DEF Acts
<1> QED
  BY <1>3, <1>5, <1>6

LEMMA SendActs ==
  ASSUME MailTypes, ClientTypes, MailInv, NEW a \in MailAgents, Sends(a)
  PROVE  Acts(a)
<1>1. PICK c \in MailCalls : c = mcall[a]
  BY DEF MailTypes
<1>2. /\ c.at = "sending" /\ UNCHANGED ServerAndWeb /\ UNCHANGED <<listed, clients, logins>>
  BY <1>1 DEF Sends, At
<1>3. PICK result \in {"ok", "failed"}, n \in {0, 1} :
        /\ Ends(a, result) /\ Delivers(a, n) /\ (result = "ok" => n = 1)
  <2>1. delivered[a] = 0 /\ (UNCHANGED delivered => Delivers(a, 0))
    BY <1>1, <1>2, CallIs, SameCall
  <2>2. CASE Ends(a, "ok") /\ delivered' = [delivered EXCEPT ![a] = @ + 1]
    BY <2>1, <2>2 DEF Delivers
  <2>3. CASE Ends(a, "failed") /\ UNCHANGED delivered
    BY <2>1, <2>3
  <2>4. CASE Ends(a, "failed") /\ delivered' = [delivered EXCEPT ![a] = @ + 1]
    BY <2>1, <2>4 DEF Delivers
  <2> QED
    BY <2>2, <2>3, <2>4 DEF Sends
<1>4. PICK new : new = EndedAs(c, result)
  OBVIOUS
<1>5. /\ new \in MailCalls /\ new.at = "ended" /\ new.verb = c.verb /\ new.got = c.got
      /\ new.result = result
  BY <1>4, CallEnds
<1>6. CallBecomes(a, new)
  BY <1>1, <1>3, <1>4 DEF Ends, MailTypes, CallBecomes, EndedAs
<1>7. /\ c.verb \in {"read", "reply"} => listed[a] # NoListing
      /\ c.got # NoMail => c.verb \in {"read", "reply"} /\ Rightly(c.got, listed[a])
  BY <1>1, CallIs
<1>8. Moves(a, new, n)
  <2>1. UNCHANGED <<backend, inbox, gone, listed>>
    BY <1>2, Untouched DEF OutsideStays
  <2>2. n \in Nat /\ n <= 1 /\ new.at # "sending" /\ new.at # "selected"
        /\ (new.verb = "send" /\ new.result = "ok" => n = 1)
    BY <1>3, <1>5
  <2> QED
    <3>1. Fits(a, new, n)
      <4>1. new.verb = c.verb /\ new.got = c.got
        BY <1>5
      <4>2. PICK l : l = listed[a]
        OBVIOUS
      <4> QED
        BY <1>7, <2>2, <4>1, <4>2 DEF Fits
    <3> QED
      BY <1>3, <1>5, <1>6, <2>1, <2>2, <3>1 DEF Moves, Delivers
<1> QED
  BY <1>2, <1>5, <1>8, Untouched DEF Acts, OutsideStays

\* The mail that a listing shows is where its id says, if none that was
\* selected has gone.
LEMMA ListedIsAt ==
  ASSUME MailTypes, MailInv, NEW a \in MailAgents, At(a, "selected"), backend = "imap",
         NEW m \in ToSet(mcall[a].seen),
         \A i \in DOMAIN mcall[a].seen : mcall[a].seen[i] \in ToSet(inbox)
  PROVE  /\ IdOf(mcall[a].seen, m) \in DOMAIN inbox /\ inbox[IdOf(mcall[a].seen, m)] = m
<1>1. PICK seen \in Seq(Mails) : seen = mcall[a].seen
  BY DEF MailTypes, MailCalls
<1>2. PICK id : id = IdOf(seen, m)
  OBVIOUS
<1>3. id \in DOMAIN seen /\ seen[id] = m
  BY <1>1, <1>2, IdNames
<1>4. IsStartOf(seen, inbox)
  <2>1. \A i \in DOMAIN seen : seen[i] \notin gone
    BY <1>1 DEF MailInv, MailsAreThemselves, ToSet
  <2> QED
    BY <1>1, <2>1 DEF MailInv, SelectedIsKnown
<1>5. id \in DOMAIN inbox /\ inbox[id] = m
  BY <1>3, <1>4 DEF IsStartOf, MailTypes
<1> QED
  BY <1>1, <1>2, <1>5

LEMMA ListKeeps ==
  ASSUME MailTypes, ClientTypes, MailInv, NEW a \in MailAgents, Lists(a)
  PROVE  MailTypes' /\ ClientTypes' /\ MailInv'
<1>1. PICK c \in MailCalls : c = mcall[a]
  BY DEF MailTypes
<1>2. PICK seen \in Seq(Mails) : seen = IF backend = "imap" THEN c.seen ELSE inbox
  BY DEF MailCalls, MailTypes
<1>3. /\ c.at = "selected" /\ c.verb = "list" /\ Ends(a, "ok")
      /\ UNCHANGED <<backend, inbox, gone, delivered, clients, logins>>
      /\ UNCHANGED <<password, token, current, connects>>
  BY <1>1 DEF Lists, At, account
<1>4. PICK l : /\ listed' = [listed EXCEPT ![a] = l]
               /\ \/ l = listed[a]
                  \/ \E m \in ToSet(seen) :
                       l = [id |-> IdOf(seen, m), mail |-> m,
                            moved |-> \E i \in DOMAIN seen : seen[i] \notin ToSet(inbox)]
  <2>1. CASE UNCHANGED listed
    <3>1. listed' = [listed EXCEPT ![a] = listed[a]]
      BY <2>1 DEF MailTypes
    <3> QED
      BY <3>1
  <2>2. CASE \E m \in unseen \cap ToSet(seen) :
               listed' = [listed EXCEPT ![a] = [id |-> IdOf(seen, m), mail |-> m,
                 moved |-> \E i \in DOMAIN seen : seen[i] \notin ToSet(inbox)]]
    <3>1. PICK m \in ToSet(seen) :
               listed' = [listed EXCEPT ![a] = [id |-> IdOf(seen, m), mail |-> m,
                 moved |-> \E i \in DOMAIN seen : seen[i] \notin ToSet(inbox)]]
      BY <2>2
    <3>2. PICK new : new = [id |-> IdOf(seen, m), mail |-> m,
                            moved |-> \E i \in DOMAIN seen : seen[i] \notin ToSet(inbox)]
      OBVIOUS
    <3> QED
      BY <3>1, <3>2
  <2> QED
    BY <1>1, <1>2, <2>1, <2>2 DEF Lists
<1>5. /\ l \in Listings
      /\ backend = "imap" /\ l # NoListing /\ ~l.moved => IsAt(inbox, l)
  <2>1. CASE l = listed[a]
    BY <2>1 DEF MailTypes, MailInv, IdsArePlaces
  <2>2. CASE l # listed[a]
    <3>1. PICK m \in ToSet(seen) :
             l = [id |-> IdOf(seen, m), mail |-> m,
                  moved |-> \E i \in DOMAIN seen : seen[i] \notin ToSet(inbox)]
      BY <1>4, <2>2
    <3>2. PICK id : id = IdOf(seen, m)
      OBVIOUS
    <3>3. PICK moved \in BOOLEAN : moved = \E i \in DOMAIN seen : seen[i] \notin ToSet(inbox)
      OBVIOUS
    <3>4. id \in DOMAIN seen /\ seen[id] = m /\ id \in Nat /\ m \in Mails
      <4>1. id \in DOMAIN seen /\ seen[id] = m
        BY <3>2, IdNames
      <4> QED
        BY <4>1
    <3>5. l = [id |-> id, mail |-> m, moved |-> moved]
      BY <3>1, <3>2, <3>3
    <3>6. l \in Listings
      BY <3>4, <3>5 DEF Listings, MailIds
    <3>7. ASSUME backend = "imap", ~moved PROVE id \in DOMAIN inbox /\ inbox[id] = m
      BY <1>1, <1>2, <1>3, <3>2, <3>3, <3>7, ListedIsAt DEF At
    <3> QED
      BY <3>5, <3>6, <3>7 DEF IsAt
  <2> QED
    BY <2>1, <2>2
<1>6. PICK new : new = EndedAs(c, "ok")
  OBVIOUS
<1>7. /\ new \in MailCalls /\ new.at = "ended" /\ new.verb = "list" /\ new.got = c.got
      /\ new.result = "ok"
  BY <1>3, <1>6, CallEnds
<1>8. CallBecomes(a, new) /\ c.got = NoMail
  <2>1. CallBecomes(a, new)
    BY <1>1, <1>3, <1>6 DEF Ends, MailTypes, CallBecomes, EndedAs
  <2>2. c.got = NoMail
    <3>1. c.got # NoMail => c.verb \in {"read", "reply"}
      BY <1>1, CallIs
    <3> QED
      BY <1>3, <3>1
  <2> QED
    BY <2>1, <2>2
<1>9. /\ mcall'[a] = new /\ listed'[a] = l
      /\ \A b \in MailAgents \ {a} : mcall'[b] = mcall[b] /\ listed'[b] = listed[b]
      /\ MailTypes'
  BY <1>3, <1>4, <1>5, <1>7, <1>8 DEF MailTypes, CallBecomes
<1>10. ClientTypes'
  BY <1>3, <1>7, <1>8, ActionClients DEF ClientsGoOn, ClientTypes
<1>11. MailsAreThemselves'
  BY <1>3 DEF MailInv, MailsAreThemselves
<1>12. ASSUME NEW b \in MailAgents
       PROVE  (/\ IdsArePlaces(b) /\ SelectedIsKnown(b) /\ ReadsWhatWasListed(b)
               /\ NothingIsSentYet(b))'
  <2>1. CASE b = a
    BY <2>1, <1>3, <1>5, <1>7, <1>8, <1>9
       DEF IdsArePlaces, SelectedIsKnown, ReadsWhatWasListed, NothingIsSentYet, At, IsAt
  <2>2. CASE b # a
    <3>1. mcall'[b] = mcall[b] /\ listed'[b] = listed[b] /\ delivered'[b] = delivered[b]
      BY <1>3, <1>9, <2>2
    <3> QED
      BY <1>3, <3>1 DEF MailInv, IdsArePlaces, SelectedIsKnown, ReadsWhatWasListed,
         NothingIsSentYet, At, IsAt, IsStartOf
  <2> QED
    BY <2>1, <2>2
<1>13. IdsNameTheirMail'
  BY <1>3, <1>7, <1>8, <1>9 DEF MailInv, IdsNameTheirMail
<1>14. SendsAreTold'
  BY <1>3, <1>7, <1>9 DEF MailInv, SendsAreTold
<1> QED
  BY <1>9, <1>10, <1>11, <1>12, <1>13, <1>14 DEF MailInv

LEMMA GmailStep ==
  ASSUME MailTypes, ClientTypes, MailInv, [GmailNext]_mailVars
  PROVE  MailTypes' /\ ClientTypes' /\ MailInv'
<1>1. CASE UNCHANGED mailVars
  <2>1. MailStays /\ UNCHANGED <<password, token, logins, clients, current, connects>>
    BY <1>1 DEF mailVars, MailStays, account, server
  <2>2. ClientTypes'
    BY <2>1 DEF ClientTypes, MailStays, At
  <2> QED
    BY <2>1, <2>2, MailStaysKept
<1>2. ASSUME NEW m \in Mails, MailArrives(m) \/ MailGoes(m)
      PROVE  MailTypes' /\ ClientTypes' /\ MailInv'
  BY <1>2, ArrivesKeeps, GoesKeeps
<1>3. CASE WebStep \/ \E s \in open : ConnectionBreaks(s)
  BY <1>3, WebKeeps
<1>4. ASSUME NEW a \in MailAgents, MailStep(a) \/ \E verb \in {"list", "read", "reply", "send"} :
                                                  Take(a, verb)
      PROVE  MailTypes' /\ ClientTypes' /\ MailInv'
  <2>1. CASE Lists(a)
    BY <2>1, ListKeeps
  <2>2. CASE ~Lists(a)
    <3>1. Acts(a)
      BY <1>4, <2>2, TakeActs, LockActs, ReconnectActs, SelectActs, SelectFailureActs, ReadActs,
         FetchFailureActs, SendActs DEF MailStep
    <3> QED
      BY <3>1, ActsKeep
  <2> QED
    BY <2>1, <2>2
<1> QED
  BY <1>1, <1>2, <1>3, <1>4 DEF GmailNext

\* For any number of mails, runs, calls and events: an id that a listing gave
\* names its mail when it is read or answered, unless a mail before it was
\* deleted and the ids are positions; and a message that is reported as sent
\* was delivered once (gmail/client.py: _select, _fetch_messages, read, send;
\* gmail_actions.py).
THEOREM GmailStaysSafe == GmailSpec => []GmailSafe
<1>1. MailInv => GmailSafe
  BY DEF MailInv, GmailSafe
<1> QED
  BY <1>1, GmailStart, GmailStep, PTL DEF GmailSpec

-----------------------------------------------------------------------------
(* Telegram's tools.                                                       *)

DirectoryTypes ==
    /\ dialogs \in Seq(Peers) /\ IsInjective(dialogs) /\ contacts \subseteq Peers
    /\ title \in [Peers -> Words] /\ unread \in [Peers -> {0, 1}]

TelegramCalls ==
    [at : {"asking", "open", "scan", "contacts", "request", "report"}, kind : ToolKinds,
     name : Accounts \cup {NoAccount}, asked : BOOLEAN, texts : Seq(Targets),
     through : Accounts \cup {NoAccount}, next : Nat, found : SUBSET (Nat \X Peers),
     seen : SUBSET Peers, report : Seq({"done", "failed"})]

TelegramActs ==
    [n : Nat, target : Targets, kind : ToolKinds, peer : Peers, seen : SUBSET Peers,
     through : Accounts \cup {NoAccount}, asked : BOOLEAN]

Orders == {"", "unread"}

PageWalks ==
    {NoPages} \cup [at : {"more", "end"}, sort : Orders, only : BOOLEAN,
                    shown : Seq(Peers), offset : Nat, since : Nat]

TelegramTypes ==
    /\ DirectoryTypes /\ active \in Accounts /\ confirm \in [Accounts -> BOOLEAN]
    /\ tool \in TelegramCalls \cup {NoTool}
    /\ acts \in Seq(TelegramActs)
    /\ pages \in PageWalks /\ changes \in Nat

\* Where a call is: its targets differ, and those before the next are reported.
AtItsTarget ==
    IF tool = NoTool THEN acts = <<>>
    ELSE /\ Len(tool.texts) >= 1
         /\ tool.at \in {"asking", "open"} => acts = <<>> /\ tool.report = <<>> /\ tool.next = 1
         /\ tool.at \in {"scan", "contacts", "request", "report"} =>
              /\ IsInjective(tool.texts) /\ Len(tool.texts) <= MaxBulk
              /\ Len(tool.report) = tool.next - 1
              /\ IF tool.at = "report" THEN tool.next = Len(tool.texts) + 1
                 ELSE tool.next \in 1..Len(tool.texts)
         /\ tool.at = "request" => tool.found # {}

\* What was done is for one of the targets before, and in their order.
ActsAreReported ==
    tool # NoTool =>
      /\ Len(acts) <= Len(tool.report)
      /\ \A i \in 1..Len(acts) :
           acts[i].n \in 1..Len(tool.report) /\ acts[i].target = tool.texts[acts[i].n]
      /\ \A i, j \in 1..Len(acts) : i < j => acts[i].n < acts[j].n
      /\ tool.kind # "read" =>
           \A n \in 1..Len(tool.report) :
             tool.report[n] = "done" => \E i \in 1..Len(acts) : acts[i].n = n

\* What a call has found is still so, as long as nothing has changed.
FindsTheMeant ==
    changes = 0 =>
      /\ tool.at = "contacts" =>
           /\ tool.seen = IF tool.kind # "contact" THEN ToSet(dialogs) ELSE {}
           /\ tool.found = IF Target.form = "name" /\ tool.kind # "contact"
                           THEN Found(Target.key, ToSet(dialogs)) ELSE {}
      /\ tool.at = "request" =>
           \A c \in tool.found : Meant(Target, c[2], tool.seen)
      /\ RecipientIsMeant

\* The pages that are shown are the first of the list.
PagesAreFirst ==
    pages # NoPages =>
      /\ pages.since <= changes
      /\ pages.since = changes =>
           LET all == Chats(pages.sort, pages.only) IN
           /\ pages.offset \in 0..Len(all) /\ pages.shown = SubSeq(all, 1, pages.offset)
           /\ pages.at = "end" => pages.offset = Len(all)

ToolsInv == TelegramTypes /\ AtItsTarget /\ ActsAreReported /\ FindsTheMeant /\ PagesAreFirst

-----------------------------------------------------------------------------
(* Numbers, and places of lists.                                           *)

\* A set of numbers has a least one: of the intervals up to its numbers one
\* contains no other.
LEMMA LeastNumber ==
  ASSUME NEW T \in SUBSET Nat, T # {}
  PROVE  \E x \in T : \A y \in T : x <= y
<1> DEFINE U == {0..k : k \in T}
<1>1. U \subseteq FiniteSubsetsOf(Nat)
  <2> SUFFICES ASSUME NEW k \in T PROVE 0..k \in FiniteSubsetsOf(Nat)
    OBVIOUS
  <2>1. IsFiniteSet(0..k) /\ 0..k \in SUBSET Nat
    BY FS_Interval
  <2> QED
    BY <2>1 DEF FiniteSubsetsOf
<1>2. U # {}
  OBVIOUS
<1>3. PICK u \in U : \A w \in U : ~(<<w, u>> \in StrictSubsetOrdering(Nat))
  <2>1. IsWellFoundedOn(StrictSubsetOrdering(Nat), FiniteSubsetsOf(Nat))
    BY FS_StrictSubsetOrderingWellFounded
  <2> HIDE DEF U
  <2> QED
    BY <1>1, <1>2, <2>1, WFMin
<1>4. PICK x \in T : u = 0..x
  OBVIOUS
<1>5. ASSUME NEW y \in T, y < x PROVE FALSE
  <2>1. 0..y \in SUBSET Nat /\ 0..x \in SUBSET Nat /\ 0..y \subseteq 0..x
    BY <1>5
  <2>2. x \in 0..x /\ x \notin 0..y
    BY <1>5
  <2>3. 0..y # 0..x
    BY <2>2
  <2>4. <<0..y, 0..x>> \in StrictSubsetOrdering(Nat)
    BY <2>1, <2>3 DEF StrictSubsetOrdering
  <2>5. 0..y \in U
    OBVIOUS
  <2> QED
    BY <1>3, <1>4, <2>4, <2>5
<1> QED
  BY <1>5

LEMMA MinIs ==
  ASSUME NEW T \in SUBSET Nat, T # {}
  PROVE  Min(T) \in T /\ \A y \in T : Min(T) <= y
BY LeastNumber DEF Min

LEMMA AscendingIs ==
  ASSUME NEW n \in Nat, NEW places \in SUBSET (1..n)
  PROVE  /\ IsFiniteSet(places) /\ Cardinality(places) \in Nat
         /\ Ascending(places) \in [1..Cardinality(places) -> places]
         /\ \A i, j \in 1..Cardinality(places) : i < j => Ascending(places)[i] < Ascending(places)[j]
<1> DEFINE Up(k) == places \cap (1..k)
           Goes(k, f) == /\ f \in [1..Cardinality(Up(k)) -> Up(k)]
                         /\ \A i, j \in 1..Cardinality(Up(k)) : i < j => f[i] < f[j]
           Bad == {k \in 0..n : \A f : ~Goes(k, f)}
<1>1. ASSUME NEW k \in 0..n PROVE IsFiniteSet(Up(k)) /\ Cardinality(Up(k)) \in Nat
  <2>1. IsFiniteSet(1..k)
    BY FS_Interval
  <2>2. IsFiniteSet(Up(k))
    BY <2>1, FS_Intersection
  <2> QED
    BY <2>2, FS_CardinalityType
<1>2. 0 \notin Bad
  <2>1. Up(0) = {} /\ Cardinality(Up(0)) = 0
    BY FS_EmptySet
  <2> DEFINE f == [i \in {} |-> i]
  <2>2. 1..0 = {}
    OBVIOUS
  <2>3. Goes(0, f)
    <3>1. f \in [{} -> Up(0)]
      OBVIOUS
    <3> QED
      BY <2>1, <2>2, <3>1
  <2> QED
    BY <2>3
<1>3. ASSUME NEW k \in 1..n, k - 1 \notin Bad PROVE k \notin Bad
  <2> DEFINE c == Cardinality(Up(k - 1))
  <2>1. k - 1 \in 0..n /\ k \in 0..n
    OBVIOUS
  <2>2. PICK f : Goes(k - 1, f)
    BY <1>3, <2>1
  <2>3. IsFiniteSet(Up(k - 1)) /\ c \in Nat
    BY <1>1, <2>1
  <2>4. \A x \in Up(k - 1) : x \in Nat /\ x < k
    BY <2>1
  <2>5. CASE k \notin places
    <3>1. Up(k) = Up(k - 1)
      BY <2>5
    <3>2. Goes(k, f)
      BY <2>2, <3>1
    <3> QED
      BY <3>2
  <2>6. CASE k \in places
    <3>1. Up(k) = Up(k - 1) \cup {k} /\ k \notin Up(k - 1)
      BY <2>6
    <3> DEFINE g == [i \in 1..(c + 1) |-> IF i <= c THEN f[i] ELSE k]
    <3>2. f \in [1..c -> Up(k - 1)] /\ \A i, j \in 1..c : i < j => f[i] < f[j]
      BY <2>2
    <3> HIDE DEF Up, c
    <3>3. Cardinality(Up(k)) = c + 1
      BY <2>3, <3>1, FS_AddElement DEF c
    <3>4. g \in [1..(c + 1) -> Up(k)]
      BY <2>3, <3>1, <3>2
    <3>5. \A i, j \in 1..(c + 1) : i < j => g[i] < g[j]
      <4> SUFFICES ASSUME NEW i \in 1..(c + 1), NEW j \in 1..(c + 1), i < j PROVE g[i] < g[j]
        OBVIOUS
      <4>1. i \in 1..c /\ g[i] = f[i] /\ f[i] \in Up(k - 1)
        BY <2>3, <3>2
      <4>2. CASE j \in 1..c
        BY <2>3, <3>2, <4>1, <4>2
      <4>3. CASE j = c + 1
        <5>1. g[j] = k
          BY <2>3, <4>3
        <5> QED
          BY <2>4, <4>1, <5>1
      <4> QED
        BY <2>3, <4>2, <4>3
    <3>6. Goes(k, g)
      BY <3>3, <3>4, <3>5
    <3> QED
      BY <3>6
  <2> QED
    BY <2>5, <2>6
<1>4. n \notin Bad
  <2> SUFFICES ASSUME Bad # {} PROVE FALSE
    OBVIOUS
  <2>1. Bad \in SUBSET Nat
    OBVIOUS
  <2>2. PICK k \in Bad : \A j \in Bad : k <= j
    <3> HIDE DEF Bad
    <3> QED
      BY <2>1, LeastNumber
  <2>3. k \in 0..n
    OBVIOUS
  <2> HIDE DEF Bad
  <2>4. k # 0 /\ k \in 1..n
    BY <1>2, <2>3
  <2>5. k - 1 \notin Bad
    BY <2>2, <2>4
  <2> QED
    BY <1>3, <2>4, <2>5
<1>5. Up(n) = places
  OBVIOUS
<1>6. \E f : Goes(n, f)
  <2>1. n \in 0..n
    OBVIOUS
  <2> HIDE DEF Goes
  <2> QED
    BY <1>4, <2>1
<1>7. IsFiniteSet(places) /\ Cardinality(places) \in Nat
  BY <1>1, <1>5
<1>8. \E f \in [1..Cardinality(places) -> places] :
        \A i, j \in 1..Cardinality(places) : i < j => f[i] < f[j]
  <2>1. PICK f : Goes(n, f)
    BY <1>6
  <2> QED
    BY <1>5, <2>1
<1> HIDE DEF Up, Goes, Bad
<1> QED
  BY <1>7, <1>8 DEF Ascending

LEMMA PickedIs ==
  ASSUME NEW S, NEW list \in Seq(S), NEW places \in SUBSET DOMAIN list
  PROVE  /\ Picked(list, places) \in Seq(S) /\ Len(Picked(list, places)) = Cardinality(places)
         /\ IsFiniteSet(places) /\ Cardinality(places) \in Nat
         /\ \A k \in 1..Cardinality(places) : \E i \in places : Picked(list, places)[k] = list[i]
         /\ IsInjective(list) => IsInjective(Picked(list, places))
<1> DEFINE c == Cardinality(places)
           order == Ascending(places)
<1>1. /\ IsFiniteSet(places) /\ c \in Nat /\ order \in [1..c -> places]
      /\ \A i, j \in 1..c : i < j => order[i] < order[j]
  <2>1. DOMAIN list = 1..Len(list) /\ Len(list) \in Nat
    BY LenProperties
  <2> QED
    BY <2>1, AscendingIs
<1>2. Picked(list, places) = [k \in 1..c |-> list[order[k]]]
  BY DEF Picked
<1>3. \A k \in 1..c : order[k] \in places /\ order[k] \in DOMAIN list /\ list[order[k]] \in S
  <2>1. \A i \in DOMAIN list : list[i] \in S
    BY ElementOfSeq, LenProperties
  <2> QED
    BY <1>1, <2>1
<1>4. places \subseteq Nat
  BY LenProperties
<1> HIDE DEF c, order
<1>5. Picked(list, places) \in [1..c -> S]
  BY <1>2, <1>3
<1>6. Picked(list, places) \in Seq(S) /\ Len(Picked(list, places)) = c
  BY <1>1, <1>5
<1>7. ASSUME IsInjective(list) PROVE IsInjective(Picked(list, places))
  <2> SUFFICES ASSUME NEW i \in 1..c, NEW j \in 1..c, Picked(list, places)[i] = Picked(list, places)[j]
               PROVE  i = j
    BY <1>2 DEF IsInjective
  <2>1. order[i] = order[j]
    BY <1>2, <1>3, <1>7 DEF IsInjective
  <2>2. order[i] \in Nat /\ order[j] \in Nat
    BY <1>3, <1>4
  <2>3. ~(i < j) /\ ~(j < i)
    BY <1>1, <2>1, <2>2
  <2> QED
    BY <1>1, <2>3
<1> QED
  BY <1>1, <1>2, <1>3, <1>6, <1>7 DEF c

\* The targets of a call, each once: the first of them is there in any case.
LEMMA ValidatedIs ==
  ASSUME NEW texts \in Seq(Targets), Len(texts) >= 1
  PROVE  /\ ValidatedTargets(texts) \in Seq(Targets) /\ IsInjective(ValidatedTargets(texts))
         /\ Len(ValidatedTargets(texts)) >= 1
<1> DEFINE firsts == {i \in DOMAIN texts : \A j \in 1..(i - 1) : texts[j] # texts[i]}
           new == Picked(texts, firsts)
<1>1. Len(texts) \in Nat /\ DOMAIN texts = 1..Len(texts)
  BY LenProperties
<1>2. firsts \in SUBSET DOMAIN texts
  OBVIOUS
<1>3. \A i, j \in firsts : i < j => texts[i] # texts[j]
  BY <1>1
<1>4. 1 \in firsts
  BY <1>1
<1> HIDE DEF firsts
<1>5. /\ new \in Seq(Targets) /\ Len(new) = Cardinality(firsts)
      /\ IsFiniteSet(firsts) /\ Cardinality(firsts) \in Nat
  BY <1>2, PickedIs
<1>6. Cardinality(firsts) # 0
  BY <1>4, <1>5, FS_EmptySet
<1>7. IsInjective(new)
  <2> DEFINE order == Ascending(firsts)
             c == Cardinality(firsts)
  <2>1. order \in [1..c -> firsts] /\ \A i, j \in 1..c : i < j => order[i] < order[j]
    BY <1>1, <1>2, AscendingIs
  <2>2. new = [k \in 1..c |-> texts[order[k]]]
    BY DEF Picked
  <2> HIDE DEF order, c, new
  <2> SUFFICES ASSUME NEW i \in 1..c, NEW j \in 1..c, new[i] = new[j] PROVE i = j
    BY <2>2 DEF IsInjective
  <2>3. order[i] \in firsts /\ order[j] \in firsts /\ texts[order[i]] = texts[order[j]]
    BY <2>1, <2>2
  <2>4. ~(order[i] < order[j]) /\ ~(order[j] < order[i])
    BY <1>3, <2>3
  <2>5. ~(i < j) /\ ~(j < i)
    BY <2>1, <2>4
  <2>6. i \in Nat /\ j \in Nat
    BY <1>5 DEF c
  <2> QED
    BY <2>5, <2>6
<1>8. ValidatedTargets(texts) = new
  BY DEF ValidatedTargets, firsts
<1> HIDE DEF new
<1>9. Len(new) >= 1
  BY <1>5, <1>6
<1> QED
  BY <1>5, <1>7, <1>8, <1>9

LEMMA ChatsIs ==
  ASSUME DirectoryTypes, NEW sort, NEW only
  PROVE  Chats(sort, only) \in Seq(Peers)
<1> DEFINE where(counts) == {i \in DOMAIN dialogs : unread[dialogs[i]] \in counts}
           matching == IF only THEN {1} ELSE {0, 1}
<1>1. dialogs \in Seq(Peers)
  BY DEF DirectoryTypes
<1>2. ASSUME NEW counts PROVE Picked(dialogs, where(counts)) \in Seq(Peers)
  <2>1. where(counts) \in SUBSET DOMAIN dialogs
    OBVIOUS
  <2> HIDE DEF where
  <2> QED
    BY <1>1, <2>1, PickedIs
<1>3. Chats(sort, only) =
        IF sort = "unread"
        THEN Picked(dialogs, where({1})) \o Picked(dialogs, where(matching \ {1}))
        ELSE Picked(dialogs, where(matching))
  BY DEF Chats
<1> HIDE DEF where, matching
<1>4. Picked(dialogs, where({1})) \o Picked(dialogs, where(matching \ {1})) \in Seq(Peers)
  BY <1>2, ConcatProperties
<1> QED
  BY <1>2, <1>3, <1>4

-----------------------------------------------------------------------------
(* Whom a target means.                                                    *)

LEMMA RankIs ==
  ASSUME NEW w, NEW p
  PROVE  /\ Rank(w, p) \in 0..4
         /\ Rank(w, p) = 0 <=> HasUsername(p, w)
         /\ ~HasUsername(p, w) => (Rank(w, p) = 1 <=> w = title[p])
<1> DEFINE Ways == <<HasUsername(p, w), w = title[p], UsernameHas(p, w), Within(w, title[p])>>
           T == {4} \cup {r \in 0..3 : Ways[r + 1]}
<1>1. 0 \in T <=> HasUsername(p, w)
  OBVIOUS
<1>2. 1 \in T <=> w = title[p]
  <2>1. Ways[2] <=> w = title[p]
    OBVIOUS
  <2> HIDE DEF Ways
  <2>2. 1 \in T <=> Ways[2]
    OBVIOUS
  <2> QED
    BY <2>1, <2>2
<1>3. T \in SUBSET (0..4) /\ T # {}
  OBVIOUS
<1>4. Rank(w, p) = Min(T)
  BY DEF Rank
<1> HIDE DEF Ways, T
<1>5. Min(T) \in T /\ \A y \in T : Min(T) <= y
  <2>1. T \in SUBSET Nat /\ T # {}
    BY <1>3
  <2> QED
    BY <2>1, MinIs
<1>6. Min(T) \in 0..4
  BY <1>3, <1>5
<1>7. Min(T) = 0 <=> 0 \in T
  BY <1>5, <1>6
<1>8. 0 \notin T => (Min(T) = 1 <=> 1 \in T)
  BY <1>5, <1>6
<1> QED
  BY <1>1, <1>2, <1>4, <1>6, <1>7, <1>8

LEMMA OnlyOne ==
  ASSUME NEW P \in SUBSET Peers, Cardinality(P) = 1, NEW p \in P
  PROVE  P = {p}
<1>1. IsFiniteSet(P)
  BY ToolsAssumption, FS_Subset
<1> QED
  BY <1>1, FS_Singleton

\* Whoever fits best is the one who is meant, if there is just one.
LEMMA ResolvedIsMeant ==
  ASSUME NEW target, target.form = "name", NEW known \in SUBSET Peers,
         NEW p \in Resolved(target.key, Found(target.key, known))
  PROVE  Meant(target, p, known)
<1> DEFINE w == target.key
           candidates == Found(w, known)
           best == Min({c[1] : c \in candidates})
           fit == BestFit(candidates)
           named == {q \in known : HasUsername(q, w)}
           titled == {q \in known : title[q] = w}
<1>1. /\ \A c \in candidates : c[1] \in 0..3 /\ c[2] \in known /\ c[1] = Rank(w, c[2])
      /\ \A q \in known : Rank(w, q) \in 0..3 => <<Rank(w, q), q>> \in candidates
  BY DEF Found
<1>2. \A q \in known : /\ Rank(w, q) \in 0..4
                       /\ Rank(w, q) = 0 <=> q \in named
                       /\ q \notin named => (Rank(w, q) = 1 <=> q \in titled)
  BY RankIs
<1> HIDE DEF candidates
<1>3. CASE candidates = {}
  <2>1. \A q \in known : q \notin named /\ q \notin titled
    BY <1>1, <1>2, <1>3
  <2> QED
    BY <2>1 DEF Meant
<1>4. CASE candidates # {}
  <2>1. fit = {c[2] : c \in {d \in candidates : d[1] = best}}
    BY DEF BestFit
  <2>2. best \in {c[1] : c \in candidates} /\ \A c \in candidates : best <= c[1]
    <3> DEFINE T == {c[1] : c \in candidates}
    <3>1. T \in SUBSET Nat /\ T # {}
      BY <1>1, <1>4
    <3>2. \A c \in candidates : c[1] \in T
      OBVIOUS
    <3> HIDE DEF T
    <3>3. Min(T) \in T /\ \A y \in T : Min(T) <= y
      BY <3>1, MinIs
    <3> QED
      BY <3>2, <3>3 DEF T
  <2> HIDE DEF best, fit
  <2>3. \A q : q \in fit <=> \E c \in candidates : c[1] = best /\ c[2] = q
    BY <2>1
  <2>4. fit \in SUBSET Peers /\ fit \in SUBSET known
    BY <1>1, <2>3
  <2>5. p \in fit /\ Cardinality(fit) = 1
    <3>1. p \in Resolved(w, candidates)
      BY DEF candidates
    <3>2. fit = BestFit(candidates)
      BY DEF fit
    <3> QED
      BY <1>4, <3>1, <3>2 DEF Resolved
  <2>6. fit = {p}
    BY <2>4, <2>5, OnlyOne
  <2>7. Rank(w, p) = best
    BY <1>1, <2>3, <2>5
  <2>8. ASSUME named # {} PROVE p \in named
    <3>1. PICK q \in known : Rank(w, q) = 0
      BY <1>2, <2>8
    <3>2. <<0, q>> \in candidates
      BY <1>1, <3>1
    <3>3. best <= 0 /\ best \in 0..3
      BY <1>1, <2>2, <3>2
    <3>4. best = 0
      BY <3>3
    <3> QED
      BY <1>2, <2>4, <2>5, <2>7, <3>4
  <2>9. ASSUME named = {}, titled # {} PROVE titled = {p}
    <3>1. PICK q \in titled : TRUE
      BY <2>9
    <3>2. \A x \in known : x \in titled <=> Rank(w, x) = 1
      BY <1>2, <2>9
    <3>3. \A x \in titled : x \in known /\ <<1, x>> \in candidates
      BY <1>1, <3>2
    <3>4. best <= 1 /\ best \in 0..3
      BY <1>1, <2>2, <3>1, <3>3
    <3>5. best # 0
      BY <1>2, <2>4, <2>5, <2>7, <2>9
    <3>6. best = 1
      BY <3>4, <3>5
    <3>7. titled \subseteq fit
      BY <2>3, <3>3, <3>6
    <3> QED
      BY <2>6, <3>1, <3>7
  <2> QED
    BY <2>8, <2>9 DEF Meant
<1> QED
  BY <1>3, <1>4

LEMMA ContactIsMeant ==
  ASSUME DirectoryTypes, NEW target, NEW p \in Contact(target.key)
  PROVE  p \in contacts /\ Meant(target, p, contacts)
<1> DEFINE w == target.key
           exact == {q \in contacts : Rank(w, q) \in {0, 1}}
           partial == {q \in contacts : Rank(w, q) \in {2, 3}}
           fit == IF exact # {} THEN exact ELSE partial
           named == {q \in contacts : HasUsername(q, w)}
           titled == {q \in contacts : title[q] = w}
<1>1. p \in fit /\ Cardinality(fit) = 1
  BY DEF Contact
<1>2. fit \in SUBSET Peers
  BY DEF DirectoryTypes
<1>3. named \subseteq exact /\ titled \subseteq exact
  BY RankIs
<1> HIDE DEF named, titled
<1>4. fit = {p}
  <2> HIDE DEF fit
  <2> QED
    BY <1>1, <1>2, OnlyOne
<1>5. named # {} => p \in named
  BY <1>3, <1>4
<1>6. titled # {} => titled = {p}
  BY <1>3, <1>4
<1>7. p \in contacts
  BY <1>1
<1> QED
  BY <1>5, <1>6, <1>7 DEF Meant, named, titled

LEMMA EntityIsMeant ==
  ASSUME NEW target, target.form = "username", NEW p \in GetEntity(target.key), NEW known
  PROVE  Meant(target, p, known)
BY ToolsAssumption DEF Meant, GetEntity, HasUsername, IsInjective

-----------------------------------------------------------------------------
(* A call of a tool.                                                       *)

LEMMA ToolsInvInit == ToolsInit => ToolsInv
<1> SUFFICES ASSUME ToolsInit PROVE ToolsInv
  OBVIOUS
<1>1. TelegramTypes
  BY ToolsAssumption DEF ToolsInit, TelegramTypes, DirectoryTypes, PageWalks
<1>2. AtItsTarget /\ ActsAreReported /\ PagesAreFirst
  BY DEF ToolsInit, AtItsTarget, ActsAreReported, PagesAreFirst
<1>3. FindsTheMeant
  BY DEF ToolsInit, FindsTheMeant, NoTool, RecipientIsMeant
<1> QED
  BY <1>1, <1>2, <1>3 DEF ToolsInv

LEMMA CallsAreNotIdle ==
  /\ NoTool \notin TelegramCalls
  /\ TelegramTypes /\ tool.at # "idle" => tool \in TelegramCalls
BY DEF NoTool, TelegramCalls, TelegramTypes

\* The lists stay as they are where neither they nor the directory changes.
LEMMA ListsStand ==
  ASSUME PagesAreFirst, UNCHANGED <<dialogs, unread, pages, changes>>
  PROVE  PagesAreFirst'
BY DEF PagesAreFirst, Chats

LEMMA InvokeKeeps ==
  ASSUME ToolsInv, NEW kind \in ToolKinds, NEW name \in Accounts \cup {NoAccount},
         NEW texts \in Seq(Targets), Len(texts) >= 1, Invoke(kind, name, texts)
  PROVE  ToolsInv'
<1> USE DEF ToolsInv
<1>1. acts = <<>> /\ acts' = <<>>
  BY DEF Invoke, AtItsTarget
<1>2. tool' \in TelegramCalls
  <2>1. AccountOf(name) \in Accounts
    BY DEF AccountOf, TelegramTypes
  <2>2. Asks(kind, name) \in BOOLEAN
    BY <2>1 DEF Asks, ToolKinds, TelegramTypes
  <2> QED
    BY <2>2 DEF Invoke, TelegramCalls
<1>3. /\ tool'.at \in {"asking", "open"} /\ tool'.texts = texts /\ tool'.report = <<>>
      /\ tool'.next = 1
  BY DEF Invoke
<1>4. TelegramTypes'
  BY <1>2 DEF Invoke, directory, accountSettings, TelegramTypes, DirectoryTypes
<1>5. AtItsTarget' /\ ActsAreReported'
  BY <1>1, <1>3 DEF AtItsTarget, ActsAreReported
<1>6. FindsTheMeant'
  BY <1>1, <1>3 DEF FindsTheMeant, RecipientIsMeant
<1>7. PagesAreFirst'
  BY ListsStand DEF Invoke, directory
<1> QED
  BY <1>4, <1>5, <1>6, <1>7

LEMMA AnswerToolKeeps ==
  ASSUME ToolsInv, NEW yes \in BOOLEAN, AnswerTool(yes)
  PROVE  ToolsInv'
<1> USE DEF ToolsInv
<1>1. tool \in TelegramCalls /\ tool # NoTool /\ tool.at = "asking"
  BY CallsAreNotIdle DEF AnswerTool
<1>2. acts = <<>> /\ acts' = <<>>
  BY <1>1 DEF AnswerTool, AtItsTarget
<1>3. \/ tool' = NoTool
      \/ /\ tool' \in TelegramCalls /\ tool'.at = "open" /\ tool'.texts = tool.texts
         /\ tool'.report = tool.report /\ tool'.kind = tool.kind /\ tool'.next = tool.next
  BY <1>1 DEF AnswerTool, TelegramCalls
<1>4. TelegramTypes'
  BY <1>3 DEF AnswerTool, directory, accountSettings, TelegramTypes, DirectoryTypes
<1>5. AtItsTarget'
  BY <1>1, <1>2, <1>3 DEF AtItsTarget
<1>6. ActsAreReported'
  BY <1>1, <1>2, <1>3 DEF ActsAreReported
<1>7. FindsTheMeant'
  BY <1>2, <1>3 DEF FindsTheMeant, RecipientIsMeant, NoTool
<1>8. PagesAreFirst'
  BY ListsStand DEF AnswerTool, directory
<1> QED
  BY <1>4, <1>5, <1>6, <1>7, <1>8

LEMMA OpenClientKeeps ==
  ASSUME ToolsInv, OpenClient
  PROVE  ToolsInv'
<1> USE DEF ToolsInv
<1> DEFINE texts == ValidatedTargets(tool.texts)
<1>1. tool \in TelegramCalls /\ tool # NoTool /\ tool.at = "open"
  BY CallsAreNotIdle DEF OpenClient
<1>2. acts = <<>> /\ acts' = <<>>
  BY <1>1 DEF OpenClient, AtItsTarget
<1>3. texts \in Seq(Targets) /\ IsInjective(texts) /\ Len(texts) >= 1
  <2>1. tool.texts \in Seq(Targets) /\ Len(tool.texts) >= 1
    BY <1>1 DEF AtItsTarget, TelegramCalls
  <2> QED
    BY <2>1, ValidatedIs
<1> HIDE DEF texts
<1>4. CASE Len(texts) > MaxBulk
  <2>1. tool' = NoTool
    BY <1>4 DEF OpenClient, texts
  <2> QED
    BY <1>2, <2>1, ListsStand
    DEF OpenClient, directory, accountSettings, TelegramTypes, DirectoryTypes, AtItsTarget,
        ActsAreReported, FindsTheMeant, RecipientIsMeant, NoTool
<1>5. CASE ~(Len(texts) > MaxBulk)
  <2>1. tool' = [tool EXCEPT !.at = "scan", !.through = AccountOf(tool.name), !.texts = texts]
    BY <1>5 DEF OpenClient, texts
  <2>2. AccountOf(tool.name) \in Accounts \cup {NoAccount}
    BY <1>1 DEF AccountOf, TelegramCalls, TelegramTypes
  <2>3. tool' \in TelegramCalls
    BY <1>1, <1>3, <2>1, <2>2 DEF TelegramCalls
  <2>4. tool'.at = "scan" /\ tool'.texts = texts /\ tool'.report = tool.report
        /\ tool'.next = tool.next /\ tool'.kind = tool.kind /\ tool' # NoTool
    BY <1>1, <2>1, <2>3, CallsAreNotIdle DEF TelegramCalls
  <2>5. tool.report = <<>> /\ tool.next = 1
    BY <1>1 DEF AtItsTarget
  <2>6. Len(texts) \in Nat /\ Len(texts) <= MaxBulk
    BY <1>3, <1>5, ToolsAssumption
  <2>7. TelegramTypes'
    BY <2>3 DEF OpenClient, directory, accountSettings, TelegramTypes, DirectoryTypes
  <2>8. AtItsTarget'
    BY <1>2, <1>3, <2>4, <2>5, <2>6 DEF AtItsTarget
  <2>9. ActsAreReported'
    BY <1>2, <2>4, <2>5 DEF ActsAreReported
  <2>10. FindsTheMeant'
    BY <1>2, <2>4 DEF FindsTheMeant, RecipientIsMeant
  <2> QED
    BY <2>7, <2>8, <2>9, <2>10, ListsStand DEF OpenClient, directory
<1> QED
  BY <1>4, <1>5

\* The target of a call at work is one of its targets.
LEMMA TargetIs ==
  ASSUME TelegramTypes, AtItsTarget, tool.at \in {"scan", "contacts", "request"}
  PROVE  /\ tool \in TelegramCalls /\ tool # NoTool /\ Target \in Targets
         /\ Target.form \in {"name", "username"}
         /\ Len(tool.texts) \in Nat /\ tool.next \in 1..Len(tool.texts)
<1>1. tool \in TelegramCalls /\ tool # NoTool
  BY CallsAreNotIdle
<1>2. tool.texts \in Seq(Targets) /\ tool.next \in 1..Len(tool.texts)
  BY <1>1 DEF TelegramCalls, AtItsTarget
<1>3. Len(tool.texts) \in Nat /\ Target \in Targets
  BY <1>2, ElementOfSeq, LenProperties DEF Target
<1> QED
  BY <1>1, <1>2, <1>3 DEF Targets

\* The report of a target: the call stands at the next one, or at its end.
LEMMA NextTargetIs ==
  ASSUME TelegramTypes, AtItsTarget, tool.at \in {"contacts", "request"},
         NEW outcome \in {"done", "failed"}, tool' = NextTarget(outcome)
  PROVE  /\ tool' \in TelegramCalls /\ tool' # NoTool /\ AtItsTarget'
         /\ tool'.at \in {"scan", "report"}
         /\ tool'.texts = tool.texts /\ tool'.kind = tool.kind
         /\ Len(tool.report) \in Nat /\ tool.next = Len(tool.report) + 1
         /\ tool.next \in 1..Len(tool.texts)
         /\ Len(tool'.report) = Len(tool.report) + 1
         /\ tool'.report[Len(tool.report) + 1] = outcome
         /\ \A n \in 1..Len(tool.report) : tool'.report[n] = tool.report[n]
<1> DEFINE said == tool.report
           new == Append(said, outcome)
<1>1. tool \in TelegramCalls /\ tool # NoTool /\ tool.next \in 1..Len(tool.texts)
      /\ Len(tool.texts) \in Nat
  BY TargetIs
<1>2. said \in Seq({"done", "failed"}) /\ tool.next \in Nat
  BY <1>1 DEF TelegramCalls
<1>3. /\ new \in Seq({"done", "failed"}) /\ Len(new) = Len(said) + 1 /\ Len(said) \in Nat
      /\ new[Len(said) + 1] = outcome /\ \A n \in 1..Len(said) : new[n] = said[n]
  BY <1>2, AppendProperties, LenProperties
<1>4. /\ tool'.report = new /\ tool'.next = tool.next + 1
      /\ tool'.at = IF tool.next = Len(tool.texts) THEN "report" ELSE "scan"
      /\ tool'.texts = tool.texts /\ tool'.kind = tool.kind
  BY <1>1 DEF NextTarget, TelegramCalls
<1> DEFINE place == IF tool.next = Len(tool.texts) THEN "report" ELSE "scan"
<1>5. tool' \in TelegramCalls
  <2>1. tool' = [tool EXCEPT !.report = new, !.next = tool.next + 1, !.found = {}, !.seen = {},
                             !.at = place]
    BY <1>1 DEF NextTarget, TelegramCalls
  <2>2. place \in {"asking", "open", "scan", "contacts", "request", "report"}
        /\ tool.next + 1 \in Nat
    BY <1>2
  <2>3. {} \in SUBSET (Nat \X Peers) /\ {} \in SUBSET Peers
    OBVIOUS
  <2> HIDE DEF new, said, place
  <2> QED
    BY <1>1, <1>3, <2>1, <2>2, <2>3 DEF TelegramCalls
<1>6. tool' # NoTool
  BY <1>5, CallsAreNotIdle
<1>7. Len(said) = tool.next - 1 /\ IsInjective(tool.texts) /\ Len(tool.texts) <= MaxBulk
  BY <1>1 DEF AtItsTarget
<1> HIDE DEF new, said
<1>8. AtItsTarget'
  <2>1. CASE tool.next = Len(tool.texts)
    BY <1>1, <1>3, <1>4, <1>6, <1>7, <2>1 DEF AtItsTarget
  <2>2. CASE tool.next # Len(tool.texts)
    BY <1>1, <1>3, <1>4, <1>6, <1>7, <2>2 DEF AtItsTarget
  <2> QED
    BY <2>1, <2>2
<1>9. tool.next = Len(said) + 1
  BY <1>1, <1>3, <1>7
<1> QED
  BY <1>1, <1>3, <1>4, <1>5, <1>6, <1>8, <1>9 DEF said

LEMMA ScanDialogsKeeps ==
  ASSUME ToolsInv, ScanDialogs
  PROVE  ToolsInv'
<1> USE DEF ToolsInv
<1> DEFINE known == IF tool.kind # "contact" THEN ToSet(dialogs) ELSE {}
           candidates == IF Target.form = "name" /\ tool.kind # "contact"
                         THEN Found(Target.key, ToSet(dialogs)) ELSE {}
<1>1. tool \in TelegramCalls /\ tool # NoTool /\ tool.at = "scan"
  BY TargetIs DEF ScanDialogs
<1>2. known \in SUBSET Peers /\ candidates \in SUBSET (Nat \X Peers)
  <2>1. \A i \in DOMAIN dialogs : dialogs[i] \in Peers
    BY ElementOfSeq, LenProperties DEF TelegramTypes, DirectoryTypes
  <2>2. ToSet(dialogs) \in SUBSET Peers
    BY <2>1 DEF ToSet
  <2> QED
    BY <2>2 DEF Found
<1>3. tool' = [tool EXCEPT !.at = "contacts", !.found = candidates, !.seen = known]
  BY DEF ScanDialogs
<1> HIDE DEF candidates, known
<1>4. tool' \in TelegramCalls
  BY <1>1, <1>2, <1>3 DEF TelegramCalls
<1>5. /\ tool'.at = "contacts" /\ tool'.found = candidates /\ tool'.seen = known
      /\ tool'.texts = tool.texts /\ tool'.next = tool.next /\ tool'.kind = tool.kind
      /\ tool'.report = tool.report /\ tool' # NoTool
  BY <1>1, <1>3, <1>4, CallsAreNotIdle DEF TelegramCalls
<1>6. UNCHANGED <<acts, changes, contacts, title, dialogs>> /\ Target' = Target
  BY <1>5 DEF ScanDialogs, Target, directory
<1>7. TelegramTypes'
  BY <1>4 DEF ScanDialogs, directory, accountSettings, TelegramTypes, DirectoryTypes
<1>8. AtItsTarget'
  BY <1>1, <1>5, <1>6 DEF AtItsTarget
<1>9. ActsAreReported'
  BY <1>1, <1>5, <1>6 DEF ActsAreReported
<1>10. FindsTheMeant'
  <2>1. RecipientIsMeant' <=> RecipientIsMeant
    BY <1>6 DEF RecipientIsMeant, Meant
  <2> QED
    BY <1>5, <1>6, <2>1 DEF FindsTheMeant, Found, Rank, known, candidates
<1> QED
  BY <1>7, <1>8, <1>9, <1>10, ListsStand DEF ScanDialogs, directory

LEMMA ScanContactsKeeps ==
  ASSUME ToolsInv, ScanContacts
  PROVE  ToolsInv'
<1> USE DEF ToolsInv
<1> DEFINE known == tool.seen \cup contacts
           who == CASE Target.form = "username" -> GetEntity(Target.key)
                    [] Target.form = "name" /\ tool.kind = "contact" -> Contact(Target.key)
                    [] Target.form = "name" /\ tool.kind # "contact" ->
                         Resolved(Target.key, tool.found \cup Found(Target.key, contacts))
<1>1. /\ tool \in TelegramCalls /\ tool # NoTool /\ tool.at = "contacts"
      /\ Target.form \in {"name", "username"}
  BY TargetIs DEF ScanContacts
<1>2. /\ UNCHANGED <<acts, changes, contacts, title, dialogs, pages>>
      /\ UNCHANGED <<directory, accountSettings>>
  BY DEF ScanContacts, directory
<1>3. RecipientIsMeant' <=> RecipientIsMeant
  BY <1>2 DEF RecipientIsMeant, Meant
<1>4. PagesAreFirst'
  BY <1>2, ListsStand DEF directory
<1>5. CASE tool' = NextTarget("failed")
  <2>1. /\ tool' \in TelegramCalls /\ tool' # NoTool /\ AtItsTarget'
        /\ tool'.at \in {"scan", "report"}
        /\ tool'.texts = tool.texts /\ tool'.kind = tool.kind
        /\ Len(tool.report) \in Nat /\ Len(tool'.report) = Len(tool.report) + 1
        /\ tool'.report[Len(tool.report) + 1] = "failed"
        /\ \A n \in 1..Len(tool.report) : tool'.report[n] = tool.report[n]
    BY <1>1, <1>5, NextTargetIs
  <2>2. TelegramTypes'
    BY <1>2, <2>1 DEF directory, accountSettings, TelegramTypes, DirectoryTypes
  <2>3. ActsAreReported'
    <3> DEFINE k == Len(tool.report)
    <3>1. Len(acts) \in Nat
      BY LenProperties DEF TelegramTypes
    <3>2. /\ Len(acts) <= k
          /\ \A i \in 1..Len(acts) : acts[i].n \in 1..k /\ acts[i].target = tool.texts[acts[i].n]
          /\ \A i, j \in 1..Len(acts) : i < j => acts[i].n < acts[j].n
          /\ tool.kind # "read" =>
               \A n \in 1..k : tool.report[n] = "done" => \E i \in 1..Len(acts) : acts[i].n = n
      BY <1>1 DEF ActsAreReported
    <3>3. \A n \in 1..(k + 1) : n \in 1..k \/ n = k + 1
      BY <2>1
    <3>4. \A n \in 1..(k + 1) : tool'.report[n] = "done" => n \in 1..k /\ tool.report[n] = "done"
      BY <2>1, <3>3
    <3>5. 1..k \subseteq 1..(k + 1) /\ Len(acts) <= k + 1
      BY <2>1, <3>1, <3>2
    <3> HIDE DEF k
    <3> QED
      BY <1>2, <2>1, <3>2, <3>4, <3>5 DEF ActsAreReported, k
  <2>4. FindsTheMeant'
    BY <1>2, <1>3, <2>1 DEF FindsTheMeant
  <2> QED
    BY <1>4, <2>1, <2>2, <2>3, <2>4
<1>6. ASSUME NEW p \in who,
             tool' = [tool EXCEPT !.at = "request", !.found = {<<Rank(Target.key, p), p>>},
                                  !.seen = @ \cup contacts]
      PROVE  ToolsInv'
  <2>1. p \in Peers
    <3>1. GetEntity(Target.key) \subseteq Peers /\ Contact(Target.key) \subseteq Peers
      BY DEF GetEntity, Contact, TelegramTypes, DirectoryTypes
    <3>2. \A c \in tool.found \cup Found(Target.key, contacts) : c[2] \in Peers
      BY <1>1 DEF Found, TelegramCalls, TelegramTypes, DirectoryTypes
    <3>3. Resolved(Target.key, tool.found \cup Found(Target.key, contacts)) \subseteq Peers
      BY <3>1, <3>2 DEF Resolved, BestFit
    <3> QED
      BY <1>1, <1>6, <3>1, <3>3
  <2>2. known \in SUBSET Peers
    BY <1>1 DEF TelegramCalls, TelegramTypes, DirectoryTypes
  <2>3. {<<Rank(Target.key, p), p>>} \in SUBSET (Nat \X Peers)
    BY <2>1, RankIs
  <2> DEFINE one == {<<Rank(Target.key, p), p>>}
  <2>4. tool' = [tool EXCEPT !.at = "request", !.found = one, !.seen = known] /\ one # {}
        /\ \A c \in one : c[2] = p
    BY <1>1, <1>6
  <2> HIDE DEF one, known
  <2>5. tool' \in TelegramCalls
    BY <1>1, <2>2, <2>3, <2>4 DEF TelegramCalls, one
  <2>6. /\ tool'.at = "request" /\ tool'.found = one /\ tool'.seen = known
        /\ tool'.texts = tool.texts /\ tool'.next = tool.next /\ tool'.kind = tool.kind
        /\ tool'.report = tool.report /\ tool' # NoTool
    BY <1>1, <2>4, <2>5, CallsAreNotIdle DEF TelegramCalls
  <2>7. Target' = Target
    BY <2>6 DEF Target
  <2>8. TelegramTypes'
    BY <1>2, <2>5 DEF directory, accountSettings, TelegramTypes, DirectoryTypes
  <2>9. AtItsTarget'
    BY <1>1, <1>2, <2>4, <2>6 DEF AtItsTarget
  <2>10. ActsAreReported'
    BY <1>1, <1>2, <2>6 DEF ActsAreReported
  <2>11. ASSUME changes = 0 PROVE Meant(Target, p, known)
    <3>1. /\ tool.seen = IF tool.kind # "contact" THEN ToSet(dialogs) ELSE {}
          /\ tool.found = IF Target.form = "name" /\ tool.kind # "contact"
                          THEN Found(Target.key, ToSet(dialogs)) ELSE {}
      BY <1>1, <2>11 DEF FindsTheMeant
    <3>2. CASE Target.form = "username"
      <4>1. p \in GetEntity(Target.key)
        BY <1>6, <3>2
      <4> QED
        BY <3>2, <4>1, EntityIsMeant
    <3>3. CASE Target.form = "name" /\ tool.kind = "contact"
      <4>1. p \in Contact(Target.key) /\ known = contacts
        BY <1>6, <3>1, <3>3 DEF known
      <4> QED
        BY <4>1, ContactIsMeant DEF TelegramTypes
    <3>4. CASE Target.form = "name" /\ tool.kind # "contact"
      <4>1. p \in Resolved(Target.key, tool.found \cup Found(Target.key, contacts))
        BY <1>6, <3>4
      <4>2. tool.found \cup Found(Target.key, contacts) = Found(Target.key, known)
        BY <3>1, <3>4 DEF known, Found
      <4> QED
        BY <2>2, <3>4, <4>1, <4>2, ResolvedIsMeant
    <3> QED
      BY <1>1, <3>2, <3>3, <3>4
  <2>12. FindsTheMeant'
    <3>1. Meant(Target, p, known) => Meant(Target, p, tool.seen)'
      BY <1>2, <2>6, <2>7 DEF Meant
    <3> QED
      BY <1>2, <1>3, <2>4, <2>6, <2>7, <2>11 DEF FindsTheMeant, Meant
  <2> QED
    BY <1>4, <2>8, <2>9, <2>10, <2>12
<1> QED
  BY <1>5, <1>6 DEF ScanContacts

LEMMA SendRequestKeeps ==
  ASSUME ToolsInv, SendRequest
  PROVE  ToolsInv'
<1> USE DEF ToolsInv
<1> DEFINE k == Len(tool.report)
           m == Len(acts)
           found == CHOOSE c \in tool.found : TRUE
           deed == [n |-> tool.next, target |-> Target, kind |-> tool.kind, peer |-> found[2],
                   seen |-> tool.seen, through |-> tool.through, asked |-> tool.asked]
<1>1. PICK outcome \in {"done", "failed"}, arrived \in BOOLEAN :
        /\ tool.at = "request" /\ (outcome = "done" => arrived)
        /\ acts' = IF arrived /\ tool.kind # "read" THEN Append(acts, deed) ELSE acts
        /\ tool' = NextTarget(outcome)
        /\ UNCHANGED <<directory, accountSettings, pages, changes>>
  BY DEF SendRequest, Repeats
<1>2. /\ tool \in TelegramCalls /\ tool # NoTool /\ Target \in Targets
      /\ tool.next \in 1..Len(tool.texts) /\ Len(tool.texts) \in Nat
  BY <1>1, TargetIs
<1>3. /\ tool' \in TelegramCalls /\ tool' # NoTool /\ AtItsTarget'
      /\ tool'.at \in {"scan", "report"}
      /\ tool'.texts = tool.texts /\ tool'.kind = tool.kind /\ k \in Nat /\ tool.next = k + 1
      /\ Len(tool'.report) = k + 1 /\ tool'.report[k + 1] = outcome
      /\ \A n \in 1..k : tool'.report[n] = tool.report[n]
  BY <1>1, NextTargetIs
<1>4. tool.found # {} /\ found \in tool.found /\ found[2] \in Peers
  <2>1. tool.found # {} /\ tool.found \in SUBSET (Nat \X Peers)
    BY <1>1, <1>2 DEF AtItsTarget, TelegramCalls
  <2> QED
    BY <2>1
<1> HIDE DEF found
<1>5. deed \in TelegramActs
  BY <1>2, <1>4 DEF TelegramActs, TelegramCalls
<1>6. acts \in Seq(TelegramActs) /\ m \in Nat
  BY LenProperties DEF TelegramTypes
<1>7. deed.n = k + 1 /\ deed.target = tool.texts[k + 1] /\ deed.peer = found[2] /\ deed.seen = tool.seen
      /\ deed.target = Target
  BY <1>3 DEF Target
<1> HIDE DEF deed
<1>8. /\ Append(acts, deed) \in Seq(TelegramActs) /\ Len(Append(acts, deed)) = m + 1
      /\ Append(acts, deed)[m + 1] = deed /\ \A i \in 1..m : Append(acts, deed)[i] = acts[i]
  BY <1>5, <1>6, AppendProperties
<1>9. /\ m <= k
      /\ \A i \in 1..m : acts[i].n \in 1..k /\ acts[i].target = tool.texts[acts[i].n]
      /\ \A i, j \in 1..m : i < j => acts[i].n < acts[j].n
      /\ tool.kind # "read" =>
           \A n \in 1..k : tool.report[n] = "done" => \E i \in 1..m : acts[i].n = n
  BY <1>2 DEF ActsAreReported
<1>10. TelegramTypes'
  <2>1. acts' \in Seq(TelegramActs)
    BY <1>1, <1>6, <1>8
  <2> QED
    BY <1>1, <1>3, <2>1 DEF directory, accountSettings, TelegramTypes, DirectoryTypes
<1>11. ASSUME changes = 0 PROVE Meant(Target, found[2], tool.seen)
  BY <1>1, <1>4, <1>11 DEF FindsTheMeant
<1>12. UNCHANGED <<title, changes>>
  BY <1>1 DEF directory
<1> HIDE DEF k, m
<1>13. CASE ~(arrived /\ tool.kind # "read")
  <2>1. acts' = acts /\ (tool.kind # "read" => outcome # "done")
    BY <1>1, <1>13
  <2>2. ActsAreReported'
    <3>1. 1..k \subseteq 1..(k + 1) /\ m <= k + 1 /\ \A n \in 1..(k + 1) : n \in 1..k \/ n = k + 1
      BY <1>3, <1>6, <1>9
    <3>2. tool.kind # "read" =>
            \A n \in 1..(k + 1) : tool'.report[n] = "done" => n \in 1..k /\ tool.report[n] = "done"
      BY <1>3, <2>1, <3>1
    <3> QED
      BY <1>3, <1>9, <2>1, <3>1, <3>2 DEF ActsAreReported, m
  <2>3. FindsTheMeant'
    BY <1>3, <1>12, <2>1 DEF FindsTheMeant, RecipientIsMeant, Meant
  <2> QED
    BY <1>1, <1>3, <1>10, <2>2, <2>3, ListsStand DEF directory
<1>14. CASE arrived /\ tool.kind # "read"
  <2>1. /\ Len(acts') = m + 1 /\ acts'[m + 1] = deed /\ DOMAIN acts' = 1..(m + 1)
        /\ \A i \in 1..m : acts'[i] = acts[i]
    <3>1. acts' = Append(acts, deed)
      BY <1>1, <1>14
    <3> QED
      BY <1>8, <3>1, LenProperties
  <2>2. \A i \in 1..(m + 1) : i \in 1..m \/ i = m + 1
    BY <1>6
  <2>3. ActsAreReported'
    <3>1. m + 1 <= k + 1 /\ 1..k \subseteq 1..(k + 1) /\ 1..m \subseteq 1..(m + 1)
          /\ k + 1 \in 1..(k + 1) /\ m + 1 \in 1..(m + 1)
      BY <1>3, <1>6, <1>9
    <3>2. \A i \in 1..(m + 1) : acts'[i].n \in 1..(k + 1) /\ acts'[i].target = tool'.texts[acts'[i].n]
      <4> SUFFICES ASSUME NEW i \in 1..(m + 1)
                   PROVE  acts'[i].n \in 1..(k + 1) /\ acts'[i].target = tool'.texts[acts'[i].n]
        OBVIOUS
      <4>1. CASE i \in 1..m
        BY <1>3, <1>9, <2>1, <3>1, <4>1
      <4>2. CASE i = m + 1
        BY <1>3, <1>7, <2>1, <3>1, <4>2
      <4> QED
        BY <2>2, <4>1, <4>2
    <3>3. \A i, j \in 1..(m + 1) : i < j => acts'[i].n < acts'[j].n
      <4> SUFFICES ASSUME NEW i \in 1..(m + 1), NEW j \in 1..(m + 1), i < j
                   PROVE  acts'[i].n < acts'[j].n
        OBVIOUS
      <4>1. i \in 1..m /\ acts'[i] = acts[i] /\ acts[i].n \in 1..k
        BY <1>6, <1>9, <2>1
      <4>2. CASE j \in 1..m
        BY <1>9, <2>1, <4>1, <4>2
      <4>3. CASE j = m + 1
        <5>1. acts'[j].n = k + 1
          BY <1>7, <2>1, <4>3
        <5> QED
          BY <1>3, <4>1, <5>1
      <4> QED
        BY <2>2, <4>2, <4>3
    <3>4. \A n \in 1..(k + 1) : tool'.report[n] = "done" => \E i \in 1..(m + 1) : acts'[i].n = n
      <4> SUFFICES ASSUME NEW n \in 1..(k + 1), tool'.report[n] = "done"
                   PROVE  \E i \in 1..(m + 1) : acts'[i].n = n
        OBVIOUS
      <4>1. CASE n \in 1..k
        <5>1. tool.report[n] = "done"
          BY <1>3, <4>1
        <5>2. PICK i \in 1..m : acts[i].n = n
          BY <1>9, <1>14, <4>1, <5>1
        <5> QED
          BY <2>1, <3>1, <5>2
      <4>2. CASE n = k + 1
        BY <1>7, <2>1, <3>1, <4>2
      <4>3. n \in 1..k \/ n = k + 1
        BY <1>3
      <4> QED
        BY <4>1, <4>2, <4>3
    <3> QED
      BY <1>3, <2>1, <3>1, <3>2, <3>3, <3>4 DEF ActsAreReported
  <2>4. FindsTheMeant'
    <3>1. ASSUME changes = 0 PROVE RecipientIsMeant'
      <4>1. \A i \in 1..m : Meant(acts[i].target, acts[i].peer, acts[i].seen)
        BY <1>6, <3>1, LenProperties DEF FindsTheMeant, RecipientIsMeant, m
      <4>2. Meant(deed.target, deed.peer, deed.seen)
        BY <1>7, <1>11, <3>1
      <4>3. \A i \in 1..(m + 1) : Meant(acts'[i].target, acts'[i].peer, acts'[i].seen)
        BY <2>1, <2>2, <4>1, <4>2
      <4> QED
        BY <1>12, <2>1, <4>3 DEF RecipientIsMeant, Meant
    <3> QED
      BY <1>3, <1>12, <3>1 DEF FindsTheMeant
  <2> QED
    BY <1>1, <1>3, <1>10, <2>3, <2>4, ListsStand DEF directory
<1> QED
  BY <1>13, <1>14

LEMMA ReportKeeps ==
  ASSUME ToolsInv, Report
  PROVE  ToolsInv'
<1>1. tool' = NoTool /\ acts' = <<>> /\ UNCHANGED <<directory, accountSettings, pages, changes>>
  BY DEF Report
<1> QED
  BY <1>1, ListsStand
  DEF ToolsInv, directory, accountSettings, TelegramTypes, DirectoryTypes, AtItsTarget,
      ActsAreReported, FindsTheMeant, RecipientIsMeant, NoTool

-----------------------------------------------------------------------------
(* Paged lists, and what happens meanwhile.                                *)

\* A call is not touched by what leaves it and the directory alone.
LEMMA CallsStand ==
  ASSUME AtItsTarget, ActsAreReported, FindsTheMeant, UNCHANGED <<tool, acts>>,
         changes' # 0 \/ UNCHANGED <<dialogs, title, changes>>
  PROVE  AtItsTarget' /\ ActsAreReported' /\ FindsTheMeant'
<1>1. AtItsTarget' /\ ActsAreReported'
  BY DEF AtItsTarget, ActsAreReported
<1>2. FindsTheMeant'
  BY DEF FindsTheMeant, RecipientIsMeant, Meant, Target, Found, Rank
<1> QED
  BY <1>1, <1>2

LEMMA OpenListKeeps ==
  ASSUME ToolsInv, NEW sort \in Orders, NEW only \in BOOLEAN, OpenList(sort, only)
  PROVE  ToolsInv'
<1> USE DEF ToolsInv
<1>1. pages' = [at |-> "more", sort |-> sort, only |-> only, shown |-> <<>>,
                offset |-> 0, since |-> changes]
      /\ UNCHANGED <<directory, accountSettings, tool, acts, changes>>
  BY DEF OpenList
<1>2. pages' \in PageWalks
  <2>1. changes \in Nat
    BY DEF TelegramTypes
  <2>2. <<>> \in Seq(Peers)
    BY EmptySeq
  <2> QED
    BY <1>1, <2>1, <2>2 DEF PageWalks
<1>3. TelegramTypes'
  BY <1>1, <1>2 DEF directory, accountSettings, TelegramTypes, DirectoryTypes
<1>4. AtItsTarget' /\ ActsAreReported' /\ FindsTheMeant'
  BY <1>1, CallsStand DEF directory
<1>5. PagesAreFirst'
  <2> DEFINE all == Chats(sort, only)'
  <2>1. all \in Seq(Peers)
    <3>1. DirectoryTypes'
      BY <1>3 DEF TelegramTypes
    <3>2. Chats(sort, only) \in Seq(Peers)
      BY ChatsIs DEF TelegramTypes
    <3>3. Chats(sort, only)' = Chats(sort, only)
      BY <1>1 DEF Chats, directory
    <3> QED
      BY <3>2, <3>3
  <2>2. Len(all) \in Nat
    BY <2>1, LenProperties
  <2>3. SubSeq(all, 1, 0) = <<>>
    <3>1. 1 \in Int /\ 0 \in Int /\ 0 < 1
      OBVIOUS
    <3> HIDE DEF all
    <3> QED
      BY ONLY <3>1, SubSeqEmpty
  <2>4. pages'.sort = sort /\ pages'.only = only /\ pages'.offset = 0 /\ pages'.shown = <<>>
        /\ pages'.at = "more" /\ pages'.since = changes'
    BY <1>1
  <2>5. 0 \in 0..Len(all) /\ changes' <= changes'
    <3>1. \A n \in Nat : 0 \in 0..n /\ n <= n
      OBVIOUS
    <3>2. changes' \in Nat
      BY <1>3 DEF TelegramTypes
    <3> QED
      BY ONLY <2>2, <3>1, <3>2
  <2>6. Chats(pages.sort, pages.only)' = all
    BY <2>4
  <2> HIDE DEF all
  <2> QED
    BY <2>3, <2>4, <2>5, <2>6 DEF PagesAreFirst
<1> QED
  BY <1>3, <1>4, <1>5

LEMMA PartIs ==
  ASSUME NEW S, NEW list \in Seq(S), NEW a \in Nat \ {0}, NEW b \in Nat, b <= Len(list)
  PROVE  /\ SubSeq(list, a, b) \in Seq(S)
         /\ Len(SubSeq(list, a, b)) = IF a <= b THEN b - a + 1 ELSE 0
         /\ \A i \in 1..(b - a + 1) : SubSeq(list, a, b)[i] = list[a + i - 1]
<1> DEFINE n == Len(list)
<1>1. n \in Nat
  BY LenProperties
<1>2. \A i \in 1..n : list[i] \in S
  BY ElementOfSeq
<1>3. \A i \in a..b : list[i] \in S
  <2> HIDE DEF n
  <2>1. b <= n
    BY DEF n
  <2> QED
    BY <1>1, <1>2, <2>1
<1>4. a \in Int /\ b \in Int
  OBVIOUS
<1> QED
  BY ONLY <1>3, <1>4, SubSeqProperties

\* What a page asks of a list, and what it shows of that.
AskedOf(all, offset) == SubSeq(all, offset + 1, Min({offset + (PageSize + 1), Len(all)}))
ShownOf(items) == SubSeq(items, 1, Min({PageSize, Len(items)}))

LEMMA PageIs ==
  ASSUME NEW all \in Seq(Peers), NEW offset \in Nat
  PROVE  /\ ShownOf(AskedOf(all, offset)) \in Seq(Peers) /\ Len(ShownOf(AskedOf(all, offset))) \in Nat
         /\ offset <= Len(all) =>
              /\ offset + Len(ShownOf(AskedOf(all, offset))) \in 0..Len(all)
              /\ SubSeq(all, 1, offset) \o ShownOf(AskedOf(all, offset))
                   = SubSeq(all, 1, offset + Len(ShownOf(AskedOf(all, offset))))
              /\ ~(Len(AskedOf(all, offset)) > PageSize)
                   => offset + Len(ShownOf(AskedOf(all, offset))) = Len(all)
<1> DEFINE items == AskedOf(all, offset)
           shown == ShownOf(items)
           n == Len(all)
           last == Min({offset + (PageSize + 1), n})
           k == Len(items)
           m == Min({PageSize, k})
<1>0. all \in Seq(Peers)
  OBVIOUS
<1>1. n \in Nat /\ offset \in Nat /\ PageSize \in Nat \ {0}
  BY ToolsAssumption, LenProperties
<1>2. ASSUME NEW a \in Nat, NEW b \in Nat
      PROVE  Min({a, b}) \in {a, b} /\ Min({a, b}) <= a /\ Min({a, b}) <= b
  <2>1. {a, b} \in SUBSET Nat /\ {a, b} # {}
    OBVIOUS
  <2> QED
    BY <2>1, MinIs
<1>3. last \in {offset + (PageSize + 1), n} /\ last <= n /\ last <= offset + (PageSize + 1)
  BY <1>1, <1>2
<1> HIDE DEF last, n, items, shown
<1>4. last \in Nat /\ (offset <= n => offset <= last)
  BY <1>1, <1>3
<1>5. \A i \in (offset + 1)..last : all[i] \in Peers
  <2>1. \A i \in 1..n : all[i] \in Peers
    BY ElementOfSeq DEF n
  <2> QED
    BY <1>1, <1>3, <1>4, <2>1
<1>6. /\ items \in Seq(Peers) /\ Len(items) = IF offset + 1 <= last THEN last - (offset + 1) + 1 ELSE 0
      /\ \A i \in 1..(last - (offset + 1) + 1) : items[i] = all[(offset + 1) + i - 1]
  <2> DEFINE a == offset + 1
  <2>1. a \in Nat \ {0} /\ last \in Nat
    BY <1>1, <1>4
  <2>2. items = SubSeq(all, a, last)
    BY DEF last, n, items, AskedOf
  <2>3. last <= Len(all)
    BY <1>3 DEF n
  <2> HIDE DEF a
  <2>4. /\ items \in Seq(Peers) /\ Len(items) = IF a <= last THEN last - a + 1 ELSE 0
        /\ \A i \in 1..(last - a + 1) : items[i] = all[a + i - 1]
    BY ONLY <1>0, <2>1, <2>2, <2>3, PartIs
  <2> QED
    BY <2>4 DEF a
<1>7. k = (IF offset + 1 <= last THEN last - offset ELSE 0) /\ k \in Nat
  BY <1>1, <1>3, <1>4, <1>6
<1> HIDE DEF k
<1>8. m \in {PageSize, k} /\ m <= k /\ m <= PageSize /\ m \in Nat
  BY <1>1, <1>2, <1>7
<1> HIDE DEF m
<1>9. /\ shown \in Seq(Peers) /\ Len(shown) = m
      /\ \A i \in 1..m : shown[i] = all[offset + i]
  <2>1. \A i \in 1..m : items[i] \in Peers /\ items[i] = all[offset + i]
    <3> SUFFICES ASSUME NEW i \in 1..m PROVE items[i] \in Peers /\ items[i] = all[offset + i]
      OBVIOUS
    <3>1. i \in 1..(last - (offset + 1) + 1) /\ (offset + 1) + i - 1 = offset + i
          /\ offset + i \in (offset + 1)..last
      BY <1>1, <1>4, <1>7, <1>8
    <3> QED
      BY <1>5, <1>6, <3>1
  <2>2. /\ SubSeq(items, 1, m) \in Seq(Peers)
        /\ Len(SubSeq(items, 1, m)) = IF 1 <= m THEN m - 1 + 1 ELSE 0
        /\ \A i \in 1..(m - 1 + 1) : SubSeq(items, 1, m)[i] = items[1 + i - 1]
    <3>1. m \in Nat /\ m <= k /\ 1 \in Nat \ {0}
      BY <1>8
    <3>2. items \in Seq(Peers) /\ m <= Len(items)
      BY ONLY <1>6, <3>1 DEF k
    <3> QED
      BY ONLY <3>1, <3>2, PartIs
  <2>3. shown = SubSeq(items, 1, m)
    BY DEF m, k, shown, ShownOf
  <2>4. m - 1 + 1 = m /\ (IF 1 <= m THEN m - 1 + 1 ELSE 0) = m /\ \A i \in 1..m : 1 + i - 1 = i
    BY <1>8
  <2> QED
    BY <2>1, <2>2, <2>3, <2>4
<1>10. ASSUME offset <= n
       PROVE  /\ offset + m \in 0..n /\ (~(k > PageSize) => offset + m = n)
              /\ SubSeq(all, 1, offset) \o shown = SubSeq(all, 1, offset + m)
  <2>1. offset + m \in 0..n /\ (~(k > PageSize) => offset + m = n)
    BY <1>1, <1>3, <1>4, <1>7, <1>8, <1>10
  <2> DEFINE e == offset + m
             a == offset + 1
             rest == SubSeq(all, a, e)
  <2>2. /\ a \in Nat \ {0} /\ e \in Nat /\ e <= n /\ e - a + 1 = m
        /\ \A i \in 1..m : a + i - 1 = offset + i
    BY <1>1, <1>8, <2>1
  <2> HIDE DEF a, e
  <2>3. /\ rest \in Seq(Peers) /\ Len(rest) = IF a <= e THEN e - a + 1 ELSE 0
        /\ \A i \in 1..(e - a + 1) : rest[i] = all[a + i - 1]
    <3>1. e <= Len(all)
      BY <2>2 DEF n
    <3> HIDE DEF n
    <3> QED
      BY ONLY <1>0, <2>2, <3>1, PartIs
  <2> HIDE DEF rest
  <2>4. Len(rest) = m /\ \A i \in 1..m : rest[i] = shown[i]
    <3>1. (IF a <= e THEN e - a + 1 ELSE 0) = m /\ \A i \in 1..m : i \in 1..(e - a + 1)
      BY <1>8, <2>2
    <3>2. \A i \in 1..m : rest[i] = all[offset + i]
      BY <2>2, <2>3, <3>1
    <3> QED
      BY ONLY <1>9, <2>3, <3>1, <3>2
  <2>5. rest = shown
    BY ONLY <1>9, <2>3, <2>4, SeqEqual
  <2>6. SubSeq(all, 1, offset) \o rest = SubSeq(all, 1, e)
    <3>1. 1 \in 1..(Len(all) + 1) /\ offset \in 0..Len(all) /\ e \in offset..Len(all)
      BY <1>1, <1>8, <1>10, <2>1, <2>2 DEF n, e
    <3> QED
      BY ONLY <1>0, <3>1, ConcatAdjacentSubSeq DEF rest, a
  <2> QED
    BY <2>1, <2>5, <2>6 DEF e
<1>11. m = Len(shown)
  BY <1>9
<1> QED
  BY <1>8, <1>9, <1>10, <1>11 DEF n, k, items, shown

LEMMA NextPageKeeps ==
  ASSUME ToolsInv, NextPage
  PROVE  ToolsInv'
<1> USE DEF ToolsInv
<1> DEFINE all == Chats(pages.sort, pages.only)
           items == Fetch(pages.sort, pages.only, pages.offset)
           shown == SubSeq(items, 1, Min({PageSize, Len(items)}))
<1>1. /\ pages.at = "more"
      /\ pages' = [pages EXCEPT !.shown = @ \o shown, !.offset = @ + Len(shown),
                                !.at = IF Len(items) > PageSize THEN "more" ELSE "end"]
      /\ UNCHANGED <<directory, accountSettings, tool, acts, changes>>
  BY DEF NextPage
<1>2. pages # NoPages
  BY <1>1 DEF NoPages
<1>3. pages \in [at : {"more", "end"}, sort : Orders, only : BOOLEAN,
                 shown : Seq(Peers), offset : Nat, since : Nat]
  BY <1>2 DEF PageWalks, TelegramTypes
<1>4. all \in Seq(Peers)
  BY ChatsIs DEF TelegramTypes
<1>5. items = SubSeq(all, pages.offset + 1, Min({pages.offset + (PageSize + 1), Len(all)}))
  BY DEF Fetch, ListChats
<1>6. all' = all
  <2>1. pages'.sort = pages.sort /\ pages'.only = pages.only
    BY <1>1, <1>3
  <2> QED
    BY <1>1, <2>1 DEF Chats, directory
<1> HIDE DEF all, items, shown
<1>7. pages.offset \in Nat /\ pages.shown \in Seq(Peers)
  BY <1>3
<1>8. /\ shown \in Seq(Peers) /\ Len(shown) \in Nat
      /\ pages.offset <= Len(all) =>
           /\ pages.offset + Len(shown) \in 0..Len(all)
           /\ SubSeq(all, 1, pages.offset) \o shown = SubSeq(all, 1, pages.offset + Len(shown))
           /\ ~(Len(items) > PageSize) => pages.offset + Len(shown) = Len(all)
  <2>1. items = AskedOf(all, pages.offset) /\ shown = ShownOf(items)
    BY <1>5 DEF shown, AskedOf, ShownOf
  <2> QED
    BY ONLY <1>4, <1>7, <2>1, PageIs
<1> DEFINE more == pages.shown \o shown
           place == IF Len(items) > PageSize THEN "more" ELSE "end"
<1>9. more \in Seq(Peers) /\ place \in {"more", "end"} /\ pages.offset + Len(shown) \in Nat
  BY <1>7, <1>8, ConcatProperties
<1>10. pages' = [pages EXCEPT !.shown = more, !.offset = pages.offset + Len(shown), !.at = place]
  BY <1>1, <1>3 DEF items, shown
<1>11. place = "end" => ~(Len(items) > PageSize)
  OBVIOUS
<1>12. more = pages.shown \o shown
  OBVIOUS
<1> HIDE DEF more, place
<1>13. /\ pages' \in [at : {"more", "end"}, sort : Orders, only : BOOLEAN,
                      shown : Seq(Peers), offset : Nat, since : Nat]
       /\ pages'.at = place /\ pages'.shown = more /\ pages'.offset = pages.offset + Len(shown)
       /\ pages'.since = pages.since
  BY <1>3, <1>9, <1>10
<1>14. TelegramTypes'
  <2>1. pages' \in PageWalks
    BY <1>13 DEF PageWalks
  <2> QED
    BY <1>1, <2>1 DEF directory, accountSettings, TelegramTypes, DirectoryTypes
<1>15. PagesAreFirst'
  <2>1. changes' = changes /\ pages.since <= changes
    BY <1>1, <1>2 DEF PagesAreFirst
  <2>2. ASSUME pages.since = changes
        PROVE  /\ pages'.offset \in 0..Len(all) /\ pages'.shown = SubSeq(all, 1, pages'.offset)
               /\ pages'.at = "end" => pages'.offset = Len(all)
    <3>1. pages.offset \in 0..Len(all) /\ pages.shown = SubSeq(all, 1, pages.offset)
      BY <1>2, <2>2 DEF PagesAreFirst, all
    <3>2. pages.offset <= Len(all)
      BY <1>4, <3>1, LenProperties
    <3> QED
      BY <1>8, <1>11, <1>12, <1>13, <3>1, <3>2
  <2>3. all = Chats(pages.sort, pages.only)'
    BY <1>6 DEF all
  <2> QED
    BY <1>13, <2>1, <2>2, <2>3 DEF PagesAreFirst
<1>16. AtItsTarget' /\ ActsAreReported' /\ FindsTheMeant'
  BY <1>1, CallsStand DEF directory
<1> QED
  BY <1>14, <1>15, <1>16

LEMMA CloseListKeeps ==
  ASSUME ToolsInv, CloseList
  PROVE  ToolsInv'
<1> USE DEF ToolsInv
<1>1. pages' = NoPages /\ UNCHANGED <<directory, accountSettings, tool, acts, changes>>
  BY DEF CloseList
<1>2. TelegramTypes'
  BY <1>1 DEF directory, accountSettings, TelegramTypes, DirectoryTypes, PageWalks
<1>3. AtItsTarget' /\ ActsAreReported' /\ FindsTheMeant'
  BY <1>1, CallsStand DEF directory
<1> QED
  BY <1>1, <1>2, <1>3 DEF PagesAreFirst

\* A change of the directory or of a setting: what was found or listed before is
\* no longer held to it.
LEMMA ChangeKeeps ==
  ASSUME ToolsInv, Change, UNCHANGED <<tool, acts, pages, confirm>>, DirectoryTypes',
         active' \in Accounts
  PROVE  ToolsInv'
<1> USE DEF ToolsInv
<1>1. changes \in Nat /\ changes' = changes + 1
  BY DEF TelegramTypes, Change
<1>2. changes' \in Nat /\ changes' # 0
  BY <1>1
<1>3. TelegramTypes'
  BY <1>2 DEF TelegramTypes
<1>4. AtItsTarget' /\ ActsAreReported' /\ FindsTheMeant'
  BY <1>2, CallsStand
<1>5. PagesAreFirst'
  <2>1. ASSUME pages # NoPages PROVE pages.since <= changes /\ pages.since \in Nat
    BY <2>1 DEF PagesAreFirst, PageWalks, TelegramTypes
  <2>2. pages # NoPages => pages.since <= changes' /\ pages.since # changes'
    BY <1>1, <2>1
  <2> QED
    BY <2>2 DEF PagesAreFirst
<1> QED
  BY <1>3, <1>4, <1>5

LEMMA MessageArrivesKeeps ==
  ASSUME ToolsInv, NEW p \in Peers, MessageArrives(p)
  PROVE  ToolsInv'
<1> USE DEF ToolsInv
<1> DEFINE others == {i \in DOMAIN dialogs : dialogs[i] # p}
           rest == Picked(dialogs, others)
<1>1. dialogs \in Seq(Peers) /\ IsInjective(dialogs) /\ others \in SUBSET DOMAIN dialogs
  BY DEF TelegramTypes, DirectoryTypes
<1>2. dialogs' = <<p>> \o rest /\ unread' = [unread EXCEPT ![p] = 1]
      /\ UNCHANGED <<contacts, title, active, confirm, tool, acts, pages>> /\ Change
  BY DEF MessageArrives, accountSettings
<1>3. \A i \in others : dialogs[i] # p
  OBVIOUS
<1> HIDE DEF others
<1>4. /\ rest \in Seq(Peers) /\ IsInjective(rest) /\ Cardinality(others) \in Nat
      /\ Len(rest) = Cardinality(others)
      /\ \A k \in 1..Cardinality(others) : \E i \in others : rest[k] = dialogs[i]
  BY <1>1, PickedIs
<1> DEFINE n == Cardinality(others)
<1>5. DOMAIN rest = 1..n /\ \A k \in 1..n : rest[k] # p
  BY <1>3, <1>4, LenProperties
<1> HIDE DEF rest
<1>6. <<p>> \in Seq(Peers) /\ Len(<<p>>) = 1 /\ <<p>>[1] = p
  OBVIOUS
<1>7. /\ dialogs' \in Seq(Peers) /\ Len(dialogs') = n + 1
      /\ \A k \in 1..(n + 1) : dialogs'[k] = IF k <= 1 THEN p ELSE rest[k - 1]
  <2>1. /\ <<p>> \o rest \in Seq(Peers) /\ Len(<<p>> \o rest) = Len(<<p>>) + Len(rest)
        /\ \A k \in 1..(Len(<<p>>) + Len(rest)) :
             (<<p>> \o rest)[k] = IF k <= Len(<<p>>) THEN <<p>>[k] ELSE rest[k - Len(<<p>>)]
    BY <1>4, <1>6, ConcatProperties
  <2>2. 1 + n = n + 1 /\ \A k \in 1..(n + 1) : k <= 1 => k = 1
    BY <1>4
  <2> QED
    BY <1>2, <1>4, <1>6, <2>1, <2>2
<1> HIDE DEF n
<1>8. IsInjective(dialogs')
  <2>1. DOMAIN dialogs' = 1..(n + 1) /\ n \in Nat
    BY <1>4, <1>7, LenProperties DEF n
  <2> SUFFICES ASSUME NEW i \in 1..(n + 1), NEW j \in 1..(n + 1), dialogs'[i] = dialogs'[j]
               PROVE  i = j
    BY <2>1 DEF IsInjective
  <2>2. \A k \in 1..(n + 1) : k # 1 => /\ ~(k <= 1) /\ k - 1 \in 1..n /\ dialogs'[k] = rest[k - 1]
                                       /\ dialogs'[k] # p
    BY <1>5, <1>7, <2>1
  <2>3. 1 \in 1..(n + 1) /\ 1 <= 1 /\ dialogs'[1] = p
    BY <1>7, <2>1
  <2>4. CASE i = 1 \/ j = 1
    BY <2>2, <2>3, <2>4
  <2>5. CASE i # 1 /\ j # 1
    <3>1. i - 1 = j - 1
      BY <1>4, <1>5, <2>2, <2>5 DEF IsInjective
    <3> QED
      BY <2>1, <3>1
  <2> QED
    BY <2>4, <2>5
<1>9. unread' \in [Peers -> {0, 1}]
  BY <1>2 DEF TelegramTypes, DirectoryTypes
<1>10. DirectoryTypes'
  BY <1>2, <1>7, <1>8, <1>9 DEF TelegramTypes, DirectoryTypes
<1>11. active' \in Accounts
  BY <1>2 DEF TelegramTypes
<1> QED
  BY <1>2, <1>10, <1>11, ChangeKeeps

LEMMA RenamesKeeps ==
  ASSUME ToolsInv, NEW p \in Peers, NEW w \in Words, Renames(p, w)
  PROVE  ToolsInv'
BY ChangeKeeps DEF Renames, accountSettings, ToolsInv, TelegramTypes, DirectoryTypes

LEMMA SwitchActiveKeeps ==
  ASSUME ToolsInv, NEW a \in Accounts, SwitchActive(a)
  PROVE  ToolsInv'
BY ChangeKeeps DEF SwitchActive, directory, ToolsInv, TelegramTypes, DirectoryTypes

-----------------------------------------------------------------------------

LEMMA ToolsInvNext ==
  ASSUME ToolsInv, [ToolsNext]_toolsVars
  PROVE  ToolsInv'
<1>1. ASSUME NEW kind \in ToolKinds, NEW name \in Accounts \cup {NoAccount}, NEW n \in 1..MaxTexts,
             NEW texts \in [1..n -> Targets], Invoke(kind, name, texts)
      PROVE  ToolsInv'
  <2>1. n \in Nat /\ n >= 1
    BY ToolsAssumption
  <2>2. texts \in Seq(Targets) /\ Len(texts) = n
    BY <2>1
  <2> QED
    BY <1>1, <2>1, <2>2, InvokeKeeps
<1>2. CASE UNCHANGED toolsVars
  <2>1. UNCHANGED <<dialogs, contacts, title, unread, active, confirm, tool, acts, pages, changes>>
    BY <1>2 DEF toolsVars
  <2>2. TelegramTypes'
    BY <2>1 DEF ToolsInv, TelegramTypes, DirectoryTypes
  <2> QED
    BY <2>1, <2>2, CallsStand, ListsStand DEF ToolsInv
<1>3. "" \in Orders /\ "unread" \in Orders
  BY DEF Orders
<1> QED
  BY <1>1, <1>2, <1>3, AnswerToolKeeps, OpenClientKeeps, ScanDialogsKeeps, ScanContactsKeeps,
     SendRequestKeeps, ReportKeeps, OpenListKeeps, NextPageKeeps, CloseListKeeps,
     MessageArrivesKeeps, RenamesKeeps, SwitchActiveKeeps
  DEF ToolsNext

LEMMA ToolsInvSafe ==
  ASSUME ToolsInv
  PROVE  ToolsSafe
<1> USE DEF ToolsInv
<1>1. Len(acts) \in Nat /\ DOMAIN acts = 1..Len(acts) /\ MaxBulk \in Nat
  BY ToolsAssumption, LenProperties DEF TelegramTypes
<1>2. ToolsTypeOK
  <2>1. IsInjective(dialogs) /\ ToSet(dialogs) \subseteq Peers
    BY ElementOfSeq, LenProperties DEF TelegramTypes, DirectoryTypes, ToSet
  <2>2. tool.at \in {"idle", "asking", "open", "scan", "contacts", "request", "report"}
    BY DEF TelegramTypes, TelegramCalls, NoTool
  <2>3. tool.at \in {"scan", "contacts", "request"} => tool.next \in 1..Len(tool.texts)
    BY TargetIs
  <2>4. Len(acts) <= MaxBulk
    <3>1. CASE acts = <<>>
      BY <1>1, <3>1
    <3>2. CASE acts # <<>>
      <4>1. tool \in TelegramCalls /\ tool # NoTool /\ tool.at \notin {"asking", "open"}
        BY <3>2 DEF AtItsTarget, TelegramTypes
      <4>2. /\ Len(tool.texts) <= MaxBulk /\ Len(tool.report) = tool.next - 1
            /\ tool.next \in 1..(Len(tool.texts) + 1) /\ Len(tool.texts) \in Nat
        <5>1. tool.texts \in Seq(Targets) /\ tool.at \in {"scan", "contacts", "request", "report"}
          BY <4>1 DEF TelegramCalls
        <5>2. Len(tool.texts) \in Nat
          BY <5>1, LenProperties
        <5> QED
          BY <4>1, <5>1, <5>2 DEF AtItsTarget
      <4>3. Len(acts) <= Len(tool.report)
        BY <4>1 DEF ActsAreReported
      <4> QED
        BY <1>1, <4>2, <4>3
    <3> QED
      BY <3>1, <3>2
  <2> QED
    BY <2>1, <2>2, <2>3, <2>4 DEF ToolsTypeOK
<1>3. RecipientIsMeant
  BY DEF FindsTheMeant, RecipientIsMeant
<1>4. ReportIsTrue
  <2> SUFFICES ASSUME tool.at = "report"
               PROVE  /\ Len(tool.report) = Len(tool.texts)
                      /\ IsInjective([i \in DOMAIN acts |-> acts[i].target])
                      /\ tool.kind # "read" => \A n \in DOMAIN tool.report :
                           tool.report[n] = "done" => \E i \in DOMAIN acts : acts[i].n = n
    BY DEF ReportIsTrue
  <2>1. tool \in TelegramCalls /\ tool # NoTool
    BY CallsAreNotIdle
  <2>2. tool.report \in Seq({"done", "failed"}) /\ tool.texts \in Seq(Targets)
    BY <2>1 DEF TelegramCalls
  <2>3. /\ Len(tool.report) \in Nat /\ DOMAIN tool.report = 1..Len(tool.report)
        /\ Len(tool.texts) \in Nat /\ DOMAIN tool.texts = 1..Len(tool.texts)
    BY <2>2, LenProperties
  <2>4. /\ Len(tool.report) = tool.next - 1 /\ tool.next = Len(tool.texts) + 1
        /\ IsInjective(tool.texts)
    BY <2>1 DEF AtItsTarget
  <2>5. Len(tool.report) = Len(tool.texts)
    BY <2>3, <2>4
  <2>6. IsInjective([i \in DOMAIN acts |-> acts[i].target])
    <3> SUFFICES ASSUME NEW i \in 1..Len(acts), NEW j \in 1..Len(acts),
                        acts[i].target = acts[j].target
                 PROVE  i = j
      BY <1>1 DEF IsInjective
    <3>1. acts[i].n = acts[j].n /\ acts[i].n \in 1..Len(tool.report)
      BY <2>1, <2>3, <2>4, <2>5 DEF ActsAreReported, IsInjective
    <3>2. ~(acts[i].n < acts[j].n) /\ ~(acts[j].n < acts[i].n)
      BY <2>3, <3>1
    <3>3. ~(i < j) /\ ~(j < i)
      BY <2>1, <3>2 DEF ActsAreReported
    <3> QED
      BY <1>1, <3>3
  <2>7. tool.kind # "read" => \A n \in DOMAIN tool.report :
          tool.report[n] = "done" => \E i \in DOMAIN acts : acts[i].n = n
    BY <1>1, <2>1, <2>3 DEF ActsAreReported
  <2> QED
    BY <2>5, <2>6, <2>7
<1>5. PagesShowAll
  <2> SUFFICES ASSUME pages.at = "end", pages.since = changes
               PROVE  pages.shown = Chats(pages.sort, pages.only)
    BY DEF PagesShowAll
  <2>1. pages # NoPages
    BY DEF NoPages
  <2>2. Chats(pages.sort, pages.only) \in Seq(Peers)
    BY ChatsIs DEF TelegramTypes
  <2>3. pages.shown = SubSeq(Chats(pages.sort, pages.only), 1, Len(Chats(pages.sort, pages.only)))
    BY <2>1 DEF PagesAreFirst
  <2> QED
    BY <2>2, <2>3, SubSeqFull
<1> QED
  BY <1>2, <1>3, <1>4, <1>5 DEF ToolsSafe

\* A call of a tool reports truly on each of its targets, does nothing twice for
\* one, and reaches whom a name means while the directory stands; a walk through
\* the pages of a list that stands shows all of it once.
THEOREM TelegramStaysSafe == ToolsSpec => []ToolsSafe
<1>1. ToolsInv /\ [ToolsNext]_toolsVars => ToolsInv'
  BY ToolsInvNext
<1>2. ToolsInv => ToolsSafe
  BY ToolsInvSafe
<1> QED
  BY ToolsInvInit, <1>1, <1>2, PTL DEF ToolsSpec
=============================================================================
