--------------------------- MODULE WindowsProofs ---------------------------
(***************************************************************************)
(* Proofs about the main window's messages, dialog, pickers and loads, for *)
(* any files, reasons, themes and devices, and any length of the queue.    *)
(*                                                                         *)
(* First the draft: what the settings dialog would save is what the user   *)
(* chose, however many readings are on their way.  Then the messages: what *)
(* each operation of the centre does to one message, and WindowInv, that   *)
(* every cause has its one message and the window is blocked by what is on *)
(* the screen.  Last the scrolling and the geometry, which meet the others *)
(* nowhere: for any offsets of any devices, and any sizes and positions.   *)
(***************************************************************************)
EXTENDS Windows, Wheel, Geometry, FullTrack, SequenceTheorems, FiniteSetTheorems,
        WellFoundedInduction, TLAPS

\* What the fields may hold: apap-io's questions, and the values.
TypesOK ==
  /\ inForce \in [Fields -> Values]
  /\ lastRead \in Nat
  /\ reads \in Seq([gen : Nat, name : Values])
  /\ draft # None => /\ draft \in [values : {draft.values}, theme : {draft.theme}]
                     /\ draft.values \in [Fields -> Values]

\* No two questions have the same generation, so an answer that has the
\* generation awaited is about the theme awaited.
ReadsApart ==
  /\ \A i \in 1 .. Len(reads) : reads[i].gen <= lastRead
  /\ \A i, j \in 1 .. Len(reads) : reads[i].gen = reads[j].gen => i = j

\* The theme that is awaited, or could not be read, is not the one in force.
ThemeState ==
  draft # None =>
    \/ draft.theme = Unchanged /\ draft.values["theme"] = inForce["theme"]
    \/ draft.theme = Ready(draft.values["theme"])
    \/ draft.theme = Invalid /\ draft.values["theme"] # inForce["theme"]
    \/ /\ draft.values["theme"] # inForce["theme"]
       /\ \E i \in 1 .. Len(reads) : /\ draft.theme = Loading(reads[i].gen)
                                     /\ reads[i].name = draft.values["theme"]

OnlyEdited == draft # None => diff(inForce, draft) \subseteq edited

DraftInv == TypesOK /\ ReadsApart /\ ThemeState /\ OnlyEdited

-----------------------------------------------------------------------------
\* A change elsewhere, of another field than the theme.
LEMMA RebaseStep ==
  ASSUME DraftInv, NEW f \in {"device", "mode"}, NEW v \in Values,
         inForce' = [inForce EXCEPT ![f] = v],
         draft' = (IF draft = None THEN None ELSE rebase(draft, inForce, inForce')),
         UNCHANGED <<edited, reads, lastRead>>
  PROVE  DraftInv'
<1>1. f \in Fields /\ inForce' \in [Fields -> Values] /\ inForce'["theme"] = inForce["theme"]
  BY DEF DraftInv, TypesOK, Fields
<1>2. CASE draft = None
  BY <1>1, <1>2 DEF DraftInv, TypesOK, ReadsApart, ThemeState, OnlyEdited
<1>3. CASE draft # None
  <2>. DEFINE values == [g \in Fields |-> IF draft.values[g] = inForce[g] THEN inForce'[g]
                                                                     ELSE draft.values[g]]
  <2>1. draft' = [draft EXCEPT !.values = values]
    BY <1>3 DEF rebase
  <2>2. values \in [Fields -> Values] /\ values["theme"] = draft.values["theme"]
    BY <1>1, <1>3 DEF DraftInv, TypesOK, Fields
  <2>3. \A g \in Fields : values[g] # inForce'[g] => draft.values[g] # inForce[g]
    OBVIOUS
  <2>. HIDE DEF values
  <2>4. draft'.values = values /\ draft'.theme = draft.theme
        /\ draft' \in [values : {draft'.values}, theme : {draft'.theme}]
    BY <1>3, <2>1 DEF DraftInv, TypesOK
  <2>5. TypesOK' /\ ReadsApart'
    BY <1>1, <2>2, <2>4 DEF DraftInv, TypesOK, ReadsApart
  <2>6. ThemeState'
    BY <1>1, <1>3, <2>2, <2>4 DEF DraftInv, ThemeState
  <2>7. OnlyEdited'
    BY <1>3, <2>3, <2>4 DEF DraftInv, OnlyEdited, diff
  <2>. QED  BY <2>5, <2>6, <2>7 DEF DraftInv
<1>. QED  BY <1>2, <1>3

\* A dialog that opens differs in nothing; one that does not stays.
LEMMA OpenStep ==
  ASSUME DraftInv, NEW w, OpenDialog(w), UNCHANGED <<inForce, reads, lastRead>>
  PROVE  DraftInv'
<1>1. CASE UNCHANGED <<draft, edited>>
  BY <1>1 DEF DraftInv, TypesOK, ReadsApart, ThemeState, OnlyEdited
<1>2. CASE draft' = NewDraft(inForce) /\ edited' = {}
  <2>1. draft'.values = inForce /\ draft'.theme = Unchanged
        /\ draft' \in [values : {draft'.values}, theme : {draft'.theme}]
    BY <1>2 DEF NewDraft
  <2>. QED  BY <1>2, <2>1 DEF DraftInv, TypesOK, ReadsApart, ThemeState, OnlyEdited, diff
<1>. QED  BY <1>1, <1>2 DEF OpenDialog

LEMMA ModeStep ==
  ASSUME DraftInv, NEW m \in ModeKinds, SelectMode(m), UNCHANGED <<edited, reads, lastRead>>
  PROVE  DraftInv'
<1>1. CASE UNCHANGED <<inForce, draft>>
  BY <1>1 DEF DraftInv, TypesOK, ReadsApart, ThemeState, OnlyEdited
<1>2. CASE ~UNCHANGED <<inForce, draft>>
  <2>1. inForce' = [inForce EXCEPT !["mode"] = m]
        /\ draft' = (IF draft = None THEN None ELSE rebase(draft, inForce, inForce'))
    BY <1>2 DEF SelectMode
  <2>. QED  BY <2>1, RebaseStep DEF Values
<1>. QED  BY <1>1, <1>2

\* The user sets a field: another theme than the one in force is asked for
\* under a generation that no question has.
LEMMA EditStep ==
  ASSUME DraftInv, NEW f \in Fields, NEW v \in Values, EditDraft(f, v)
  PROVE  DraftInv'
<1>. DEFINE g == lastRead + 1
            d == [draft EXCEPT !.values[f] = v]
            after == dialog_edit(draft, inForce, f, v, g)
            question == [gen |-> g, name |-> v]
<1>1. /\ draft # None /\ draft' = after /\ edited' = edited \cup {f} /\ inForce' = inForce
      /\ IF after.theme = Loading(g) THEN reads' = Append(reads, question) /\ lastRead' = g
                                     ELSE UNCHANGED <<reads, lastRead>>
  BY DEF EditDraft
<1>2. /\ draft \in [values : {draft.values}, theme : {draft.theme}]
      /\ draft.values \in [Fields -> Values] /\ lastRead \in Nat /\ g \in Nat
      /\ reads \in Seq([gen : Nat, name : Values])
  BY <1>1 DEF DraftInv, TypesOK
<1>3. /\ d.values = [draft.values EXCEPT ![f] = v] /\ d.theme = draft.theme
      /\ d \in [values : {d.values}, theme : {d.theme}] /\ d.values \in [Fields -> Values]
      /\ d.values[f] = v /\ \A h \in Fields \ {f} : d.values[h] = draft.values[h]
  BY <1>2
<1>. HIDE DEF d
<1>4. "theme" \in Fields
  BY DEF Fields
<1>5. CASE f # "theme" \/ v = draft.values["theme"]
  <2>1. after = d
    BY <1>5 DEF dialog_edit, d
  <2>2. d.values["theme"] = draft.values["theme"]
    BY <1>3, <1>4, <1>5
  <2>3. ~(after.theme = Loading(g))
    BY <1>1, <1>2, <1>3, <2>1 DEF DraftInv, ThemeState, ReadsApart, Loading, Unchanged, Ready, Invalid
  <2>4. UNCHANGED <<reads, lastRead, inForce>> /\ draft' = d
    BY <1>1, <2>1, <2>3
  <2>5. OnlyEdited'
    BY <1>1, <1>3, <2>4 DEF DraftInv, OnlyEdited, diff
  <2>6. ThemeState'
    BY <1>1, <1>3, <2>2, <2>4 DEF DraftInv, ThemeState
  <2>. QED  BY <1>3, <2>4, <2>5, <2>6 DEF DraftInv, TypesOK, ReadsApart
<1>6. CASE f = "theme" /\ v # draft.values["theme"]
  <2>. DEFINE state == IF v = inForce["theme"] THEN Unchanged ELSE Loading(g)
  <2>1. after = [d EXCEPT !.theme = state]
    BY <1>6 DEF dialog_edit, d
  <2>2. draft'.values = d.values /\ draft'.theme = state
        /\ draft' \in [values : {draft'.values}, theme : {draft'.theme}]
    BY <1>1, <1>3, <2>1
  <2>3. OnlyEdited'
    BY <1>1, <1>3, <2>2 DEF DraftInv, OnlyEdited, diff
  <2>4. CASE v = inForce["theme"]
    <3>1. UNCHANGED <<reads, lastRead>> /\ draft'.theme = Unchanged
      BY <1>1, <2>2, <2>4 DEF Unchanged, Loading
    <3>. QED  BY <1>1, <1>3, <1>6, <2>2, <2>3, <2>4, <3>1 DEF DraftInv, TypesOK, ReadsApart, ThemeState
  <2>5. CASE v # inForce["theme"]
    <3>1. reads' = Append(reads, question) /\ lastRead' = g /\ draft'.theme = Loading(g)
      BY <1>1, <2>2, <2>5
    <3>2. /\ reads' \in Seq([gen : Nat, name : Values]) /\ Len(reads') = Len(reads) + 1
          /\ \A i \in 1 .. Len(reads) : reads'[i] = reads[i]
          /\ reads'[Len(reads) + 1] = question /\ Len(reads) \in Nat
      BY <1>2, <3>1
    <3>3. TypesOK'
      BY <1>1, <1>2, <1>3, <2>2, <3>1, <3>2 DEF DraftInv, TypesOK
    <3>4. ReadsApart'
      <4>1. \A i \in 1 .. Len(reads) : reads[i].gen <= lastRead /\ reads[i].gen \in Nat
        <5>1. \A i \in 1 .. Len(reads) : reads[i] \in [gen : Nat, name : Values]
          BY <1>2, ElementOfSeq
        <5>. QED  BY <5>1 DEF DraftInv, ReadsApart
      <4>2. \A i \in 1 .. Len(reads) + 1 : reads'[i].gen <= g
        <5>1. SUFFICES ASSUME NEW i \in 1 .. Len(reads) + 1 PROVE reads'[i].gen <= g
          OBVIOUS
        <5>2. Len(reads) \in Nat /\ lastRead \in Nat /\ g = lastRead + 1
          BY <1>2, <3>2 DEF DraftInv, TypesOK
        <5>3. CASE i = Len(reads) + 1
          <6>1. reads'[i] = question
            BY <3>2, <5>3
          <6> QED BY <5>2, <6>1
        <5>4. CASE i # Len(reads) + 1
          <6>1. i \in 1 .. Len(reads)
            BY <5>2, <5>4
          <6>2. reads'[i] = reads[i]
            BY <3>2, <6>1
          <6> QED BY <4>1, <5>2, <6>1, <6>2
        <5> QED BY <5>3, <5>4
      <4>3. \A i \in 1 .. Len(reads) : reads'[i].gen # reads'[Len(reads) + 1].gen
        <5>1. reads'[Len(reads) + 1].gen = lastRead + 1
          BY <3>2
        <5>2. \A i \in 1 .. Len(reads) : reads[i].gen # lastRead + 1
          BY <1>2, <4>1
        <5>. QED  BY <3>2, <5>1, <5>2
      <4>4. \A i, j \in 1 .. Len(reads) : reads'[i].gen = reads'[j].gen => i = j
        BY <3>2 DEF DraftInv, ReadsApart
      <4>5. \A i, j \in 1 .. Len(reads) + 1 : reads'[i].gen = reads'[j].gen => i = j
        BY <3>2, <4>3, <4>4
      <4>. QED  BY <3>1, <3>2, <4>2, <4>5 DEF ReadsApart
    <3>5. ThemeState'
      <4>1. draft'.values["theme"] = v /\ v # inForce'["theme"]
        BY <1>1, <1>3, <1>6, <2>2, <2>5
      <4>2. /\ Len(reads') \in 1 .. Len(reads') /\ reads'[Len(reads')].gen = g
            /\ reads'[Len(reads')].name = v
        BY <3>2
      <4>. QED  BY <3>1, <4>1, <4>2 DEF ThemeState
    <3>. QED  BY <2>3, <3>3, <3>4, <3>5 DEF DraftInv
  <2>. QED  BY <2>4, <2>5
<1>. QED  BY <1>5, <1>6

\* An answer is taken only by the draft that waits for it.
LEMMA ReadStep ==
  ASSUME DraftInv, NEW ok \in BOOLEAN, ThemeRead(ok)
  PROVE  DraftInv'
<1>. DEFINE head == Head(reads)
            result == IF ok THEN Ready(head.name) ELSE Invalid
<1>1. /\ reads # <<>> /\ reads' = Tail(reads) /\ UNCHANGED <<inForce, edited, lastRead>>
      /\ draft' = IF draft = None THEN None ELSE dialog_theme_loaded(draft, head.gen, result)
  BY DEF ThemeRead
<1>2. /\ reads \in Seq([gen : Nat, name : Values]) /\ Len(reads) \in Nat /\ Len(reads) >= 1
      /\ head = reads[1] /\ reads' \in Seq([gen : Nat, name : Values])
      /\ Len(reads') = Len(reads) - 1
      /\ \A i \in 1 .. Len(reads) - 1 : reads'[i] = reads[i + 1]
  BY <1>1 DEF DraftInv, TypesOK
<1>. HIDE DEF head
<1>3. ReadsApart'
  <2>1. \A i \in 1 .. Len(reads) - 1 : reads'[i].gen <= lastRead
    <3>. SUFFICES ASSUME NEW i \in 1 .. Len(reads) - 1 PROVE reads'[i].gen <= lastRead
      OBVIOUS
    <3>1. Len(reads) \in Nat /\ reads'[i] = reads[i + 1]
      BY <1>2
    <3>2. i + 1 \in 1 .. Len(reads)
      BY <3>1
    <3>3. reads[i + 1].gen <= lastRead
      BY <3>2 DEF DraftInv, ReadsApart
    <3> QED BY <3>1, <3>3
  <2>2. \A i, j \in 1 .. Len(reads) - 1 : reads'[i].gen = reads'[j].gen => i = j
    <3>. SUFFICES ASSUME NEW i \in 1 .. Len(reads) - 1, NEW j \in 1 .. Len(reads) - 1,
                         reads'[i].gen = reads'[j].gen
                  PROVE  i = j
      OBVIOUS
    <3>1. i + 1 \in 1 .. Len(reads) /\ j + 1 \in 1 .. Len(reads)
          /\ reads[i + 1].gen = reads[j + 1].gen
      <4>1. reads'[i] = reads[i + 1] /\ reads'[j] = reads[j + 1]
        BY <1>2
      <4>2. Len(reads) \in Nat
        BY <1>2
      <4>3. i + 1 \in 1 .. Len(reads) /\ j + 1 \in 1 .. Len(reads)
        BY <4>2
      <4>. QED  BY <4>1, <4>3
    <3>2. i + 1 = j + 1
      BY <3>1 DEF DraftInv, ReadsApart
    <3>. QED  BY <3>2
  <2>. QED  BY <1>1, <1>2, <2>1, <2>2 DEF ReadsApart
<1>4. CASE draft = None
  BY <1>1, <1>2, <1>3, <1>4 DEF DraftInv, TypesOK, ThemeState, OnlyEdited
<1>5. CASE draft # None /\ draft.theme = Loading(head.gen)
  <2>1. draft' = [draft EXCEPT !.theme = result]
    BY <1>1, <1>5 DEF dialog_theme_loaded
  <2>2. /\ draft \in [values : {draft.values}, theme : {draft.theme}]
        /\ draft.values \in [Fields -> Values]
    BY <1>5 DEF DraftInv, TypesOK
  <2>3. draft'.values = draft.values /\ draft'.theme = result
        /\ draft' \in [values : {draft'.values}, theme : {draft'.theme}]
    BY <2>1, <2>2
  <2>4. PICK i \in 1 .. Len(reads) : /\ draft.theme = Loading(reads[i].gen)
                                     /\ reads[i].name = draft.values["theme"]
                                     /\ draft.values["theme"] # inForce["theme"]
    BY <1>5 DEF DraftInv, ThemeState, Loading, Unchanged, Ready, Invalid
  <2>5. reads[i].gen = reads[1].gen
    BY <1>2, <1>5, <2>4 DEF Loading
  <2>6. head.name = draft.values["theme"]
    BY <1>2, <2>4, <2>5 DEF DraftInv, ReadsApart
  <2>7. ThemeState'
    BY <1>1, <2>3, <2>4, <2>6 DEF ThemeState
  <2>. QED  BY <1>1, <1>2, <1>3, <1>5, <2>2, <2>3, <2>7 DEF DraftInv, TypesOK, OnlyEdited, diff
<1>6. CASE draft # None /\ draft.theme # Loading(head.gen)
  <2>1. draft' = draft
    BY <1>1, <1>6 DEF dialog_theme_loaded
  <2>2. ThemeState'
    <3>1. ASSUME NEW i \in 1 .. Len(reads), draft.theme = Loading(reads[i].gen),
                 reads[i].name = draft.values["theme"]
          PROVE  \E j \in 1 .. Len(reads') : /\ draft.theme = Loading(reads'[j].gen)
                                             /\ reads'[j].name = draft.values["theme"]
      <4>1. i # 1
        BY <1>2, <1>6, <3>1
      <4>2. Len(reads) \in Nat /\ Len(reads') = Len(reads) - 1
        BY <1>2
      <4>3. i - 1 \in 1 .. Len(reads) - 1 /\ (i - 1) + 1 = i
        BY <4>1, <4>2
      <4>4. reads'[i - 1] = reads[i]
        BY <1>2, <4>3
      <4>. QED  BY <3>1, <4>2, <4>3, <4>4
    <3>. QED  BY <1>1, <1>6, <2>1, <3>1 DEF DraftInv, ThemeState
  <2>. QED  BY <1>1, <1>2, <1>3, <2>1, <2>2 DEF DraftInv, TypesOK, OnlyEdited, diff
<1>. QED  BY <1>4, <1>5, <1>6

\* "Save" puts the draft in force and closes it, and so leaves nothing to say.
LEMMA CloseStep ==
  ASSUME DraftInv, SaveSettings \/ CancelSettings \/ Exit
  PROVE  DraftInv'
<1>1. draft' = None /\ UNCHANGED <<reads, lastRead>>
  BY DEF SaveSettings, CancelSettings, Exit
<1>2. inForce' \in [Fields -> Values]
  BY DEF SaveSettings, CancelSettings, Exit, DraftInv, TypesOK
<1>. QED  BY <1>1, <1>2 DEF DraftInv, TypesOK, ReadsApart, ThemeState, OnlyEdited

-----------------------------------------------------------------------------
\* The invariant of the draft is inductive: the steps of messages, loads and
\* windows reach it through the opening of the dialog and the mode alone.
THEOREM DraftInvariant == Spec => []DraftInv
<1>1. Init => DraftInv
  <2>. SUFFICES ASSUME Init PROVE DraftInv
    OBVIOUS
  <2>1. PICK t \in Themes, d \in Devices, m \in ModeKinds :
          inForce = [theme |-> t, device |-> d, mode |-> m]
    BY DEF Init
  <2>2. inForce \in [Fields -> Values]
    BY <2>1 DEF Fields, Values
  <2>3. draft = None /\ reads = <<>> /\ lastRead = 0
    BY DEF Init
  <2>. QED  BY <2>2, <2>3, EmptySeq DEF DraftInv, TypesOK, ReadsApart, ThemeState, OnlyEdited
<1>2. DraftInv /\ [Next]_vars => DraftInv'
  <2>. SUFFICES ASSUME DraftInv, [Next]_vars PROVE DraftInv'
    OBVIOUS
  <2>1. CASE UNCHANGED <<inForce, draft, edited, reads, lastRead>>
    BY <2>1 DEF DraftInv, TypesOK, ReadsApart, ThemeState, OnlyEdited, diff
  <2>2. CASE DialogStep
    <3>1. CASE OpenSettings
      BY <3>1, OpenStep DEF OpenSettings
    <3>2. CASE SaveSettings \/ CancelSettings
      BY <3>2, CloseStep
    <3>3. CASE Edits
      BY <3>3, EditStep DEF Edits, Values, Fields
    <3>4. ASSUME NEW ok \in BOOLEAN, ThemeRead(ok) PROVE DraftInv'
      BY <3>4, ReadStep
    <3>5. ASSUME NEW d \in Devices, DeviceAutoSelected(d) PROVE DraftInv'
      <4>1. /\ inForce' = [inForce EXCEPT !["device"] = d] /\ UNCHANGED <<edited, reads, lastRead>>
            /\ draft' = IF draft = None THEN None ELSE rebase(draft, inForce, inForce')
        BY <3>5 DEF DeviceAutoSelected
      <4>. QED  BY <4>1, RebaseStep DEF Values
    <3>6. ASSUME NEW m \in ModeKinds, SwitchMode(m) PROVE DraftInv'
      BY <3>6, ModeStep DEF SwitchMode
    <3>. QED  BY <2>2, <3>1, <3>2, <3>3, <3>4, <3>5, <3>6 DEF DialogStep
  <2>3. CASE MessageStep
    <3>1. ASSUME NEW action, Press(action) PROVE DraftInv'
      <4>1. CASE action = "OpenAudioSettings"
        BY <3>1, <4>1, OpenStep DEF Press
      <4>2. CASE action = "SwitchToCompatible"
        BY <3>1, <4>2, ModeStep DEF Press, ModeKinds
      <4>3. CASE action \notin {"OpenAudioSettings", "SwitchToCompatible"}
        BY <2>1, <3>1, <4>3 DEF Press
      <4>. QED  BY <4>1, <4>2, <4>3
    <3>2. CASE ~\E action : Press(action)
      BY <2>1, <2>3, <3>2 DEF MessageStep, PushMessage, OpenRefusedByMode, lock_blocks_play,
         ReplyFailed, ReplySucceeded, LockEvent, dialogVars
    <3>. QED  BY <3>1, <3>2
  <2>4. CASE WindowStep
    BY <2>1, <2>4, CloseStep DEF WindowStep, WindowShown, Tray, dialogVars
  <2>5. CASE LoadStep
    BY <2>1, <2>5 DEF LoadStep, Pick, PickCancelled, Picked, ScanDone, poll_load, dialogVars
  <2>6. CASE UNCHANGED vars
    BY <2>1, <2>6 DEF vars, dialogVars
  <2>. QED  BY <2>2, <2>3, <2>4, <2>5, <2>6 DEF Next
<1>. QED  BY <1>1, <1>2, PTL DEF Spec

\* Whatever changes while the dialog is open, "Save" applies what the user
\* chose and the theme that was read for it.
THEOREM SaveStaysWhatWasChosen == Spec => []SaveIsWhatWasChosen
<1>1. DraftInv => SaveIsWhatWasChosen
  <2>. SUFFICES ASSUME DraftInv, draft # None
                PROVE  /\ diff(inForce, draft) \subseteq edited
                       /\ CASE draft.theme.state = "Unchanged" -> draft.values.theme = inForce.theme
                            [] draft.theme.state = "Ready"     -> draft.values.theme = draft.theme.of
                            [] draft.theme.state = "Invalid"   -> draft.values.theme # inForce.theme
                            [] draft.theme.state = "Loading"   ->
                                 \E i \in DOMAIN reads :
                                   reads[i] = [gen |-> draft.theme.gen, name |-> draft.values.theme]
    BY DEF SaveIsWhatWasChosen
  <2>1. diff(inForce, draft) \subseteq edited
    BY DEF DraftInv, OnlyEdited
  <2>2. CASE draft.theme = Unchanged /\ draft.values["theme"] = inForce["theme"]
    BY <2>1, <2>2 DEF Unchanged
  <2>3. CASE draft.theme = Ready(draft.values["theme"])
    BY <2>1, <2>3 DEF Ready
  <2>4. CASE draft.theme = Invalid /\ draft.values["theme"] # inForce["theme"]
    BY <2>1, <2>4 DEF Invalid
  <2>5. ASSUME NEW i \in 1 .. Len(reads), draft.theme = Loading(reads[i].gen),
               reads[i].name = draft.values["theme"]
        PROVE  /\ draft.theme.state = "Loading"
               /\ i \in DOMAIN reads
               /\ reads[i] = [gen |-> draft.theme.gen, name |-> draft.values.theme]
    <3>1. reads \in Seq([gen : Nat, name : Values])
      BY DEF DraftInv, TypesOK
    <3>2. reads[i] \in [gen : Nat, name : Values] /\ i \in DOMAIN reads
      BY <3>1, ElementOfSeq, LenProperties
    <3>3. draft.theme.state = "Loading" /\ draft.theme.gen = reads[i].gen
      BY <2>5 DEF Loading
    <3>. QED  BY <2>5, <3>2, <3>3
  <2>. QED  BY <2>1, <2>2, <2>3, <2>4, <2>5 DEF DraftInv, ThemeState
<1>. QED  BY <1>1, DraftInvariant, PTL
-----------------------------------------------------------------------------
(* What the operations of the centre do to one message                     *)

In(s, m)     == \E i \in 1 .. Len(s) : s[i] = m
Single(s, m) == \A i, j \in 1 .. Len(s) : s[i] = m /\ s[j] = m => i = j

\* Shown or waiting; and not more than once.
Here(w, m) == w.shown = m \/ In(w.queue, m)
Once(w, m) == Single(w.queue, m) /\ (w.shown = m => ~In(w.queue, m))

Centers == [queue : Seq(Messages), shown : Messages \cup {None},
            windowShown : BOOLEAN, inTray : BOOLEAN, writeErrors : SUBSET Files,
            blocked : SUBSET {"Message", "Dialog", "FilePicker"}]

\* The window is blocked while a message is shown, and none waits in vain.
Loose(w) == w \in Centers /\ ("Message" \in w.blocked <=> w.shown # None)
Tidy(w)  == Loose(w) /\ (w.windowShown /\ ~w.inTray /\ w.shown = None => w.queue = <<>>)

\* The message m fares no worse in v than in w, and the rest is as it was.
Same(w, v, m) == (Here(v, m) <=> Here(w, m)) /\ (Once(w, m) => Once(v, m))
Rest(w, v) == /\ v.writeErrors = w.writeErrors
              /\ \A why \in {"Dialog", "FilePicker"} : why \in v.blocked <=> why \in w.blocked

\* A set of natural numbers has a least one.
LEMMA LeastNatural ==
  ASSUME NEW S \in SUBSET Nat, S # {}
  PROVE  \E m \in S : \A k \in S : m <= k
<1>. DEFINE Less == {ss \in Nat \X Nat : ss[1] < ss[2]}
<1>1. IsWellFoundedOn(Less, Nat)
  BY NatLessThanWellFounded, Zenon DEF OpToRel
<1>. HIDE DEF Less
<1>2. PICK m \in S : \A k \in S : <<k, m>> \notin Less
  BY <1>1, WFMin
<1>3. \A k \in S : ~(k < m)
  BY <1>2 DEF Less
<1>. QED  BY <1>3

\* What holds of 0 and goes from each number to the next holds of all.
LEMMA NatStep ==
  ASSUME NEW S \in SUBSET Nat, 0 \in S, \A n \in S : n + 1 \in S
  PROVE  S = Nat
<1>1. SUFFICES ASSUME Nat \ S # {} PROVE FALSE
  OBVIOUS
<1>2. PICK m \in Nat \ S : \A k \in Nat \ S : m <= k
  BY <1>1, LeastNatural
<1>3. m # 0 /\ m - 1 \in Nat /\ m - 1 \notin Nat \ S
  BY <1>2
<1>. QED  BY <1>2, <1>3

\* Append, and what it leaves of a message.
LEMMA AppendOne ==
  ASSUME NEW T, NEW s \in Seq(T), NEW x \in T
  PROVE  /\ Append(s, x) \in Seq(T)
         /\ \A m : In(Append(s, x), m) <=> In(s, m) \/ m = x
         /\ \A m : m # x /\ Single(s, m) => Single(Append(s, x), m)
         /\ ~In(s, x) => Single(Append(s, x), x)
<1>. DEFINE a == Append(s, x)
<1>1. /\ a \in Seq(T) /\ Len(s) \in Nat /\ Len(a) = Len(s) + 1
      /\ \A i \in 1 .. Len(s) : a[i] = s[i]
      /\ a[Len(s) + 1] = x
  OBVIOUS
<1>. HIDE DEF a
<1>2. ASSUME NEW m PROVE In(a, m) <=> In(s, m) \/ m = x
  <2>1. ASSUME In(a, m), m # x PROVE In(s, m)
    <3>1. PICK i \in 1 .. Len(a) : a[i] = m
      BY <2>1 DEF In
    <3>2. i # Len(s) + 1
      BY <1>1, <2>1, <3>1
    <3>3. i \in 1 .. Len(s)
      BY <1>1, <3>2
    <3>. QED  BY <1>1, <3>1, <3>3 DEF In
  <2>2. ASSUME In(s, m) PROVE In(a, m)
    BY <1>1, <2>2 DEF In
  <2>3. In(a, x)
    <3>1. Len(s) + 1 \in 1 .. Len(a)
      BY <1>1
    <3>. QED  BY <1>1, <3>1 DEF In
  <2>. QED  BY <2>1, <2>2, <2>3
<1>3. ASSUME NEW m, m # x, Single(s, m) PROVE Single(a, m)
  <2>1. ASSUME NEW i \in 1 .. Len(a), a[i] = m PROVE i \in 1 .. Len(s) /\ s[i] = m
    <3>1. i # Len(s) + 1
      BY <1>1, <1>3, <2>1
    <3>2. i \in 1 .. Len(s)
      BY <1>1, <3>1
    <3>. QED  BY <1>1, <2>1, <3>2
  <2>. QED  BY <1>3, <2>1 DEF Single
<1>4. ASSUME ~In(s, x) PROVE Single(a, x)
  <2>1. ASSUME NEW i \in 1 .. Len(a), a[i] = x PROVE i = Len(s) + 1
    <3>1. CASE i \in 1 .. Len(s)
      BY <1>1, <1>4, <2>1, <3>1 DEF In
    <3>2. CASE i \notin 1 .. Len(s)
      BY <1>1, <3>2
    <3>. QED  BY <3>1, <3>2
  <2>. QED  BY <2>1 DEF Single
<1>. QED  BY <1>1, <1>2, <1>3, <1>4 DEF a
\* retain: m is gone, every other message is there as often as before.
LEMMA RetainedStay ==
  ASSUME NEW T, NEW q \in Seq(T), NEW m
  PROVE  /\ Retained(q, m) \in Seq(T)
         /\ \A x : In(Retained(q, m), x) <=> x # m /\ In(q, x)
         /\ \A x : Single(q, x) => Single(Retained(q, m), x)
         /\ q = <<>> => Retained(q, m) = <<>>
<1>. DEFINE L == Len(q)
            Step(g, n) == IF n = 0 THEN <<>>
                          ELSE IF q[n] = m THEN g[n - 1]
                          ELSE Append(g[n - 1], q[n])
            Made == {n \in Nat : \E g : g = [k \in 0 .. n |-> Step(g, k)]}
<1>0. L \in Nat /\ \A n \in 1 .. L : q[n] \in T
  OBVIOUS
<1>1. 0 \in Made
  <2>. DEFINE g == [k \in 0 .. 0 |-> <<>>]
  <2>1. g = [k \in 0 .. 0 |-> Step(g, k)]
    OBVIOUS
  <2>. QED  BY <2>1
<1>2. \A n \in Made : n + 1 \in Made
  <2>. SUFFICES ASSUME NEW n \in Nat, NEW g, g = [k \in 0 .. n |-> Step(g, k)]
                PROVE  n + 1 \in Made
    OBVIOUS
  <2>. DEFINE h == [k \in 0 .. n + 1 |-> IF k <= n THEN g[k] ELSE Step(g, n + 1)]
  <2>1. \A k \in 0 .. n : h[k] = g[k]
    OBVIOUS
  <2>2. ASSUME NEW k \in 0 .. n + 1 PROVE h[k] = Step(h, k)
    <3>1. CASE k = 0
      BY <3>1
    <3>2. CASE k # 0
      <4>1. k - 1 \in 0 .. n
        BY <3>2
      <4>2. h[k - 1] = g[k - 1]
        BY <2>1, <4>1
      <4>3. Step(h, k) = Step(g, k)
        BY <4>2
      <4>4. CASE k <= n
        <5>1. k \in 0 .. n
          BY <4>4
        <5>2. g[k] = Step(g, k)
          BY <5>1, Zenon
        <5>. QED  BY <2>1, <4>3, <5>1, <5>2, Zenon
      <4>5. CASE ~(k <= n)
        <5>1. k = n + 1
          BY <4>5
        <5>. QED  BY <4>3, <5>1
      <4>. QED  BY <4>4, <4>5
    <3>. QED  BY <3>1, <3>2
  <2>3. h = [k \in 0 .. n + 1 |-> Step(h, k)]
    BY <2>2
  <2>. HIDE DEF h, Step
  <2>. QED  BY <2>3
<1>3. Made = Nat
  <2>1. Made \in SUBSET Nat
    OBVIOUS
  <2>. HIDE DEF Made
  <2>. QED  BY <1>1, <1>2, <2>1, NatStep
<1>4. \E g : g = [k \in 0 .. L |-> Step(g, k)]
  BY <1>0, <1>3
<1>. HIDE DEF Made
<1>. DEFINE g[n \in 0 .. L] ==
               IF n = 0 THEN <<>>
               ELSE IF q[n] = m THEN g[n - 1]
               ELSE Append(g[n - 1], q[n])
<1>5. g = [n \in 0 .. L |-> Step(g, n)]
  BY <1>4, Zenon
<1>6. Retained(q, m) = g[L]
  BY DEF Retained
<1>. HIDE DEF g
<1>. DEFINE Upto(n, x) == \E i \in 1 .. n : q[i] = x
            OnceUpto(n, x) == \A i, j \in 1 .. n : q[i] = x /\ q[j] = x => i = j
            Kept(n) == /\ g[n] \in Seq(T)
                       /\ \A x : In(g[n], x) <=> x # m /\ Upto(n, x)
                       /\ \A x : OnceUpto(n, x) => Single(g[n], x)
            Good == {n \in Nat : n <= L => Kept(n)}
<1>7. /\ g[0] = <<>>
      /\ \A n \in Nat : n + 1 <= L =>
            g[n + 1] = IF q[n + 1] # m THEN Append(g[n], q[n + 1]) ELSE g[n]
  <2>1. 0 \in 0 .. L
    BY <1>0
  <2>2. ASSUME NEW n \in Nat, n + 1 <= L PROVE n + 1 \in 0 .. L /\ n + 1 # 0 /\ (n + 1) - 1 = n
    BY <1>0, <2>2
  <2>3. g[0] = <<>>
    BY <1>5, <2>1
  <2>4. ASSUME NEW k \in 0 .. L, k # 0
        PROVE  g[k] = IF q[k] # m THEN Append(g[k - 1], q[k]) ELSE g[k - 1]
    BY <1>5, <2>4, Zenon
  <2>5. ASSUME NEW n \in Nat, n + 1 <= L
        PROVE  g[n + 1] = IF q[n + 1] # m THEN Append(g[n], q[n + 1]) ELSE g[n]
    BY <2>2, <2>4, <2>5
  <2>. QED  BY <2>3, <2>5
<1>8. Kept(0)
  <2>1. g[0] \in Seq(T) /\ Len(g[0]) = 0
    BY <1>7, EmptySeq
  <2>2. \A x : ~In(g[0], x) /\ Single(g[0], x) /\ ~Upto(0, x)
    BY <2>1 DEF In, Single
  <2>. QED  BY <2>1, <2>2
<1>. HIDE DEF L
<1>9. ASSUME NEW n \in Nat, n + 1 <= L, Kept(n)
      PROVE  Kept(n + 1)
  <2>0. n + 1 \in 1 .. L /\ q[n + 1] \in T
    <3>1. n + 1 \in 1 .. L
      BY <1>0, <1>9
    <3>. QED  BY <1>0, <3>1
  <2>1. ASSUME NEW x PROVE Upto(n + 1, x) <=> Upto(n, x) \/ q[n + 1] = x
    <3>1. \A i : i \in 1 .. n + 1 <=> i \in 1 .. n \/ i = n + 1
      OBVIOUS
    <3>. QED  BY <3>1
  <2>2. ASSUME NEW x, OnceUpto(n + 1, x)
        PROVE  OnceUpto(n, x) /\ (q[n + 1] = x => ~Upto(n, x))
    <3>1. \A i \in 1 .. n : i \in 1 .. n + 1 /\ i # n + 1
      OBVIOUS
    <3>2. n + 1 \in 1 .. n + 1
      OBVIOUS
    <3>. QED  BY <2>2, <3>1, <3>2
  <2>. HIDE DEF Upto, OnceUpto
  <2>3. CASE q[n + 1] = m
    <3>1. g[n + 1] = g[n]
      BY <1>7, <1>9, <2>3
    <3>2. \A x : x # m => (Upto(n + 1, x) <=> Upto(n, x))
      BY <2>1, <2>3
    <3>. QED  BY <1>9, <2>2, <3>1, <3>2
  <2>4. CASE q[n + 1] # m
    <3>1. g[n + 1] = Append(g[n], q[n + 1])
      BY <1>7, <1>9, <2>4
    <3>. DEFINE y == q[n + 1]
    <3>2. /\ g[n + 1] \in Seq(T)
          /\ \A x : In(g[n + 1], x) <=> In(g[n], x) \/ x = y
          /\ \A x : x # y /\ Single(g[n], x) => Single(g[n + 1], x)
          /\ ~In(g[n], y) => Single(g[n + 1], y)
      <4>. HIDE DEF y
      <4>1. g[n] \in Seq(T) /\ y \in T /\ g[n + 1] = Append(g[n], y)
        BY <1>9, <2>0, <3>1 DEF y
      <4>. QED  BY <4>1, AppendOne
    <3>3. ASSUME NEW x PROVE In(g[n + 1], x) <=> x # m /\ Upto(n + 1, x)
      BY <1>9, <2>1, <2>4, <3>2
    <3>4. ASSUME NEW x, OnceUpto(n + 1, x) PROVE Single(g[n + 1], x)
      <4>1. CASE x = y
        BY <1>9, <2>2, <3>2, <3>4, <4>1
      <4>2. CASE x # y
        BY <1>9, <2>2, <3>2, <3>4, <4>2
      <4>. QED  BY <4>1, <4>2
    <3>. QED  BY <3>2, <3>3, <3>4
  <2>. QED  BY <2>3, <2>4
<1>10. Kept(L)
  <2>. HIDE DEF Kept
  <2>1. 0 \in Good
    BY <1>8
  <2>2. \A n \in Good : n + 1 \in Good
    <3>. SUFFICES ASSUME NEW n \in Nat, n <= L => Kept(n), n + 1 <= L
                  PROVE  Kept(n + 1)
      OBVIOUS
    <3>1. n <= L
      BY <1>0
    <3>. QED  BY <1>9, <3>1
  <2>3. Good = Nat
    <3>1. Good \in SUBSET Nat
      OBVIOUS
    <3>. HIDE DEF Good
    <3>. QED  BY <2>1, <2>2, <3>1, NatStep
  <2>. QED  BY <1>0, <2>3
<1>11. q = <<>> => g[L] = <<>>
  <2>. SUFFICES ASSUME q = <<>> PROVE g[L] = <<>>
    OBVIOUS
  <2>1. L = 0
    BY DEF L
  <2>. QED  BY <1>7, <2>1
<1>12. \A x : (Upto(L, x) <=> In(q, x)) /\ (OnceUpto(L, x) <=> Single(q, x))
  BY DEF L, In, Single
<1>. HIDE DEF Upto, OnceUpto
<1>. QED  BY <1>10, <1>11, <1>12, <1>6

\* Taking the first of a queue.
LEMMA HeadAndTail ==
  ASSUME NEW T, NEW s \in Seq(T), s # <<>>
  PROVE  /\ Head(s) \in T /\ Tail(s) \in Seq(T)
         /\ \A m : In(s, m) <=> m = Head(s) \/ In(Tail(s), m)
         /\ \A m : Single(s, m) => Single(Tail(s), m) /\ (m = Head(s) => ~In(Tail(s), m))
<1>. DEFINE t == Tail(s)
<1>1. /\ t \in Seq(T) /\ Len(s) \in Nat /\ Len(s) >= 1 /\ Len(t) = Len(s) - 1
      /\ \A i \in 1 .. Len(s) - 1 : t[i] = s[i + 1]
      /\ Head(s) = s[1] /\ s[1] \in T
  OBVIOUS
<1>. HIDE DEF t
<1>2. \A i \in 1 .. Len(t) : i + 1 \in 1 .. Len(s) /\ i + 1 # 1 /\ t[i] = s[i + 1]
  BY <1>1
<1>3. 1 \in 1 .. Len(s)
  BY <1>1
<1>4. ASSUME NEW m, In(s, m), m # s[1] PROVE In(t, m)
  <2>1. PICK i \in 1 .. Len(s) : s[i] = m
    BY <1>4 DEF In
  <2>2. i # 1
    BY <1>4, <2>1
  <2>3. i - 1 \in 1 .. Len(t) /\ (i - 1) + 1 = i
    BY <1>1, <2>2
  <2>4. t[i - 1] = m
    BY <1>2, <2>1, <2>3
  <2>. QED  BY <2>3, <2>4 DEF In
<1>5. ASSUME NEW m, In(t, m) \/ m = s[1] PROVE In(s, m)
  BY <1>2, <1>3, <1>5 DEF In
<1>6. ASSUME NEW m, Single(s, m) PROVE Single(t, m) /\ (m = s[1] => ~In(t, m))
  <2>1. ASSUME NEW i \in 1 .. Len(t), NEW j \in 1 .. Len(t), t[i] = m, t[j] = m PROVE i = j
    <3>1. i + 1 = j + 1
      BY <1>2, <1>6, <2>1 DEF Single
    <3>. QED  BY <3>1
  <2>2. ASSUME m = s[1], NEW i \in 1 .. Len(t), t[i] = m PROVE FALSE
    BY <1>2, <1>3, <1>6, <2>2 DEF Single
  <2>. QED  BY <2>1, <2>2 DEF Single, In
<1>. QED  BY <1>1, <1>4, <1>5, <1>6 DEF t
\* What may be shown is never "nothing".
LEMMA MessageTypes ==
  /\ \A k \in {"info", "stalled", "modeNotice", "lockOpen", "writeErrors"} : Plain(k) \in Messages
  /\ \A r \in Reasons : LockFailure(r) \in Messages
  /\ WriteErrors \in Messages
  /\ \A m \in Messages : m # None
BY NoneAssumption DEF Messages, WriteErrors

LEMMA HideFacts ==
  ASSUME NEW w, Loose(w)
  PROVE  /\ Loose(Hide(w)) /\ Rest(w, Hide(w)) /\ Hide(w).shown = None
         /\ Hide(w).queue = w.queue /\ Hide(w).windowShown = w.windowShown
         /\ Hide(w).inTray = w.inTray
         /\ \A m \in Messages : m # w.shown => Same(w, Hide(w), m)
         /\ \A m \in Messages : m = w.shown /\ Once(w, m) => ~Here(Hide(w), m)
<1>. DEFINE v == Hide(w)
<1>1. w \in Centers /\ ("Message" \in w.blocked <=> w.shown # None)
  BY DEF Loose
<1>2. /\ v \in Centers /\ v.shown = None /\ v.queue = w.queue /\ v.windowShown = w.windowShown
      /\ v.inTray = w.inTray /\ v.writeErrors = w.writeErrors
      /\ v.blocked = w.blocked \ {"Message"}
  BY <1>1 DEF Hide, Unblock, Centers
<1>. HIDE DEF v
<1>3. Loose(v) /\ Rest(w, v)
  BY <1>1, <1>2 DEF Loose, Rest
<1>4. \A m \in Messages : m # w.shown => Same(w, v, m)
  BY <1>2, MessageTypes DEF Same, Here, Once
<1>5. \A m \in Messages : m = w.shown /\ Once(w, m) => ~Here(v, m)
  BY <1>2, MessageTypes DEF Here, Once
<1>. QED  BY <1>2, <1>3, <1>4, <1>5 DEF v

\* What waits comes on the screen when it can, and nothing else changes.
LEMMA ShowNextFacts ==
  ASSUME NEW w, Loose(w)
  PROVE  /\ Tidy(show_next(w)) /\ Rest(w, show_next(w))
         /\ \A m \in Messages : Same(w, show_next(w), m)
<1>1. w \in Centers /\ ("Message" \in w.blocked <=> w.shown # None) /\ w.queue \in Seq(Messages)
  BY DEF Loose, Centers
<1>2. CASE ~w.windowShown \/ w.inTray \/ w.shown # None \/ w.queue = <<>>
  <2>1. show_next(w) = w
    BY <1>2 DEF show_next
  <2>. QED  BY <1>2, <2>1 DEF Tidy, Rest, Same
<1>3. CASE ~(~w.windowShown \/ w.inTray \/ w.shown # None \/ w.queue = <<>>)
  <2>. DEFINE h == Head(w.queue)  t == Tail(w.queue)
              v == Block([w EXCEPT !.shown = h, !.queue = t], "Message")
  <2>1. show_next(w) = v
    BY <1>3 DEF show_next
  <2>2. /\ h \in Messages /\ t \in Seq(Messages)
        /\ \A m : In(w.queue, m) <=> m = h \/ In(t, m)
        /\ \A m : Single(w.queue, m) => Single(t, m) /\ (m = h => ~In(t, m))
    BY <1>1, <1>3, HeadAndTail
  <2>. HIDE DEF h, t
  <2>3. /\ v \in Centers /\ v.shown = h /\ v.queue = t /\ v.writeErrors = w.writeErrors
        /\ v.blocked = w.blocked \cup {"Message"}
    BY <1>1, <2>2 DEF Block, Centers
  <2>. HIDE DEF v
  <2>4. Tidy(v) /\ Rest(w, v)
    BY <2>2, <2>3, MessageTypes DEF Tidy, Loose, Rest
  <2>5. \A m \in Messages : Same(w, v, m)
    BY <1>3, <2>2, <2>3, MessageTypes DEF Same, Here, Once
  <2>. QED  BY <2>1, <2>4, <2>5
<1>. QED  BY <1>2, <1>3

\* push: the message is there, once if it was not.
LEMMA PushFacts ==
  ASSUME NEW w, Loose(w), NEW x \in Messages
  PROVE  /\ Tidy(push(w, x)) /\ Rest(w, push(w, x))
         /\ \A m \in Messages : m # x => Same(w, push(w, x), m)
         /\ Here(push(w, x), x)
         /\ ~Here(w, x) => Once(push(w, x), x)
<1>. DEFINE v == [w EXCEPT !.queue = Append(@, x)]
<1>1. w \in Centers /\ ("Message" \in w.blocked <=> w.shown # None) /\ w.queue \in Seq(Messages)
  BY DEF Loose, Centers
<1>2. /\ Append(w.queue, x) \in Seq(Messages)
      /\ \A m : In(Append(w.queue, x), m) <=> In(w.queue, m) \/ m = x
      /\ \A m : m # x /\ Single(w.queue, m) => Single(Append(w.queue, x), m)
      /\ ~In(w.queue, x) => Single(Append(w.queue, x), x)
  BY <1>1, AppendOne
<1>3. /\ v \in Centers /\ v.queue = Append(w.queue, x) /\ v.shown = w.shown
      /\ v.blocked = w.blocked /\ v.writeErrors = w.writeErrors
  BY <1>1, <1>2 DEF Centers
<1>4. push(w, x) = show_next(v)
  BY DEF push
<1>. HIDE DEF v
<1>5. Loose(v) /\ Rest(w, v)
  BY <1>1, <1>3 DEF Loose, Rest
<1>6. \A m \in Messages : m # x => Same(w, v, m)
  BY <1>2, <1>3 DEF Same, Here, Once
<1>7. Here(v, x) /\ (~Here(w, x) => Once(v, x))
  BY <1>2, <1>3 DEF Here, Once
<1>8. /\ Tidy(show_next(v)) /\ Rest(v, show_next(v))
      /\ \A m \in Messages : Same(v, show_next(v), m)
  BY <1>5, ShowNextFacts
<1>. QED  BY <1>4, <1>5, <1>6, <1>7, <1>8 DEF Same, Rest
LEMMA WithoutFacts ==
  ASSUME NEW w, Tidy(w), NEW x \in Messages, w.shown # x
  PROVE  /\ Tidy(Without(w, x)) /\ Rest(w, Without(w, x))
         /\ \A m \in Messages : m # x => Same(w, Without(w, x), m)
         /\ ~Here(Without(w, x), x)
<1>. DEFINE v == Without(w, x)  k == Retained(w.queue, x)
<1>1. w \in Centers /\ ("Message" \in w.blocked <=> w.shown # None) /\ w.queue \in Seq(Messages)
  BY DEF Tidy, Loose, Centers
<1>2. /\ k \in Seq(Messages)
      /\ \A m : In(k, m) <=> m # x /\ In(w.queue, m)
      /\ \A m : Single(w.queue, m) => Single(k, m)
      /\ w.queue = <<>> => k = <<>>
  BY <1>1, RetainedStay
<1>. HIDE DEF k
<1>3. /\ v \in Centers /\ v.queue = k /\ v.shown = w.shown /\ v.windowShown = w.windowShown
      /\ v.inTray = w.inTray /\ v.blocked = w.blocked /\ v.writeErrors = w.writeErrors
  BY <1>1, <1>2 DEF Without, Centers, k
<1>. HIDE DEF v
<1>4. Tidy(v) /\ Rest(w, v)
  BY <1>1, <1>2, <1>3 DEF Tidy, Loose, Rest
<1>5. \A m \in Messages : m # x => Same(w, v, m)
  BY <1>2, <1>3 DEF Same, Here, Once
<1>6. ~Here(v, x)
  BY <1>2, <1>3 DEF Here
<1>. QED  BY <1>4, <1>5, <1>6 DEF v

\* Closing what is shown brings the next one: the message closed is gone if
\* there was one of it.
LEMMA CloseFacts ==
  ASSUME NEW w, Loose(w)
  PROVE  /\ Tidy(show_next(Hide(w))) /\ Rest(w, show_next(Hide(w)))
         /\ \A m \in Messages : m # w.shown => Same(w, show_next(Hide(w)), m)
         /\ \A m \in Messages : m = w.shown /\ Once(w, m) => ~Here(show_next(Hide(w)), m)
<1>. DEFINE h == Hide(w)  v == show_next(h)
<1>1. /\ Loose(h) /\ Rest(w, h)
      /\ \A m \in Messages : m # w.shown => Same(w, h, m)
      /\ \A m \in Messages : m = w.shown /\ Once(w, m) => ~Here(h, m)
  BY HideFacts
<1>. HIDE DEF h
<1>2. Tidy(v) /\ Rest(h, v) /\ \A m \in Messages : Same(h, v, m)
  BY <1>1, ShowNextFacts
<1>. HIDE DEF v
<1>3. Rest(w, v)
  BY <1>1, <1>2 DEF Rest
<1>. QED  BY <1>1, <1>2, <1>3 DEF Same, h, v

LEMMA RetractFacts ==
  ASSUME NEW w, Tidy(w), NEW x \in Messages
  PROVE  /\ Tidy(retract(w, x)) /\ Rest(w, retract(w, x))
         /\ \A m \in Messages : m # x => Same(w, retract(w, x), m)
         /\ Once(w, x) => ~Here(retract(w, x), x)
<1>1. CASE w.shown = x
  BY <1>1, CloseFacts DEF retract, Tidy
<1>2. CASE w.shown # x
  BY <1>2, WithoutFacts DEF retract
<1>. QED  BY <1>1, <1>2

\* A button of the message shown closes it, but for "Retry" of the summary.
LEMMA PressFacts ==
  ASSUME NEW w, Tidy(w), w.shown # None, NEW action
  PROVE  /\ Tidy(press(w, action))
         /\ \A why \in {"Dialog", "FilePicker"} : why \in press(w, action).blocked <=> why \in w.blocked
         /\ \A m \in Messages : m # w.shown => Same(w, press(w, action), m)
         /\ w.shown # WriteErrors => press(w, action).writeErrors = w.writeErrors
         /\ \/ press(w, action) = w /\ w.shown = WriteErrors
            \/ /\ w.shown = WriteErrors => press(w, action).writeErrors = {}
               /\ \A m \in Messages : m = w.shown /\ Once(w, m) => ~Here(press(w, action), m)
<1>1. CASE w.shown = WriteErrors /\ action = "Retry"
  <2>1. press(w, action) = w
    BY <1>1 DEF press
  <2>. QED  BY <1>1, <2>1 DEF Same
<1>2. CASE ~(w.shown = WriteErrors /\ action = "Retry")
  <2>. DEFINE u == IF w.shown = WriteErrors THEN [w EXCEPT !.writeErrors = {}] ELSE w
              v == show_next(Hide(u))
  <2>1. press(w, action) = v
    BY <1>2 DEF press
  <2>2. w \in Centers /\ ("Message" \in w.blocked <=> w.shown # None)
    BY DEF Tidy, Loose
  <2>3. /\ u \in Centers /\ u.queue = w.queue /\ u.shown = w.shown /\ u.blocked = w.blocked
        /\ w.shown = WriteErrors => u.writeErrors = {}
        /\ w.shown # WriteErrors => u.writeErrors = w.writeErrors
    BY <2>2 DEF Centers
  <2>. HIDE DEF u
  <2>4. Loose(u) /\ \A m : Same(w, u, m) /\ (Once(w, m) <=> Once(u, m))
    BY <2>2, <2>3 DEF Loose, Same, Here, Once
  <2>5. /\ Tidy(v) /\ Rest(u, v)
        /\ \A m \in Messages : m # u.shown => Same(u, v, m)
        /\ \A m \in Messages : m = u.shown /\ Once(u, m) => ~Here(v, m)
    BY <2>4, CloseFacts
  <2>. HIDE DEF v
  <2>6. \A m \in Messages : m # w.shown => Same(w, v, m)
    BY <2>3, <2>4, <2>5 DEF Same
  <2>. QED  BY <2>1, <2>3, <2>4, <2>5, <2>6 DEF Rest
<1>. QED  BY <1>1, <1>2

\* The window is shown, or leaves the tray or goes there.
LEMMA WindowFacts ==
  ASSUME NEW w, Tidy(w), NEW hidden \in BOOLEAN
  PROVE  \A v \in {window_shown(w), set_in_tray(w, hidden)} :
           Tidy(v) /\ Rest(w, v) /\ \A m \in Messages : Same(w, v, m)
<1>. DEFINE a == [w EXCEPT !.windowShown = TRUE]  b == [w EXCEPT !.inTray = hidden]
<1>1. w \in Centers /\ ("Message" \in w.blocked <=> w.shown # None)
  BY DEF Tidy, Loose
<1>2. /\ a \in Centers /\ a.queue = w.queue /\ a.shown = w.shown
      /\ a.blocked = w.blocked /\ a.writeErrors = w.writeErrors
  BY <1>1 DEF Centers
<1>3. /\ b \in Centers /\ b.queue = w.queue /\ b.shown = w.shown /\ b.inTray = hidden
      /\ b.blocked = w.blocked /\ b.writeErrors = w.writeErrors
  BY <1>1 DEF Centers
<1>4. window_shown(w) = show_next(a)
  BY DEF window_shown
<1>5. set_in_tray(w, hidden) = IF hidden THEN b ELSE show_next(b)
  BY DEF set_in_tray
<1>. HIDE DEF a, b
<1>6. /\ Loose(a) /\ Rest(w, a) /\ \A m : Same(w, a, m)
      /\ Loose(b) /\ Rest(w, b) /\ \A m : Same(w, b, m)
      /\ hidden => Tidy(b)
  BY <1>1, <1>2, <1>3 DEF Tidy, Loose, Rest, Same, Here, Once
<1>7. /\ Tidy(show_next(a)) /\ Rest(a, show_next(a)) /\ \A m \in Messages : Same(a, show_next(a), m)
      /\ Tidy(show_next(b)) /\ Rest(b, show_next(b)) /\ \A m \in Messages : Same(b, show_next(b), m)
  BY <1>6, ShowNextFacts
<1>8. /\ Rest(w, show_next(a)) /\ \A m \in Messages : Same(w, show_next(a), m)
      /\ Rest(w, show_next(b)) /\ \A m \in Messages : Same(w, show_next(b), m)
  BY <1>6, <1>7 DEF Rest, Same
<1>. QED  BY <1>4, <1>5, <1>6, <1>7, <1>8
-----------------------------------------------------------------------------
(* Every cause has its message *)

Notice == Plain("modeNotice")

\* The summary of write errors is there while there are any.
Summary(w) == /\ Once(w, WriteErrors)
              /\ Here(w, WriteErrors) <=> w.writeErrors # {}

NoticeHere(w, fl) == "modeNotice" \in fl => Here(w, Notice)

\* Of the messages about the lock the one tracked is there, and no other.
LockTold(w, l, told) ==
  /\ told # None => \E r \in Reasons : told = LockFailure(r)
  /\ \A r \in Reasons :
       /\ told = LockFailure(r) => l = [state |-> "Failed", reason |-> r]
       /\ Once(w, LockFailure(r))
       /\ Here(w, LockFailure(r)) <=> told = LockFailure(r)

Causes(w, l, fl, told) == Summary(w) /\ NoticeHere(w, fl) /\ LockTold(w, l, told)

OnScreen(w, d, p) ==
  /\ Tidy(w)
  /\ "Dialog" \in w.blocked <=> d # None
  /\ "FilePicker" \in w.blocked <=> p # None

\* A file dialog is open only while nothing loads, and a scan runs only then.
LoadInv ==
  /\ picker \in {None, "AddFiles", "LoadPlaylist", "SavePlaylist"}
  /\ loading \in {None, "Startup", "Command"}
  /\ load \in [state : {"Idle", "Startup", "Command"}, gen : Nat]
  /\ scan \in BOOLEAN
  /\ loading = "Startup" <=> load.state = "Startup"
  /\ loading = "Command" <=> (load.state = "Command" \/ scan)
  /\ scan => load.state = "Idle"
  /\ picker # None => loading = None
  /\ load.state # "Idle" => load.gen \in outcomes

WindowInv == /\ OnScreen(center, draft, picker)
             /\ running => Causes(center, lock, flags, lockMsg)
             /\ LoadInv

LEMMA MessagesApart ==
  /\ Notice \in Messages /\ Notice # WriteErrors
  /\ \A k \in {"info", "stalled", "lockOpen"} : Plain(k) # WriteErrors /\ Plain(k) # Notice
  /\ \A r \in Reasons :
       /\ LockFailure(r) # WriteErrors /\ LockFailure(r) # Notice
       /\ \A k \in {"info", "stalled", "lockOpen"} : Plain(k) # LockFailure(r)
       /\ \A q \in Reasons : LockFailure(r) = LockFailure(q) => r = q
<1>1. Notice \in Messages
  BY MessageTypes DEF Notice
<1>. QED  BY <1>1 DEF Notice, WriteErrors, Plain, LockFailure

LEMMA GoneIsOnce ==
  ASSUME NEW w, NEW m, ~Here(w, m)
  PROVE  Once(w, m)
BY DEF Here, Once, In, Single

\* What does not touch a cause's message leaves the cause with it.
LEMMA CausesStay ==
  ASSUME NEW w, NEW v, NEW l, NEW fl, NEW told
  PROVE  /\ /\ v.writeErrors = w.writeErrors /\ Same(w, v, WriteErrors)
            /\ Summary(w)
            => Summary(v)
         /\ Same(w, v, Notice) /\ NoticeHere(w, fl) => NoticeHere(v, fl)
         /\ (\A r \in Reasons : Same(w, v, LockFailure(r))) /\ LockTold(w, l, told)
            => LockTold(v, l, told)
BY DEF Summary, NoticeHere, LockTold, Same

\* The reasons that block the window are no messages.
LEMMA BlockedAlone ==
  ASSUME NEW w, NEW v, v.queue = w.queue, v.shown = w.shown, v.writeErrors = w.writeErrors,
         NEW l, NEW fl, NEW told, Causes(w, l, fl, told)
  PROVE  Causes(v, l, fl, told)
<1>1. \A m : Same(w, v, m)
  BY DEF Same, Here, Once
<1>. QED  BY <1>1, CausesStay DEF Causes

LEMMA WriteFailedFacts ==
  ASSUME NEW w, Tidy(w), Summary(w), NEW f \in Files
  PROVE  /\ Tidy(write_failed(w, f)) /\ Summary(write_failed(w, f))
         /\ \A why \in {"Dialog", "FilePicker"} :
              why \in write_failed(w, f).blocked <=> why \in w.blocked
         /\ \A m \in Messages : m # WriteErrors => Same(w, write_failed(w, f), m)
<1>. DEFINE u == [w EXCEPT !.writeErrors = @ \cup {f}]
<1>1. w \in Centers /\ ("Message" \in w.blocked <=> w.shown # None)
  BY DEF Tidy, Loose
<1>2. /\ u \in Centers /\ u.queue = w.queue /\ u.shown = w.shown /\ u.windowShown = w.windowShown
      /\ u.inTray = w.inTray /\ u.blocked = w.blocked
      /\ u.writeErrors = w.writeErrors \cup {f}
  BY <1>1 DEF Centers
<1>3. Holds(w, WriteErrors) <=> Here(w, WriteErrors)
  BY <1>1 DEF Holds, Here, In, ToSet, Centers
<1>4. write_failed(w, f) = IF Here(w, WriteErrors) THEN u ELSE push(u, WriteErrors)
  BY <1>3 DEF write_failed
<1>. HIDE DEF u
<1>5. Tidy(u) /\ \A m : Same(w, u, m) /\ (Here(w, m) <=> Here(u, m))
  BY <1>1, <1>2 DEF Tidy, Loose, Same, Here, Once
<1>6. CASE Here(w, WriteErrors)
  BY <1>2, <1>4, <1>5, <1>6 DEF Summary, Same
<1>7. CASE ~Here(w, WriteErrors)
  <2>. DEFINE v == push(u, WriteErrors)
  <2>1. /\ Tidy(v) /\ Rest(u, v) /\ Here(v, WriteErrors) /\ Once(v, WriteErrors)
        /\ \A m \in Messages : m # WriteErrors => Same(u, v, m)
    BY <1>5, <1>7, PushFacts, MessageTypes DEF Tidy
  <2>. HIDE DEF v
  <2>2. Summary(v) /\ \A m \in Messages : m # WriteErrors => Same(w, v, m)
    BY <1>2, <1>5, <2>1 DEF Summary, Rest, Same
  <2>. QED  BY <1>2, <1>4, <1>7, <2>1, <2>2 DEF Rest, v
<1>. QED  BY <1>6, <1>7

LEMMA WriteSucceededFacts ==
  ASSUME NEW w, Tidy(w), Summary(w), NEW f \in Files
  PROVE  /\ Tidy(write_succeeded(w, f)) /\ Summary(write_succeeded(w, f))
         /\ \A why \in {"Dialog", "FilePicker"} :
              why \in write_succeeded(w, f).blocked <=> why \in w.blocked
         /\ \A m \in Messages : m # WriteErrors => Same(w, write_succeeded(w, f), m)
<1>. DEFINE u == [w EXCEPT !.writeErrors = @ \ {f}]
<1>1. w \in Centers /\ ("Message" \in w.blocked <=> w.shown # None)
  BY DEF Tidy, Loose
<1>2. /\ u \in Centers /\ u.queue = w.queue /\ u.shown = w.shown /\ u.windowShown = w.windowShown
      /\ u.inTray = w.inTray /\ u.blocked = w.blocked
      /\ u.writeErrors = w.writeErrors \ {f}
  BY <1>1 DEF Centers
<1>3. write_succeeded(w, f) = IF u.writeErrors # {} THEN u
                              ELSE IF u.shown = WriteErrors THEN show_next(Hide(u))
                              ELSE Without(u, WriteErrors)
  BY DEF write_succeeded
<1>. HIDE DEF u
<1>4. Tidy(u) /\ \A m : Same(w, u, m) /\ (Once(w, m) <=> Once(u, m))
  BY <1>1, <1>2 DEF Tidy, Loose, Same, Here, Once
<1>5. CASE u.writeErrors # {}
  <2>1. w.writeErrors # {}
    BY <1>2, <1>5
  <2>. QED  BY <1>2, <1>3, <1>4, <1>5, <2>1 DEF Summary, Same
<1>6. CASE u.writeErrors = {}
  <2>1. PICK v : /\ v = write_succeeded(w, f) /\ Tidy(v) /\ Rest(u, v)
                 /\ \A m \in Messages : m # WriteErrors => Same(u, v, m)
                 /\ ~Here(v, WriteErrors)
    <3>1. CASE u.shown = WriteErrors
      <4>1. Once(u, WriteErrors) /\ Loose(u)
        BY <1>4 DEF Summary, Tidy
      <4>. QED  BY <1>3, <1>6, <3>1, <4>1, CloseFacts, MessageTypes
    <3>2. CASE u.shown # WriteErrors
      BY <1>3, <1>4, <1>6, <3>2, WithoutFacts, MessageTypes
    <3>. QED  BY <3>1, <3>2
  <2>2. Summary(v)
    BY <1>6, <2>1, GoneIsOnce DEF Summary, Rest
  <2>3. \A m \in Messages : m # WriteErrors => Same(w, v, m)
    BY <1>4, <2>1 DEF Same
  <2>. QED  BY <1>2, <2>1, <2>2, <2>3 DEF Rest
<1>. QED  BY <1>5, <1>6
\* A capture fails, fails for another reason, or no longer fails: the message
\* of the old reason goes, that of the new one comes.
LEMMA LockEventStep ==
  ASSUME Tidy(center), Causes(center, lock, flags, lockMsg), NEW next \in Locks, LockEvent(next)
  PROVE  /\ Tidy(center') /\ Causes(center', lock', flags', lockMsg')
         /\ \A why \in {"Dialog", "FilePicker"} : why \in center'.blocked <=> why \in center.blocked
<1>. DEFINE gone == dismiss_lock_failure_message
<1>1. /\ center' = apply_lock_failure_message(next)[1]
      /\ lockMsg' = apply_lock_failure_message(next)[2]
      /\ lock' = next /\ (flags' = flags \/ flags' = flags \ {"captureAndPlay"})
  BY DEF LockEvent
<1>2. Summary(center) /\ NoticeHere(center, flags) /\ LockTold(center, lock, lockMsg)
  BY DEF Causes
\* Without its message, of which there is one, no reason is told of.
<1>3. /\ Tidy(gone) /\ Rest(center, gone)
      /\ \A m \in {WriteErrors, Notice} : Same(center, gone, m)
      /\ \A r \in Reasons : ~Here(gone, LockFailure(r))
  <2>1. CASE lockMsg = None
    <3>1. gone = center
      BY <2>1 DEF dismiss_lock_failure_message
    <3>2. \A r \in Reasons : ~Here(center, LockFailure(r))
      BY <1>2, <2>1, MessageTypes DEF LockTold
    <3>. QED  BY <3>1, <3>2 DEF Rest, Same
  <2>2. CASE lockMsg # None
    <3>1. gone = retract(center, lockMsg)
      BY <2>2 DEF dismiss_lock_failure_message
    <3>2. PICK r \in Reasons : lockMsg = LockFailure(r)
      BY <1>2, <2>2 DEF LockTold
    <3>3. /\ Tidy(gone) /\ Rest(center, gone)
          /\ \A m \in Messages : m # lockMsg => Same(center, gone, m)
          /\ ~Here(gone, lockMsg)
      BY <1>2, <3>1, <3>2, RetractFacts, MessageTypes DEF LockTold
    <3>4. \A q \in Reasons : q # r => ~Here(gone, LockFailure(q))
      BY <1>2, <3>2, <3>3, MessageTypes, MessagesApart DEF LockTold, Same
    <3>. QED  BY <3>2, <3>3, <3>4, MessageTypes, MessagesApart
  <2>. QED  BY <2>1, <2>2
<1>. HIDE DEF gone
<1>4. CASE next = lock
  <2>1. center' = center /\ lockMsg' = lockMsg /\ lock' = lock
    BY <1>1, <1>4 DEF apply_lock_failure_message
  <2>2. NoticeHere(center', flags')
    BY <1>1, <1>2, <2>1 DEF NoticeHere
  <2>. QED  BY <1>2, <2>1, <2>2 DEF Causes
<1>5. CASE next # lock /\ next.state = "Failed"
  <2>1. PICK r \in Reasons : next = [state |-> "Failed", reason |-> r]
    BY <1>5 DEF Locks
  <2>. DEFINE m == LockFailure(r)  w == IF lock.state = "Failed" THEN gone ELSE center
  <2>2. center' = push(w, m) /\ lockMsg' = m
    BY <1>1, <1>5, <2>1 DEF apply_lock_failure_message, gone
  <2>3. /\ Tidy(w) /\ Rest(center, w)
        /\ \A x \in {WriteErrors, Notice} : Same(center, w, x)
        /\ \A q \in Reasons : ~Here(w, LockFailure(q))
    <3>1. CASE lock.state = "Failed"
      BY <1>3, <3>1
    <3>2. CASE lock.state # "Failed"
      BY <1>2, <3>2 DEF LockTold, Rest, Same
    <3>. QED  BY <3>1, <3>2
  <2>. HIDE DEF w
  <2>4. /\ Tidy(center') /\ Rest(w, center')
        /\ \A x \in Messages : x # m => Same(w, center', x)
        /\ Here(center', m) /\ Once(center', m)
    BY <2>2, <2>3, PushFacts, MessageTypes DEF Tidy
  <2>. HIDE DEF m
  <2>5. Summary(center')
    BY <1>2, <2>3, <2>4, MessageTypes, MessagesApart DEF Summary, Rest, Same, m
  <2>6. NoticeHere(center', flags')
    BY <1>1, <1>2, <2>3, <2>4, MessageTypes, MessagesApart DEF NoticeHere, Same, m
  <2>7. LockTold(center', lock', lockMsg')
    <3>1. ASSUME NEW q \in Reasons, q # r
          PROVE  Once(center', LockFailure(q)) /\ ~Here(center', LockFailure(q)) /\ LockFailure(q) # m
      BY <2>3, <2>4, <3>1, MessageTypes, MessagesApart, GoneIsOnce DEF Same, m
    <3>2. lock' = [state |-> "Failed", reason |-> r] /\ lockMsg' = LockFailure(r) /\ m = LockFailure(r)
      BY <1>1, <2>1, <2>2 DEF m
    <3>. QED  BY <2>4, <3>1, <3>2 DEF LockTold
  <2>. QED  BY <2>3, <2>4, <2>5, <2>6, <2>7 DEF Causes, Rest
<1>6. CASE next # lock /\ next.state # "Failed" /\ lock.state = "Failed"
  <2>1. center' = gone /\ lockMsg' = None
    BY <1>1, <1>6 DEF apply_lock_failure_message, gone
  <2>2. Summary(center') /\ NoticeHere(center', flags')
    BY <1>1, <1>2, <1>3, <2>1 DEF Summary, NoticeHere, Rest, Same
  <2>3. LockTold(center', lock', lockMsg')
    BY <1>3, <2>1, MessageTypes, GoneIsOnce DEF LockTold
  <2>. QED  BY <1>3, <2>1, <2>2, <2>3 DEF Causes, Rest
<1>7. CASE next # lock /\ next.state # "Failed" /\ lock.state # "Failed"
  <2>1. center' = center /\ lockMsg' = lockMsg
    BY <1>1, <1>7 DEF apply_lock_failure_message
  <2>2. NoticeHere(center', flags')
    BY <1>1, <1>2, <2>1 DEF NoticeHere
  <2>3. LockTold(center', lock', lockMsg')
    <3>1. \A r \in Reasons : lockMsg # LockFailure(r)
      BY <1>2, <1>7 DEF LockTold
    <3>. QED  BY <1>2, <2>1, <3>1 DEF LockTold
  <2>. QED  BY <1>2, <2>1, <2>2, <2>3 DEF Causes
<1>. QED  BY <1>4, <1>5, <1>6, <1>7

\* A button closes what is shown, and with it the cause.
LEMMA PressStep ==
  ASSUME Tidy(center), Causes(center, lock, flags, lockMsg), center.shown # None, NEW action,
         lockMsg' = (IF lockMsg = center.shown THEN None ELSE lockMsg),
         flags' = (IF action = "CaptureAndPlay" THEN {"captureAndPlay"} ELSE flags \ {"modeNotice"})
  PROVE  Causes(press(center, action), lock, flags', lockMsg')
<1>. DEFINE v == press(center, action)
<1>1. Summary(center) /\ NoticeHere(center, flags) /\ LockTold(center, lock, lockMsg)
  BY DEF Causes
<1>2. /\ \A m \in Messages : m # center.shown => Same(center, v, m)
      /\ center.shown # WriteErrors => v.writeErrors = center.writeErrors
      /\ \/ v = center /\ center.shown = WriteErrors
         \/ /\ center.shown = WriteErrors => v.writeErrors = {}
            /\ \A m \in Messages : m = center.shown /\ Once(center, m) => ~Here(v, m)
  BY PressFacts
<1>. HIDE DEF v
<1>3. Summary(v)
  <2>1. CASE center.shown # WriteErrors
    BY <1>1, <1>2, <2>1, MessageTypes DEF Summary, Same
  <2>2. CASE center.shown = WriteErrors
    BY <1>1, <1>2, <2>2, MessageTypes, GoneIsOnce DEF Summary
  <2>. QED  BY <2>1, <2>2
<1>4. NoticeHere(v, flags')
  BY DEF NoticeHere
<1>5. LockTold(v, lock, lockMsg')
  <2>1. lockMsg' # None => \E r \in Reasons : lockMsg' = LockFailure(r)
    BY <1>1 DEF LockTold
  <2>2. ASSUME NEW r \in Reasons
        PROVE  /\ lockMsg' = LockFailure(r) => lock = [state |-> "Failed", reason |-> r]
               /\ Once(v, LockFailure(r))
               /\ Here(v, LockFailure(r)) <=> lockMsg' = LockFailure(r)
    <3>1. /\ lockMsg = LockFailure(r) => lock = [state |-> "Failed", reason |-> r]
          /\ Once(center, LockFailure(r))
          /\ Here(center, LockFailure(r)) <=> lockMsg = LockFailure(r)
      BY <1>1 DEF LockTold
    <3>2. LockFailure(r) \in Messages /\ LockFailure(r) # None /\ LockFailure(r) # WriteErrors
      BY MessageTypes, MessagesApart
    <3>3. CASE center.shown = LockFailure(r)
      <4>1. Here(center, LockFailure(r))
        BY <3>3 DEF Here
      <4>2. lockMsg' = None /\ ~Here(v, LockFailure(r))
        BY <1>2, <3>1, <3>2, <3>3, <4>1
      <4>. QED  BY <3>2, <4>2, GoneIsOnce
    <3>4. CASE center.shown # LockFailure(r)
      <4>1. Same(center, v, LockFailure(r))
        BY <1>2, <3>2, <3>4
      <4>2. lockMsg' = LockFailure(r) <=> lockMsg = LockFailure(r)
        BY <3>2, <3>4
      <4>. QED  BY <3>1, <4>1, <4>2 DEF Same
    <3>. QED  BY <3>3, <3>4
  <2>. QED  BY <2>1, <2>2 DEF LockTold
<1>. QED  BY <1>3, <1>4, <1>5 DEF Causes, v

-----------------------------------------------------------------------------
(* The dialog, the pickers and the loads                                   *)

\* A draft, once there is one, is none of "nothing".
LEMMA DraftTypes ==
  ASSUME DraftInv
  PROVE  /\ NewDraft(inForce) # None
         /\ draft # None =>
              /\ \A f \in Fields, v \in Values : dialog_edit(draft, inForce, f, v, lastRead + 1) # None
              /\ \A new \in [Fields -> Values] : rebase(draft, inForce, new) # None
              /\ \A gen \in Nat, v \in Values :
                   /\ dialog_theme_loaded(draft, gen, Ready(v)) # None
                   /\ dialog_theme_loaded(draft, gen, Invalid) # None
<1>. DEFINE States == {Unchanged, Invalid} \cup {Ready(v) : v \in Values} \cup [state : {"Loading"}, gen : Nat]
<1>1. inForce \in [Fields -> Values] /\ lastRead + 1 \in Nat
      /\ reads \in Seq([gen : Nat, name : Values])
  BY DEF DraftInv, TypesOK
<1>2. Drafts = [values : [Fields -> Values], theme : States] /\ None \notin Drafts
  BY NoneAssumption DEF Drafts
<1>3. Unchanged \in States /\ Invalid \in States /\ \A v \in Values : Ready(v) \in States
  OBVIOUS
<1>4. \A g \in Nat : Loading(g) \in States
  BY DEF Loading
<1>5. NewDraft(inForce) \in Drafts
  BY <1>1, <1>2, <1>3 DEF NewDraft
<1>6. ASSUME draft # None PROVE draft \in Drafts
  <2>1. draft \in [values : {draft.values}, theme : {draft.theme}] /\ draft.values \in [Fields -> Values]
    BY <1>6 DEF DraftInv, TypesOK
  <2>2. draft.values["theme"] \in Values
    BY <2>1 DEF Fields
  <2>3. \A i \in 1 .. Len(reads) : reads[i].gen \in Nat
    <3>1. \A i \in 1 .. Len(reads) : reads[i] \in [gen : Nat, name : Values]
      BY <1>1, ElementOfSeq
    <3>. QED  BY <3>1
  <2>. HIDE DEF States
  <2>4. draft.theme \in States
    BY <1>3, <1>4, <1>6, <2>2, <2>3 DEF DraftInv, ThemeState
  <2>. QED  BY <1>2, <2>1, <2>4
<1>. HIDE DEF States
<1>7. ASSUME NEW d \in Drafts, NEW v \in [Fields -> Values], NEW t \in States
      PROVE  [d EXCEPT !.values = v] \in Drafts /\ [d EXCEPT !.theme = t] \in Drafts
  BY <1>2
<1>8. ASSUME draft # None, NEW f \in Fields, NEW v \in Values
      PROVE  dialog_edit(draft, inForce, f, v, lastRead + 1) \in Drafts
  <2>. DEFINE d == [draft EXCEPT !.values[f] = v]
  <2>1. draft \in Drafts /\ draft.values \in [Fields -> Values]
    BY <1>2, <1>6, <1>8
  <2>2. [draft.values EXCEPT ![f] = v] \in [Fields -> Values]
    BY <2>1
  <2>3. d = [draft EXCEPT !.values = [draft.values EXCEPT ![f] = v]]
    OBVIOUS
  <2>4. d \in Drafts
    <3>. HIDE DEF d
    <3>1. draft.theme \in States
      BY <1>2, <2>1
    <3>. QED  BY <1>7, <2>1, <2>2, <2>3, <3>1
  <2>5. dialog_edit(draft, inForce, f, v, lastRead + 1) =
          IF f # "theme" \/ v = draft.values.theme THEN d
          ELSE [d EXCEPT !.theme = IF v = inForce.theme THEN Unchanged ELSE Loading(lastRead + 1)]
    BY DEF dialog_edit
  <2>. HIDE DEF d
  <2>6. /\ [d EXCEPT !.theme = Unchanged] \in Drafts
        /\ [d EXCEPT !.theme = Loading(lastRead + 1)] \in Drafts
    <3>1. d.values \in [Fields -> Values]
      BY <1>2, <2>4
    <3>. QED  BY <1>1, <1>3, <1>4, <1>7, <2>4, <3>1
  <2>. QED  BY <2>4, <2>5, <2>6
<1>9. ASSUME draft # None, NEW new \in [Fields -> Values]
      PROVE  rebase(draft, inForce, new) \in Drafts
  <2>. DEFINE values == [f \in Fields |-> IF draft.values[f] = inForce[f] THEN new[f] ELSE draft.values[f]]
  <2>1. draft \in Drafts /\ draft.values \in [Fields -> Values]
    BY <1>2, <1>6, <1>9
  <2>2. values \in [Fields -> Values]
    BY <2>1
  <2>3. rebase(draft, inForce, new) = [draft EXCEPT !.values = values]
    BY DEF rebase
  <2>. HIDE DEF values
  <2>. QED  BY <1>3, <1>7, <2>1, <2>2, <2>3
<1>10. ASSUME draft # None, NEW gen \in Nat, NEW t \in States
       PROVE  dialog_theme_loaded(draft, gen, t) \in Drafts
  <2>1. draft \in Drafts /\ draft.values \in [Fields -> Values]
    BY <1>2, <1>6, <1>10
  <2>. QED  BY <1>7, <1>10, <2>1 DEF dialog_theme_loaded
<1>. QED  BY <1>2, <1>3, <1>5, <1>8, <1>9, <1>10
\* A reason other than a message is set or taken away.
LEMMA BlockFacts ==
  ASSUME NEW w, Tidy(w), NEW why \in {"Dialog", "FilePicker"}
  PROVE  \A v \in {Block(w, why), Unblock(w, why)} :
           /\ Tidy(v) /\ v.queue = w.queue /\ v.shown = w.shown /\ v.writeErrors = w.writeErrors
           /\ why \in v.blocked <=> v = Block(w, why)
           /\ \A x \in {"Dialog", "FilePicker"} : x # why => (x \in v.blocked <=> x \in w.blocked)
<1>1. w \in Centers
  BY DEF Tidy, Loose
<1>2. /\ Block(w, why) \in Centers /\ Unblock(w, why) \in Centers
      /\ Block(w, why) = [w EXCEPT !.blocked = w.blocked \cup {why}]
      /\ Unblock(w, why) = [w EXCEPT !.blocked = w.blocked \ {why}]
  BY <1>1 DEF Block, Unblock, Centers
<1>. QED  BY <1>1, <1>2 DEF Tidy, Loose, Centers

\* A dialog opens in place of none, and never over another one.
LEMMA OpenScreen ==
  ASSUME DraftInv, NEW w, OnScreen(w, draft, picker), OpenDialog(w)
  PROVE  /\ OnScreen(center', draft', picker)
         /\ \A l, fl, told : Causes(w, l, fl, told) => Causes(center', l, fl, told)
<1>1. CASE draft = None /\ allows(w, loading, "OpenSettings")
  <2>1. center' = Block(w, "Dialog") /\ draft' = NewDraft(inForce)
    BY <1>1 DEF OpenDialog
  <2>2. draft' # None
    BY <2>1, DraftTypes
  <2>3. /\ Tidy(center') /\ center'.queue = w.queue /\ center'.shown = w.shown
        /\ center'.writeErrors = w.writeErrors /\ "Dialog" \in center'.blocked
        /\ "FilePicker" \in center'.blocked <=> "FilePicker" \in w.blocked
    BY <2>1, BlockFacts DEF OnScreen
  <2>. QED  BY <2>2, <2>3, BlockedAlone DEF OnScreen
<1>2. CASE ~(draft = None /\ allows(w, loading, "OpenSettings"))
  BY <1>2 DEF OpenDialog
<1>. QED  BY <1>1, <1>2

\* A mode selected by a button changes a draft and closes none.
LEMMA SelectKeeps ==
  ASSUME DraftInv, NEW m \in ModeKinds, SelectMode(m)
  PROVE  draft' = None <=> draft = None
<1>1. CASE UNCHANGED draft
  BY <1>1
<1>2. CASE ~UNCHANGED draft
  <2>1. /\ inForce' = [inForce EXCEPT !["mode"] = m]
        /\ draft' = (IF draft = None THEN None ELSE rebase(draft, inForce, inForce'))
    BY <1>2 DEF SelectMode
  <2>2. inForce' \in [Fields -> Values]
    BY <2>1 DEF DraftInv, TypesOK, Values
  <2>. QED  BY <2>1, <2>2, DraftTypes
<1>. QED  BY <1>1, <1>2

LEMMA DialogScreen ==
  ASSUME DraftInv, WindowInv, running, DialogStep
  PROVE  WindowInv'
<1>1. OnScreen(center, draft, picker) /\ Causes(center, lock, flags, lockMsg) /\ LoadInv
  BY DEF WindowInv
<1>2. LoadInv'
  <2>1. UNCHANGED <<loading, load, outcomes, scan, picker>>
    BY DEF DialogStep, OpenSettings, SaveSettings, CancelSettings, Edits, EditDraft,
       ThemeRead, DeviceAutoSelected, SwitchMode, loadVars
  <2>. QED  BY <1>1, <2>1 DEF LoadInv
<1>3. ASSUME center' = center, draft' = None <=> draft = None,
             UNCHANGED <<lock, lockMsg, picker>>, flags' \in {flags, flags \ {"modeNotice"}}
      PROVE  WindowInv'
  <2>1. NoticeHere(center', flags')
    BY <1>1, <1>3 DEF Causes, NoticeHere
  <2>2. Causes(center', lock', flags', lockMsg')
    BY <1>1, <1>3, <2>1 DEF Causes
  <2>3. OnScreen(center', draft', picker')
    BY <1>1, <1>3 DEF OnScreen
  <2>. QED  BY <1>2, <2>2, <2>3 DEF WindowInv
<1>4. ASSUME OpenSettings PROVE WindowInv'
  <2>1. OpenDialog(center) /\ UNCHANGED <<lock, flags, lockMsg, picker>>
    BY <1>4 DEF OpenSettings, lockVars, loadVars
  <2>. QED  BY <1>1, <1>2, <2>1, OpenScreen DEF WindowInv
<1>5. ASSUME SaveSettings \/ CancelSettings PROVE WindowInv'
  <2>1. /\ draft' = None /\ center' = Unblock(center, "Dialog")
        /\ UNCHANGED <<lock, flags, lockMsg, picker>>
    BY <1>5 DEF SaveSettings, CancelSettings, lockVars, loadVars
  <2>2. /\ Tidy(center') /\ center'.queue = center.queue /\ center'.shown = center.shown
        /\ center'.writeErrors = center.writeErrors
        /\ "FilePicker" \in center'.blocked <=> "FilePicker" \in center.blocked
    BY <1>1, <2>1, BlockFacts DEF OnScreen
  <2>3. "Dialog" \notin center'.blocked
    BY <1>1, <2>1 DEF OnScreen, Tidy, Loose, Centers, Unblock
  <2>. QED  BY <1>1, <1>2, <2>1, <2>2, <2>3, BlockedAlone DEF OnScreen, WindowInv
<1>6. ASSUME NEW f \in Fields, NEW v \in Values, EditDraft(f, v) PROVE WindowInv'
  <2>1. /\ draft # None /\ draft' = dialog_edit(draft, inForce, f, v, lastRead + 1)
        /\ UNCHANGED <<center, lock, flags, lockMsg, picker>>
    BY <1>6 DEF EditDraft, lockVars, loadVars
  <2>2. draft' # None
    BY <2>1, DraftTypes
  <2>. QED  BY <1>3, <2>1, <2>2
<1>7. ASSUME NEW ok \in BOOLEAN, ThemeRead(ok) PROVE WindowInv'
  <2>. DEFINE head == Head(reads)
  <2>1. /\ reads # <<>> /\ UNCHANGED <<center, lock, flags, lockMsg, picker>>
        /\ draft' = IF draft = None THEN None
                    ELSE dialog_theme_loaded(draft, head.gen, IF ok THEN Ready(head.name) ELSE Invalid)
    BY <1>7 DEF ThemeRead, lockVars, loadVars
  <2>2. head \in [gen : Nat, name : Values]
    <3>1. reads \in Seq([gen : Nat, name : Values])
      BY DEF DraftInv, TypesOK
    <3>. QED  BY <2>1, <3>1, HeadAndTail
  <2>. HIDE DEF head
  <2>3. draft' = None <=> draft = None
    BY <2>1, <2>2, DraftTypes
  <2>. QED  BY <1>3, <2>1, <2>3
<1>8. ASSUME NEW d \in Devices, DeviceAutoSelected(d) PROVE WindowInv'
  <2>1. /\ inForce' = [inForce EXCEPT !["device"] = d]
        /\ draft' = IF draft = None THEN None ELSE rebase(draft, inForce, inForce')
        /\ UNCHANGED <<center, lock, flags, lockMsg, picker>>
    BY <1>8 DEF DeviceAutoSelected, lockVars, loadVars
  <2>2. inForce' \in [Fields -> Values]
    BY <2>1 DEF DraftInv, TypesOK, Values
  <2>3. draft' = None <=> draft = None
    BY <2>1, <2>2, DraftTypes
  <2>. QED  BY <1>3, <2>1, <2>3
<1>9. ASSUME NEW m \in ModeKinds, SwitchMode(m) PROVE WindowInv'
  <2>1. SelectMode(m) /\ UNCHANGED <<center, lock, lockMsg, picker>> /\ flags' = flags \ {"modeNotice"}
    BY <1>9 DEF SwitchMode, loadVars
  <2>. QED  BY <1>3, <2>1, SelectKeeps
<1>. QED  BY <1>4, <1>5, <1>6, <1>7, <1>8, <1>9 DEF DialogStep, Edits, Fields, Values
LEMMA MessageScreen ==
  ASSUME DraftInv, WindowInv, running, MessageStep
  PROVE  WindowInv'
<1>1. /\ OnScreen(center, draft, picker) /\ Causes(center, lock, flags, lockMsg) /\ LoadInv
      /\ Tidy(center) /\ Loose(center)
      /\ Summary(center) /\ NoticeHere(center, flags) /\ LockTold(center, lock, lockMsg)
  BY DEF WindowInv, OnScreen, Tidy, Causes
<1>2. LoadInv'
  <2>1. UNCHANGED <<loading, load, outcomes, scan, picker>>
    BY DEF MessageStep, PushMessage, OpenRefusedByMode, lock_blocks_play, ReplyFailed,
       ReplySucceeded, LockEvent, Press, loadVars
  <2>. QED  BY <1>1, <2>1 DEF LoadInv
<1>3. ASSUME UNCHANGED <<draft, picker>>, Tidy(center'), Causes(center', lock', flags', lockMsg'),
             \A why \in {"Dialog", "FilePicker"} : why \in center'.blocked <=> why \in center.blocked
      PROVE  WindowInv'
  BY <1>1, <1>2, <1>3 DEF WindowInv, OnScreen
<1>4. ASSUME NEW kind \in {"info", "stalled", "lockOpen"}, PushMessage(kind) PROVE WindowInv'
  <2>. DEFINE m == Plain(kind)
  <2>1. center' = push(center, m) /\ UNCHANGED <<lock, flags, lockMsg, draft, picker>>
    BY <1>4 DEF PushMessage, lockVars, dialogVars, loadVars
  <2>2. /\ m \in Messages /\ m # WriteErrors /\ m # Notice
        /\ \A r \in Reasons : m # LockFailure(r)
    BY MessageTypes, MessagesApart
  <2>. HIDE DEF m
  <2>3. /\ Tidy(center') /\ Rest(center, center')
        /\ \A x \in Messages : x # m => Same(center, center', x)
    BY <1>1, <2>1, <2>2, PushFacts
  <2>4. Causes(center', lock', flags', lockMsg')
    BY <1>1, <2>1, <2>2, <2>3, CausesStay, MessageTypes, MessagesApart DEF Causes, Rest
  <2>. QED  BY <1>3, <2>1, <2>3, <2>4 DEF Rest
<1>5. ASSUME OpenRefusedByMode PROVE WindowInv'
  <2>1. /\ center' = IF "modeNotice" \in flags THEN center ELSE push(center, Notice)
        /\ flags' = flags \cup {"modeNotice"} /\ UNCHANGED <<lock, lockMsg, draft, picker>>
    BY <1>5 DEF OpenRefusedByMode, dialogVars, loadVars, Notice
  <2>2. CASE "modeNotice" \in flags
    <3>1. center' = center /\ Causes(center', lock', flags', lockMsg')
      BY <1>1, <2>1, <2>2 DEF Causes, NoticeHere
    <3>. QED  BY <1>1, <1>3, <2>1, <3>1
  <2>3. CASE "modeNotice" \notin flags
    <3>1. /\ Tidy(center') /\ Rest(center, center') /\ Here(center', Notice)
          /\ \A x \in Messages : x # Notice => Same(center, center', x)
      BY <1>1, <2>1, <2>3, PushFacts, MessagesApart
    <3>2. Causes(center', lock', flags', lockMsg')
      BY <1>1, <2>1, <3>1, CausesStay, MessageTypes, MessagesApart DEF Causes, NoticeHere, Rest
    <3>. QED  BY <1>3, <2>1, <3>1, <3>2 DEF Rest
  <2>. QED  BY <2>2, <2>3
<1>6. ASSUME NEW f \in Files, ReplyFailed(f) \/ ReplySucceeded(f) PROVE WindowInv'
  <2>1. /\ center' \in {write_failed(center, f), write_succeeded(center, f)}
        /\ UNCHANGED <<lock, flags, lockMsg, draft, picker>>
    BY <1>6 DEF ReplyFailed, ReplySucceeded, lockVars, dialogVars, loadVars
  <2>2. /\ Tidy(center') /\ Summary(center')
        /\ \A why \in {"Dialog", "FilePicker"} : why \in center'.blocked <=> why \in center.blocked
        /\ \A m \in Messages : m # WriteErrors => Same(center, center', m)
    BY <1>1, <2>1, WriteFailedFacts, WriteSucceededFacts
  <2>3. Causes(center', lock', flags', lockMsg')
    BY <1>1, <2>1, <2>2, CausesStay, MessageTypes, MessagesApart DEF Causes
  <2>. QED  BY <1>3, <2>1, <2>2, <2>3
<1>7. ASSUME NEW next \in Locks, LockEvent(next) PROVE WindowInv'
  <2>1. UNCHANGED <<draft, picker>>
    BY <1>7 DEF LockEvent, dialogVars, loadVars
  <2>. QED  BY <1>1, <1>3, <1>7, <2>1, LockEventStep
<1>8. ASSUME NEW action, Press(action) PROVE WindowInv'
  <2>. DEFINE w == press(center, action)
  <2>1. /\ center.shown # None /\ UNCHANGED <<lock, picker>>
        /\ lockMsg' = IF lockMsg = center.shown THEN None ELSE lockMsg
        /\ flags' = IF action = "CaptureAndPlay" THEN {"captureAndPlay"} ELSE flags \ {"modeNotice"}
        /\ \/ OpenDialog(w)
           \/ center' = w /\ (SelectMode("Compatible") \/ UNCHANGED draft)
    BY <1>8 DEF Press, loadVars
  <2>2. Causes(w, lock, flags', lockMsg')
    BY <1>1, <2>1, PressStep
  <2>3. OnScreen(w, draft, picker)
    BY <1>1, <2>1, PressFacts DEF OnScreen
  <2>. HIDE DEF w
  <2>4. CASE OpenDialog(w)
    BY <1>2, <2>1, <2>2, <2>3, <2>4, OpenScreen DEF WindowInv
  <2>5. CASE center' = w /\ (SelectMode("Compatible") \/ UNCHANGED draft)
    <3>1. draft' = None <=> draft = None
      BY <2>5, SelectKeeps DEF ModeKinds
    <3>2. OnScreen(center', draft', picker')
      BY <2>1, <2>3, <2>5, <3>1 DEF OnScreen
    <3>. QED  BY <1>2, <2>1, <2>2, <2>5, <3>2 DEF WindowInv
  <2>. QED  BY <2>1, <2>4, <2>5
<1>. QED  BY <1>4, <1>5, <1>6, <1>7, <1>8 DEF MessageStep, lock_blocks_play

LEMMA WindowScreen ==
  ASSUME WindowInv, running, WindowStep
  PROVE  WindowInv'
<1>1. /\ OnScreen(center, draft, picker) /\ Causes(center, lock, flags, lockMsg) /\ LoadInv
      /\ Tidy(center) /\ Loose(center)
  BY DEF WindowInv, OnScreen, Tidy
<1>2. LoadInv'
  <2>1. UNCHANGED <<loading, load, outcomes, scan, picker>>
    BY DEF WindowStep, WindowShown, Tray, Exit, loadVars
  <2>. QED  BY <1>1, <2>1 DEF LoadInv
<1>3. ASSUME WindowShown \/ \E hidden \in BOOLEAN : Tray(hidden) PROVE WindowInv'
  <2>1. /\ \E hidden \in BOOLEAN : center' \in {window_shown(center), set_in_tray(center, hidden)}
        /\ UNCHANGED <<lock, flags, lockMsg, draft, picker>>
    BY <1>3 DEF WindowShown, Tray, lockVars, dialogVars, loadVars
  <2>2. Tidy(center') /\ Rest(center, center') /\ \A m \in Messages : Same(center, center', m)
    BY <1>1, <2>1, WindowFacts
  <2>3. Causes(center', lock', flags', lockMsg')
    BY <1>1, <2>1, <2>2, CausesStay, MessageTypes, MessagesApart DEF Causes, Rest
  <2>. QED  BY <1>1, <1>2, <2>1, <2>2, <2>3 DEF WindowInv, OnScreen, Rest
<1>4. ASSUME Exit PROVE WindowInv'
  <2>. DEFINE u == [center EXCEPT !.queue = <<>>]  v == Hide(u)
  <2>1. /\ ~running' /\ draft' = None /\ picker' = picker
        /\ center' = Unblock(v, "Dialog")
    BY <1>4 DEF Exit, dismiss_for_exit, loadVars
  <2>2. /\ u \in Centers /\ u.queue = <<>> /\ u.shown = center.shown /\ u.blocked = center.blocked
    BY <1>1, EmptySeq DEF Loose, Centers
  <2>. HIDE DEF u
  <2>3. Loose(u)
    BY <1>1, <2>2 DEF Loose
  <2>4. Loose(v) /\ Rest(u, v) /\ v.queue = <<>>
    BY <2>2, <2>3, HideFacts
  <2>. HIDE DEF v
  <2>5. Tidy(v)
    BY <2>4 DEF Tidy
  <2>6. Tidy(center') /\ ("FilePicker" \in center'.blocked <=> "FilePicker" \in v.blocked)
    BY <2>1, <2>5, BlockFacts
  <2>7. "Dialog" \notin center'.blocked
    BY <2>1, <2>5 DEF Tidy, Loose, Centers, Unblock
  <2>8. OnScreen(center', draft', picker')
    BY <1>1, <2>1, <2>2, <2>4, <2>6, <2>7 DEF OnScreen, Rest
  <2>. QED  BY <1>2, <2>1, <2>8 DEF WindowInv
<1>. QED  BY <1>3, <1>4 DEF WindowStep

LEMMA LoadScreen ==
  ASSUME WindowInv, running, LoadStep
  PROVE  WindowInv'
<1>1. /\ OnScreen(center, draft, picker) /\ Causes(center, lock, flags, lockMsg) /\ LoadInv
      /\ Tidy(center) /\ Loose(center)
  BY DEF WindowInv, OnScreen, Tidy
<1>2. UNCHANGED <<lock, flags, lockMsg, draft, running>>
  BY DEF LoadStep, Pick, PickCancelled, Picked, ScanDone, poll_load, lockVars, dialogVars
<1>3. ASSUME NEW cmd \in {"AddFiles", "LoadPlaylist", "SavePlaylist"}, Pick(cmd) PROVE WindowInv'
  <2>1. /\ allows(center, loading, cmd) /\ picker' = cmd
        /\ center' = Block(center, "FilePicker") /\ UNCHANGED <<loading, load, outcomes, scan>>
    BY <1>3 DEF Pick
  <2>2. loading = None /\ cmd # None
    BY <2>1, NoneAssumption DEF allows, blocked_during_load
  <2>3. LoadInv'
    BY <1>1, <2>1, <2>2 DEF LoadInv
  <2>4. /\ Tidy(center') /\ center'.queue = center.queue /\ center'.shown = center.shown
        /\ center'.writeErrors = center.writeErrors /\ "FilePicker" \in center'.blocked
        /\ "Dialog" \in center'.blocked <=> "Dialog" \in center.blocked
    BY <1>1, <2>1, BlockFacts
  <2>. QED  BY <1>1, <1>2, <2>1, <2>2, <2>3, <2>4, BlockedAlone DEF WindowInv, OnScreen
<1>4. ASSUME PickCancelled \/ Picked PROVE WindowInv'
  <2>1. picker # None /\ picker' = None /\ center' = Unblock(center, "FilePicker")
    BY <1>4 DEF PickCancelled, Picked
  <2>2. LoadInv'
    <3>1. CASE PickCancelled
      BY <1>1, <2>1, <3>1 DEF PickCancelled, LoadInv
    <3>2. CASE Picked
      <4>1. loading = None /\ load.state = "Idle" /\ ~scan
        BY <1>1, <2>1, NoneAssumption DEF LoadInv
      <4>2. CASE picker = "LoadPlaylist"
        <5>1. /\ loading' = "Command" /\ scan' = FALSE
              /\ load' = [state |-> "Command", gen |-> load.gen + 1]
              /\ outcomes' = outcomes \cup {load.gen + 1}
          BY <3>2, <4>1, <4>2 DEF Picked
        <5>2. load.gen \in Nat
          BY <1>1 DEF LoadInv
        <5>3. /\ load' \in [state : {"Idle", "Startup", "Command"}, gen : Nat]
              /\ load'.state = "Command" /\ load'.gen \in outcomes'
          BY <5>1, <5>2
        <5>. QED  BY <2>1, <5>1, <5>3 DEF LoadInv
      <4>3. CASE picker = "AddFiles"
        <5>1. loading' = "Command" /\ scan' = TRUE /\ UNCHANGED <<load, outcomes>>
          BY <3>2, <4>1, <4>3 DEF Picked
        <5>. QED  BY <1>1, <2>1, <4>1, <5>1 DEF LoadInv
      <4>4. CASE picker = "SavePlaylist"
        <5>1. UNCHANGED <<loading, load, outcomes>> /\ scan' = FALSE
          BY <3>2, <4>1, <4>4 DEF Picked
        <5>. QED  BY <1>1, <2>1, <4>1, <5>1 DEF LoadInv
      <4>. QED  BY <1>1, <2>1, <4>2, <4>3, <4>4 DEF LoadInv
    <3>. QED  BY <1>4, <3>1, <3>2
  <2>3. /\ Tidy(center') /\ center'.queue = center.queue /\ center'.shown = center.shown
        /\ center'.writeErrors = center.writeErrors
        /\ "Dialog" \in center'.blocked <=> "Dialog" \in center.blocked
    BY <1>1, <2>1, BlockFacts
  <2>4. "FilePicker" \notin center'.blocked
    BY <1>1, <2>1 DEF Loose, Centers, Unblock
  <2>. QED  BY <1>1, <1>2, <2>1, <2>2, <2>3, <2>4, BlockedAlone DEF WindowInv, OnScreen
<1>5. ASSUME ScanDone PROVE WindowInv'
  <2>1. scan /\ scan' = FALSE /\ loading' = None /\ UNCHANGED <<center, load, outcomes, picker>>
    BY <1>5 DEF ScanDone
  <2>2. LoadInv'
    BY <1>1, <2>1, NoneAssumption DEF LoadInv
  <2>. QED  BY <1>1, <1>2, <2>1, <2>2 DEF WindowInv
<1>6. ASSUME NEW g, NEW unread \in BOOLEAN, poll_load(g, unread) PROVE WindowInv'
  <2>1. outcomes' = outcomes \ {g} /\ UNCHANGED <<scan, picker>>
    BY <1>6 DEF poll_load
  <2>2. CASE load.state = "Idle" \/ load.gen # g
    <3>1. UNCHANGED <<center, load, loading>>
      BY <1>6, <2>2 DEF poll_load
    <3>2. LoadInv'
      BY <1>1, <2>1, <2>2, <3>1 DEF LoadInv
    <3>. QED  BY <1>1, <1>2, <2>1, <3>1, <3>2 DEF WindowInv
  <2>3. CASE ~(load.state = "Idle" \/ load.gen # g)
    <3>1. /\ load' = [load EXCEPT !.state = "Idle"] /\ loading' = None
          /\ center' = IF unread THEN push(center, Plain("info")) ELSE center
      BY <1>6, <2>3 DEF poll_load
    <3>2. ~scan
      BY <1>1, <2>3 DEF LoadInv
    <3>3. LoadInv'
      BY <1>1, <2>1, <3>1, <3>2, NoneAssumption DEF LoadInv
    <3>4. Plain("info") \in Messages /\ Plain("info") # WriteErrors /\ Plain("info") # Notice
          /\ \A r \in Reasons : Plain("info") # LockFailure(r)
      BY MessageTypes, MessagesApart
    <3>5. /\ Tidy(center') /\ Rest(center, center')
          /\ \A x \in Messages : x # Plain("info") => Same(center, center', x)
      <4>1. CASE unread
        BY <1>1, <3>1, <3>4, <4>1, PushFacts
      <4>2. CASE ~unread
        BY <1>1, <3>1, <4>2 DEF Rest, Same
      <4>. QED  BY <4>1, <4>2
    <3>6. Causes(center', lock', flags', lockMsg')
      BY <1>1, <1>2, <3>4, <3>5, CausesStay, MessageTypes, MessagesApart DEF Causes, Rest
    <3>. QED  BY <1>1, <1>2, <2>1, <3>3, <3>5, <3>6 DEF WindowInv, OnScreen, Rest
  <2>. QED  BY <2>2, <2>3
<1>. QED  BY <1>3, <1>4, <1>5, <1>6 DEF LoadStep
\* The invariant of the window is inductive, together with that of the draft.
THEOREM WindowInvariant == Spec => []WindowInv
<1>1. Init => WindowInv
  <2>. SUFFICES ASSUME Init PROVE WindowInv
    OBVIOUS
  <2>. DEFINE e == EmptyCenter
  <2>1. /\ center = (IF inForce.mode \in Available THEN e ELSE push(e, Notice))
        /\ flags = (IF inForce.mode \in Available THEN {} ELSE {"modeNotice"})
        /\ lockMsg = None /\ draft = None /\ picker = None /\ scan = FALSE
        /\ loading = "Startup" /\ load = [state |-> "Startup", gen |-> 1] /\ outcomes = {1}
    BY DEF Init, Notice
  <2>2. /\ Tidy(e) /\ e.writeErrors = {} /\ e.blocked = {} /\ \A m \in Messages : ~Here(e, m)
    <3>1. /\ e.queue = <<>> /\ e.shown = None /\ e.windowShown = FALSE /\ e.inTray = FALSE
          /\ e.writeErrors = {} /\ e.blocked = {}
      BY DEF EmptyCenter
    <3>2. e \in Centers
      BY EmptySeq DEF Centers, EmptyCenter
    <3>. HIDE DEF e
    <3>. QED  BY <3>1, <3>2, EmptySeq, MessageTypes DEF Tidy, Loose, Here, In
  <2>. HIDE DEF e
  <2>3. LoadInv
    BY <2>1, NoneAssumption DEF LoadInv
  <2>4. /\ Tidy(center) /\ center.writeErrors = {}
        /\ "Dialog" \notin center.blocked /\ "FilePicker" \notin center.blocked
        /\ \A m \in Messages : m # Notice => ~Here(center, m)
        /\ NoticeHere(center, flags)
    <3>1. CASE inForce.mode \in Available
      BY <2>1, <2>2, <3>1 DEF NoticeHere
    <3>2. CASE inForce.mode \notin Available
      <4>1. /\ Tidy(center) /\ Rest(e, center) /\ Here(center, Notice)
            /\ \A m \in Messages : m # Notice => Same(e, center, m)
        BY <2>1, <2>2, <3>2, PushFacts, MessagesApart DEF Tidy
      <4>. QED  BY <2>2, <4>1 DEF Rest, Same, NoticeHere
    <3>. QED  BY <3>1, <3>2
  <2>5. Summary(center) /\ LockTold(center, lock, lockMsg)
    BY <2>1, <2>4, GoneIsOnce, MessageTypes, MessagesApart DEF Summary, LockTold
  <2>. QED  BY <2>1, <2>3, <2>4, <2>5 DEF WindowInv, OnScreen, Causes
<1>2. DraftInv /\ WindowInv /\ [Next]_vars => WindowInv'
  <2>. SUFFICES ASSUME DraftInv, WindowInv, [Next]_vars PROVE WindowInv'
    OBVIOUS
  <2>1. CASE Next
    BY <2>1, DialogScreen, MessageScreen, WindowScreen, LoadScreen DEF Next
  <2>2. CASE UNCHANGED vars
    BY <2>2 DEF vars, lockVars, dialogVars, loadVars, WindowInv, LoadInv
  <2>. QED  BY <2>1, <2>2
<1>. QED  BY <1>1, <1>2, DraftInvariant, PTL DEF Spec

\* The window is blocked exactly by what is on the screen, and no message
\* waits while it could be shown.
THEOREM NothingIsStuck == Spec => []NothingStuck
<1>1. WindowInv => NothingStuck
  BY DEF WindowInv, OnScreen, Tidy, Loose, LoadInv, NothingStuck
<1>. QED  BY <1>1, WindowInvariant, PTL

\* How many copies there are of a message that is there not more than once.
LEMMA CopiesCounted ==
  ASSUME Tidy(center), NEW m
  PROVE  /\ Copies(m) \in Nat
         /\ ~Here(center, m) => Copies(m) = 0
         /\ Here(center, m) => Copies(m) > 0
         /\ Here(center, m) /\ Once(center, m) => Copies(m) = 1
<1>. DEFINE S == {i \in DOMAIN center.queue : center.queue[i] = m}
            one == IF center.shown = m THEN 1 ELSE 0
<1>1. DOMAIN center.queue = 1 .. Len(center.queue) /\ Len(center.queue) \in Nat
  <2>1. center.queue \in Seq(Messages)
    BY DEF Tidy, Loose, Centers
  <2>. QED  BY <2>1
<1>2. IsFiniteSet(S) /\ Cardinality(S) \in Nat
  <2>1. IsFiniteSet(1 .. Len(center.queue))
    <3>1. PICK n \in Nat : n = Len(center.queue)
      BY <1>1
    <3>2. 1 \in Int /\ n \in Int
      OBVIOUS
    <3>3. IsFiniteSet(1 .. n)
      BY <3>2, FS_Interval
    <3>. QED  BY <3>1, <3>3
  <2>2. S \in SUBSET (1 .. Len(center.queue))
    BY <1>1
  <2>3. IsFiniteSet(S)
    BY <2>1, <2>2, FS_Subset
  <2>. QED  BY <2>3, FS_CardinalityType
<1>3. S # {} <=> In(center.queue, m)
  BY <1>1 DEF In
<1>4. Single(center.queue, m) /\ S # {} => \E i : S = {i}
  BY <1>1 DEF Single
<1>5. Copies(m) = Cardinality(S) + one
  BY DEF Copies
<1>. HIDE DEF S
<1>6. (S = {} <=> Cardinality(S) = 0) /\ ((\E i : S = {i}) => Cardinality(S) = 1)
  BY <1>2, FS_EmptySet, FS_Singleton
<1>7. CASE center.shown = m
  BY <1>2, <1>3, <1>5, <1>6, <1>7 DEF Here, Once
<1>8. CASE center.shown # m
  <2>1. Copies(m) = Cardinality(S) /\ (Here(center, m) <=> S # {})
    BY <1>2, <1>3, <1>5, <1>8 DEF Here
  <2>2. Here(center, m) /\ Once(center, m) => Cardinality(S) = 1
    <3>. SUFFICES ASSUME Here(center, m), Once(center, m) PROVE Cardinality(S) = 1
      OBVIOUS
    <3>1. \E i : S = {i}
      BY <1>4, <2>1 DEF Once
    <3>. QED  BY <1>6, <3>1
  <2>. QED  BY <1>2, <1>6, <2>1, <2>2
<1>. QED  BY <1>5, <1>7, <1>8

\* While the program runs every cause has its one window, shown or waiting.
THEOREM CausesHaveWindows == Spec => []EachCauseHasItsWindow
<1>1. WindowInv => EachCauseHasItsWindow
  <2>. SUFFICES ASSUME WindowInv, running PROVE EachCauseHasItsWindow
    BY DEF EachCauseHasItsWindow
  <2>1. Tidy(center) /\ Summary(center) /\ NoticeHere(center, flags) /\ LockTold(center, lock, lockMsg)
    BY DEF WindowInv, OnScreen, Causes
  <2>2. Copies(WriteErrors) = IF center.writeErrors = {} THEN 0 ELSE 1
    BY <2>1, CopiesCounted DEF Summary
  <2>3. "modeNotice" \in flags => Copies(Plain("modeNotice")) > 0
    BY <2>1, CopiesCounted DEF NoticeHere, Notice
  <2>4. ASSUME NEW r \in Reasons
        PROVE  /\ lockMsg = LockFailure(r) => lock = [state |-> "Failed", reason |-> r]
               /\ Copies(LockFailure(r)) = IF lockMsg = LockFailure(r) THEN 1 ELSE 0
    BY <2>1, CopiesCounted DEF LockTold
  <2>. QED  BY <2>2, <2>3, <2>4 DEF EachCauseHasItsWindow
<1>. QED  BY <1>1, WindowInvariant, PTL

-----------------------------------------------------------------------------
(* Scrolling                                                                *)

\* What an invariant of the scrolling needs of the types.
WheelTypes ==
  /\ touch \in [acc : Int, steps : Int, age : Int]
  /\ moved \in Int /\ cut \in BOOLEAN
  /\ direction \in {-1, 1} /\ system \in {-1, 1}
  /\ tray \in [acc : Int, first : Nat, host : {"unknown", "kde", "gnome"}]
  /\ scrolled \in [px : Int, clicks : Int]

\* Before the first event of a host that is not known nothing is left over.
TrayBegins == tray.host = "unknown" /\ tray.first = 0 =>
                tray.acc = 0 /\ scrolled = [px |-> 0, clicks |-> 0]

\* While the filter sees what the monitor sees, every mark is taken by its own
\* event, which then knows what it is.
MarksAgree ==
  ~astray => /\ marks = <<>>
             /\ pending # <<>> /\ pending[1].really => pending[1].inertia

WheelInv == WheelTypes /\ TrayBegins /\ MarksAgree /\ ScrollingIsFollowed

\* The whole part of a quotient.
LEMMA WholePart ==
  ASSUME NEW n \in Nat, NEW d \in Nat \ {0}
  PROVE  n \div d \in Nat /\ d * (n \div d) <= n /\ n < d * (n \div d) + d
  BY SMT

\* Rounding towards zero leaves less than one divisor, on either side.
LEMMA QuotientRest ==
  ASSUME NEW n \in Int, NEW d \in Nat \ {0}
  PROVE  Quotient(n, d) \in Int /\ n - d * Quotient(n, d) \in Int /\ Abs(n - d * Quotient(n, d)) < d
<1>1. CASE n < 0
  <2>1. -n \in Nat
    BY <1>1
  <2>2. (-n) \div d \in Nat /\ d * ((-n) \div d) <= -n /\ -n < d * ((-n) \div d) + d
    BY <2>1, WholePart
  <2>3. d * (-((-n) \div d)) = -(d * ((-n) \div d))
    BY <2>2
  <2> QED BY <1>1, <2>2, <2>3 DEF Quotient, Abs
<1>2. CASE n >= 0
  BY <1>2, WholePart DEF Quotient, Abs
<1> QED BY <1>1, <1>2

\* One event of the touchpad: the pixels that are left over and the steps that
\* were made are the pixels of the swipe, if the limit has not cut them.
LEMMA TouchStepKeeps ==
  ASSUME WheelTypes, SwipeIsFollowed, NEW dy \in Int, NEW dir \in {-1, 1}, TouchStep(dy, dir)
  PROVE  /\ touch' \in [acc : Int, steps : Int, age : Int] /\ moved' \in Int /\ cut' \in BOOLEAN
         /\ SwipeIsFollowed'
<1> DEFINE new   == touch.age # NoAge /\ touch.age > SwipeGap
           acc   == IF new THEN 0 ELSE touch.acc
           steps == IF new THEN 0 ELSE touch.steps
           before == IF new THEN 0 ELSE moved
           sum   == acc + dir * dy
           whole == Quotient(sum, StepPx)
           limit == StepLimit(steps)
           k     == Clamp(whole, -limit, limit)
<1>1. /\ acc \in Int /\ steps \in Int /\ before \in Int /\ Abs(steps) <= 5
      /\ cut = FALSE \/ new => StepPx * steps + acc = before
  BY DEF WheelTypes, SwipeIsFollowed, Abs, StepPx, MaxSteps
<1>2. dir * dy \in Int
  OBVIOUS
<1>3. sum \in Int
  BY <1>1, <1>2
<1>4. whole \in Int /\ sum - 30 * whole \in Int /\ Abs(sum - 30 * whole) < 30
  BY <1>3, QuotientRest DEF StepPx
<1>5. limit \in 0 .. 5 /\ limit = 5 - Abs(steps)
  BY <1>1 DEF StepLimit, Abs, MaxSteps
<1>6. /\ touch' = [acc |-> sum - 30 * whole, steps |-> steps + k, age |-> 0]
      /\ moved' = before + dir * dy
      /\ cut' = ((cut /\ ~new) \/ k # whole)
  BY DEF TouchStep, StepPx
<1>7. k \in Int /\ -limit <= k /\ k <= limit
  BY <1>4, <1>5 DEF Clamp
<1>8. cut \in BOOLEAN
  BY DEF WheelTypes
<1> HIDE DEF new, acc, steps, before, whole, limit, k
<1>9. Abs(steps + k) <= 5
  BY <1>1, <1>5, <1>7 DEF Abs
<1>10. ~cut' => 30 * (steps + k) + (sum - 30 * whole) = before + dir * dy
  <2> SUFFICES ASSUME ~cut' PROVE 30 * (steps + k) + (sum - 30 * whole) = before + dir * dy
    OBVIOUS
  <2>1. k = whole /\ (cut = FALSE \/ new)
    BY <1>6, <1>8
  <2>2. 30 * steps + acc = before
    BY <1>1, <2>1 DEF StepPx
  <2> QED BY <1>1, <1>2, <1>4, <1>7, <2>1, <2>2
<1>11. touch' \in [acc : Int, steps : Int, age : Int] /\ moved' \in Int /\ cut' \in BOOLEAN
  BY <1>1, <1>2, <1>3, <1>4, <1>6, <1>7
<1> QED BY <1>4, <1>6, <1>9, <1>10, <1>11 DEF SwipeIsFollowed, StepPx, MaxSteps, Abs

\* The slider, whatever the event is taken for.
LEMMA SliderKeeps ==
  ASSUME WheelTypes, SwipeIsFollowed, NEW dy \in Int, SliderScroll(dy)
  PROVE  WheelTypes' /\ SwipeIsFollowed'
<1> DEFINE dir == IF TouchIdle THEN system ELSE direction
<1>1. dir \in {-1, 1} /\ direction' = dir /\ UNCHANGED <<system, trayVars>>
  BY DEF SliderScroll, WheelTypes
<1> HIDE DEF dir
<1> DEFINE Kept == /\ touch' \in [acc : Int, steps : Int, age : Int] /\ moved' \in Int
                   /\ cut' \in BOOLEAN /\ SwipeIsFollowed'
<1>2. ASSUME UNCHANGED <<touch, moved, cut>> PROVE Kept
  BY <1>2 DEF WheelTypes, SwipeIsFollowed
<1>3. ASSUME NEW d \in Int, Division(d) PROVE Kept
  <2>1. touch' = [acc |-> 0, steps |-> 0, age |-> -1] /\ moved' = 0 /\ cut' = FALSE
    BY <1>3 DEF Division, NoTouch, NoAge
  <2>2. touch'.steps = 0 /\ touch'.acc = 0 /\ moved' = 0
    BY <2>1
  <2>3. Abs(touch'.steps) = 0 /\ Abs(touch'.acc) = 0
    BY <2>2 DEF Abs
  <2>4. SwipeIsFollowed'
    BY <2>2, <2>3 DEF SwipeIsFollowed, StepPx, MaxSteps
  <2>5. touch' \in [acc : Int, steps : Int, age : Int] /\ moved' \in Int
    BY <2>1
  <2>6. cut' \in BOOLEAN
    BY <2>1
  <2> QED BY <2>4, <2>5, <2>6
<1>4. ASSUME TouchStep(dy, dir) PROVE Kept
  BY <1>4, <1>1, TouchStepKeeps
<1>5. Kept
  <2>1. CASE pending # <<>> /\ pending[1].dy = dy
    <3>1. Paired(pending[1], dir)
      BY <2>1 DEF SliderScroll, dir
    <3> QED BY <2>1, <3>1, <1>2, <1>3, <1>4 DEF Paired
  <2>2. CASE ~(pending # <<>> /\ pending[1].dy = dy)
    <3>1. Unpaired(dy, dir)
      BY <2>2 DEF SliderScroll, dir
    <3> QED BY <3>1, <1>2, <1>3, <1>4 DEF Unpaired, Line
  <2> QED BY <2>1, <2>2
<1> QED BY <1>1, <1>5 DEF WheelTypes, trayVars

\* One event of the tray icon.
LEMMA TrayKeeps ==
  ASSUME WheelTypes, TrayBegins, TrayIsFollowed, NEW delta \in Int, TrayScroll(delta)
  PROVE  WheelTypes' /\ TrayBegins' /\ TrayIsFollowed'
<1> DEFINE first == IF TrayDivision(tray.host) = 0 /\ tray.first = 0 THEN Abs(delta) ELSE tray.first
           div == IF TrayDivision(tray.host) = 0 THEN first ELSE TrayDivision(tray.host)
           way == TraySign(tray.host) * delta
           acc == tray.acc + way
           k == Quotient(acc, div)
<1>1. tray.host \in {"unknown", "kde", "gnome"} /\ tray.acc \in Int /\ tray.first \in Nat
      /\ scrolled.px \in Int /\ scrolled.clicks \in Int
  BY DEF WheelTypes
<1>2. /\ first \in Nat /\ div \in Nat \ {0}
      /\ TrayDivision(tray.host) = 0 => div = first /\ tray.host = "unknown"
      /\ TrayDivision(tray.host) # 0 => div = TrayDivision(tray.host)
  BY <1>1 DEF TrayScroll, TrayDivision, Abs
<1>3. way \in Int
  BY <1>1 DEF TraySign
<1>4. tray' = [tray EXCEPT !.acc = acc - div * k, !.first = first]
      /\ scrolled' = [px |-> scrolled.px + way, clicks |-> scrolled.clicks + k]
      /\ UNCHANGED <<desktop, matchVars, swipeVars, system, clean>>
  BY DEF TrayScroll
<1>5. acc \in Int
  BY <1>1, <1>3
<1> HIDE DEF first, div, way, acc
<1>6. k \in Int /\ acc - div * k \in Int /\ Abs(acc - div * k) < div
  BY <1>2, <1>5, QuotientRest
<1>7. tray' = [acc |-> acc - div * k, first |-> first, host |-> tray.host]
  BY <1>4 DEF WheelTypes
<1> HIDE DEF k
<1>8. WheelTypes'
  BY <1>1, <1>2, <1>3, <1>4, <1>6, <1>7 DEF WheelTypes, matchVars, swipeVars
<1>9. TrayBegins'
  <2>1. tray.host = "unknown" => first # 0
    BY <1>2 DEF TrayDivision
  <2> QED BY <1>7, <2>1 DEF TrayBegins
<1>10. ASSUME clean PROVE div * scrolled.clicks + tray.acc = scrolled.px
  <2>1. CASE TrayDivision(tray.host) = 0 /\ tray.first = 0
    <3>1. tray.acc = 0 /\ scrolled.px = 0 /\ scrolled.clicks = 0
      BY <1>2, <2>1 DEF TrayBegins
    <3> QED BY <1>2, <3>1
  <2>2. CASE ~(TrayDivision(tray.host) = 0 /\ tray.first = 0)
    BY <1>10, <2>2 DEF TrayIsFollowed, div, first
  <2> QED BY <2>1, <2>2
<1>11. ASSUME clean
       PROVE  div * (scrolled.clicks + k) + (acc - div * k) = scrolled.px + way
  <2>1. div * (scrolled.clicks + k) = div * scrolled.clicks + div * k
    BY <1>1, <1>2, <1>6
  <2>2. div * scrolled.clicks \in Int /\ div * k \in Int
    BY <1>1, <1>2, <1>6
  <2>3. acc = tray.acc + way
    BY DEF acc
  <2> QED BY <1>1, <1>3, <1>10, <1>11, <2>1, <2>2, <2>3
<1>12. (IF TrayDivision(tray.host) = 0 THEN tray.first ELSE TrayDivision(tray.host))' = div
  BY <1>2, <1>7
<1>13. TrayIsFollowed'
  BY <1>4, <1>6, <1>7, <1>11, <1>12 DEF TrayIsFollowed
<1> QED BY <1>8, <1>9, <1>13

\* The marks: each is taken by the event that left it.
LEMMA MarksStep ==
  ASSUME MarksAgree, InertiaIsIgnored, WheelNext
  PROVE  MarksAgree' /\ InertiaIsIgnored'
<1>1. ASSUME NEW precise \in BOOLEAN, NEW inertia \in BOOLEAN, NEW dy,
             WindowEvent(precise, dy, inertia)
      PROVE  MarksAgree' /\ InertiaIsIgnored'
  <2> DEFINE queue == Marked(precise, dy, inertia)
             ev == [precise |-> precise, dy |-> dy, really |-> inertia,
                    inertia |-> desktop = "macos" /\ InertiaOf(queue, precise, dy)]
  <2>1. pending' = <<ev>> /\ marks' = (IF queue = <<>> THEN queue ELSE Tail(queue))
        /\ UNCHANGED <<astray, coasted>>
    BY <1>1 DEF WindowEvent, swipeVars
  <2>2. ASSUME ~astray
        PROVE  marks' = <<>> /\ (ev.really => ev.inertia)
    <3>1. marks = <<>>
      BY <2>2 DEF MarksAgree
    <3>2. CASE desktop = "macos"
      <4>1. queue = <<MarkOf(precise, dy, inertia)>>
        BY <3>1, <3>2 DEF Marked, MarkCap
      <4>2. Head(queue) = MarkOf(precise, dy, inertia) /\ Tail(queue) = <<>> /\ queue # <<>>
        BY <4>1
      <4> HIDE DEF queue
      <4>3. Head(queue).precise = precise /\ Head(queue).abs = Abs(dy)
            /\ Head(queue).inertia = inertia
        BY <4>2 DEF MarkOf
      <4>4. InertiaOf(queue, precise, dy) <=> inertia
        BY <4>2, <4>3, Zenon DEF InertiaOf
      <4>5. marks' = <<>>
        BY <2>1, <4>2
      <4> QED BY <3>2, <4>4, <4>5
    <3>3. CASE desktop # "macos"
      BY <1>1, <2>1, <3>1, <3>3 DEF WindowEvent, Marked
    <3> QED BY <3>2, <3>3
  <2> HIDE DEF ev
  <2> QED BY <2>1, <2>2 DEF MarksAgree, InertiaIsIgnored
<1>2. ASSUME NEW precise, NEW dy, NEW inertia, EventElsewhere(precise, dy, inertia)
      PROVE  MarksAgree' /\ InertiaIsIgnored'
  BY <1>2 DEF EventElsewhere, MarksAgree, InertiaIsIgnored
<1>3. ASSUME NEW dy, SliderScroll(dy) PROVE MarksAgree' /\ InertiaIsIgnored'
  <2> DEFINE pair == pending # <<>> /\ pending[1].dy = dy
             dir == IF TouchIdle THEN system ELSE direction
  <2>1. /\ pair => Paired(pending[1], dir)
        /\ coasted' = (coasted \/ (pair /\ pending[1].really
                                   /\ <<touch', volume'>> # <<touch, volume>>))
        /\ pending' = <<>> /\ UNCHANGED <<marks, astray>>
    BY <1>3 DEF SliderScroll
  <2>2. ASSUME pair, pending[1].really, ~astray PROVE touch' = touch /\ volume' = volume
    BY <2>1, <2>2 DEF Paired, MarksAgree
  <2> HIDE DEF dir
  <2> QED BY <2>1, <2>2 DEF MarksAgree, InertiaIsIgnored
<1>4. ASSUME UNCHANGED <<marks, astray, coasted>>, pending' \in {pending, <<>>}
      PROVE  MarksAgree' /\ InertiaIsIgnored'
  BY <1>4 DEF MarksAgree, InertiaIsIgnored
<1> QED
  BY <1>1, <1>2, <1>3, <1>4
  DEF WheelNext, WheelInput, TrayScroll, HostFound, SystemTurns, ModeTurns, TickEnds,
      matchVars, swipeVars

\* The types, the swipe and the tray icon.
LEMMA ScrollStep ==
  ASSUME WheelTypes, TrayBegins, SwipeIsFollowed, TrayIsFollowed, WheelNext
  PROVE  WheelTypes' /\ TrayBegins' /\ SwipeIsFollowed' /\ TrayIsFollowed'
<1>1. ASSUME NEW dy \in Offsets, SliderScroll(dy)
      PROVE  WheelTypes' /\ TrayBegins' /\ SwipeIsFollowed' /\ TrayIsFollowed'
  <2>1. dy \in Int
    BY WheelAssumption
  <2>2. WheelTypes' /\ SwipeIsFollowed'
    BY <1>1, <2>1, SliderKeeps
  <2>3. UNCHANGED trayVars
    BY <1>1 DEF SliderScroll
  <2> QED BY <2>2, <2>3 DEF trayVars, TrayBegins, TrayIsFollowed
<1>2. ASSUME NEW delta \in TrayDeltas, TrayScroll(delta)
      PROVE  WheelTypes' /\ TrayBegins' /\ SwipeIsFollowed' /\ TrayIsFollowed'
  <2>1. delta \in Int
    BY WheelAssumption
  <2>2. WheelTypes' /\ TrayBegins' /\ TrayIsFollowed'
    BY <1>2, <2>1, TrayKeeps
  <2>3. UNCHANGED swipeVars
    BY <1>2 DEF TrayScroll
  <2> QED BY <2>2, <2>3 DEF swipeVars, SwipeIsFollowed
<1>3. ASSUME NEW host \in {"kde", "gnome"}, HostFound(host)
      PROVE  WheelTypes' /\ TrayBegins' /\ SwipeIsFollowed' /\ TrayIsFollowed'
  <2>1. /\ tray' = [acc |-> tray.acc, first |-> tray.first, host |-> host]
        /\ scrolled' = [px |-> 0, clicks |-> 0]
        /\ clean' = (clean /\ tray.acc = 0)
        /\ UNCHANGED <<swipeVars, system>>
    BY <1>3 DEF HostFound, WheelTypes
  <2>2. WheelTypes' /\ SwipeIsFollowed'
    BY <2>1 DEF WheelTypes, SwipeIsFollowed, swipeVars
  <2>3. TrayBegins'
    BY <2>1 DEF TrayBegins
  <2>4. TrayIsFollowed'
    <3> DEFINE div == IF TrayDivision(host) = 0 THEN tray.first ELSE TrayDivision(host)
    <3>1. div \in Nat /\ div * 0 = 0
      BY DEF TrayDivision, WheelTypes
    <3>2. TrayDivision(tray'.host) = TrayDivision(host)
      BY <2>1
    <3>3. ASSUME clean' PROVE tray'.acc = 0 /\ scrolled'.px = 0 /\ scrolled'.clicks = 0
      BY <2>1, <3>3
    <3>4. div # 0 => Abs(0) < div
      BY <3>1 DEF Abs
    <3>5. (IF TrayDivision(tray.host) = 0 THEN tray.first ELSE TrayDivision(tray.host))' = div
      BY <2>1, <3>2
    <3> HIDE DEF div
    <3> QED BY <3>1, <3>3, <3>4, <3>5 DEF TrayIsFollowed
  <2> QED BY <2>2, <2>3, <2>4
<1>4. ASSUME UNCHANGED <<touch, moved, cut, direction, trayVars>>, system' \in {-1, 1}
      PROVE  WheelTypes' /\ TrayBegins' /\ SwipeIsFollowed' /\ TrayIsFollowed'
  BY <1>4 DEF WheelTypes, TrayBegins, SwipeIsFollowed, TrayIsFollowed, trayVars
<1>5. CASE TickEnds
  <2>1. touch' = [touch EXCEPT !.age = Older(touch.age)] /\ Older(touch.age) \in Int
        /\ UNCHANGED <<direction, moved, cut, system, trayVars>>
    BY <1>5 DEF TickEnds, Older, Clamp, NoAge, Long, WheelTypes
  <2> QED
    BY <2>1 DEF WheelTypes, TrayBegins, SwipeIsFollowed, TrayIsFollowed, trayVars
<1>6. system \in {-1, 1} /\ -system \in {-1, 1}
  BY DEF WheelTypes
<1> QED
  BY <1>1, <1>2, <1>3, <1>4, <1>5, <1>6
  DEF WheelNext, WheelInput, WindowEvent, EventElsewhere, SystemTurns, ModeTurns,
      swipeVars

\* The inductive invariant holds, for any offsets and start volumes.
THEOREM WheelInvariant == WheelSpec => []WheelInv
<1>1. WheelInit => WheelInv
  <2> SUFFICES ASSUME WheelInit PROVE WheelInv
    OBVIOUS
  <2>1. /\ touch = [acc |-> 0, steps |-> 0, age |-> -1]
        /\ tray = [acc |-> 0, first |-> 0, host |-> "unknown"]
        /\ scrolled = [px |-> 0, clicks |-> 0]
        /\ moved = 0 /\ cut = FALSE
        /\ system \in {-1, 1} /\ direction = system
    BY DEF WheelInit, NoTouch, NoAge
  <2>2. WheelTypes
    <3>1. touch \in [acc : Int, steps : Int, age : Int]
      BY <2>1
    <3>2. tray \in [acc : Int, first : Nat, host : {"unknown", "kde", "gnome"}]
          /\ scrolled \in [px : Int, clicks : Int]
      BY <2>1
    <3>3. moved \in Int
      BY <2>1
    <3>4. cut \in BOOLEAN
      BY <2>1
    <3>5. direction \in {-1, 1} /\ system \in {-1, 1}
      BY <2>1
    <3> QED BY <3>1, <3>2, <3>3, <3>4, <3>5 DEF WheelTypes
  <2>3. TrayBegins
    BY <2>1 DEF TrayBegins
  <2>4. MarksAgree
    BY DEF WheelInit, MarksAgree
  <2>5. SwipeIsFollowed
    BY <2>1 DEF SwipeIsFollowed, Abs, MaxSteps, StepPx
  <2>6. TrayIsFollowed
    BY <2>1 DEF TrayIsFollowed, TrayDivision
  <2>7. InertiaIsIgnored
    BY DEF WheelInit, InertiaIsIgnored
  <2> QED BY <2>2, <2>3, <2>4, <2>5, <2>6, <2>7 DEF WheelInv, ScrollingIsFollowed
<1>2. WheelInv /\ [WheelNext]_wheelVars => WheelInv'
  <2>1. ASSUME WheelInv, WheelNext PROVE WheelInv'
    BY <2>1, MarksStep, ScrollStep DEF WheelInv, ScrollingIsFollowed
  <2>2. ASSUME WheelInv, UNCHANGED wheelVars PROVE WheelInv'
    BY <2>2 DEF WheelInv, WheelTypes, TrayBegins, MarksAgree, ScrollingIsFollowed,
      SwipeIsFollowed, TrayIsFollowed, InertiaIsIgnored, wheelVars, matchVars, swipeVars, trayVars
  <2> QED BY <2>1, <2>2
<1> QED BY <1>1, <1>2, PTL DEF WheelSpec

\* What the slider and the tray icon do is what the fingers did.
THEOREM ScrollingStaysFollowed == WheelSpec => []ScrollingIsFollowed
<1>1. WheelInv => ScrollingIsFollowed
  BY DEF WheelInv
<1> QED BY <1>1, WheelInvariant, PTL

-----------------------------------------------------------------------------
(* The geometry                                                             *)

MaxOn == [what |-> "max", to |-> "on"]
FullOn == [what |-> "full", to |-> "on"]

\* An ordinary window has its ordinary size; no other size is ever kept.
GeometryTypes ==
  /\ kept \in [size : Sizes \cup {Unset, FirstSize}, pos : Positions \cup {Unset},
               max : BOOLEAN, full : BOOLEAN]
  /\ real \in [shown : BOOLEAN, size : Sizes \cup {FirstSize, Screen},
               normal : Sizes \cup {FirstSize}, pos : Positions, max : BOOLEAN, full : BOOLEAN]
  /\ ~real.max /\ ~real.full => real.size = real.normal
  /\ due \in BOOLEAN /\ awaiting \in BOOLEAN /\ acted \in BOOLEAN /\ late \in BOOLEAN
  /\ stage \in {"built", "shown", "left"}
  /\ \A a \in asked : (a.what = "max" => a = MaxOn) /\ (a.what = "full" => a = FullOn)

\* What was restored is what is kept, as far as the property goes.
AsRestored ==
  /\ kept.max = restored.max /\ kept.full = restored.full
  /\ kept.max \/ kept.full => kept.size = restored.size /\ kept.pos = restored.pos

\* The window is maximized and full as it was, but for what the window system
\* has still to do.
InTime ==
  /\ real.shown
  /\ real.max <=> restored.max /\ MaxOn \notin asked
  /\ real.full <=> restored.full /\ FullOn \notin asked
  /\ MaxOn \in asked => restored.max
  /\ FullOn \in asked => restored.full

\* A user who does nothing: nothing is asked for once the first reading is made,
\* and from then on every reading is what is kept.
Quiet ==
  ~acted /\ ~late =>
    /\ stage = "built" => /\ kept = restored /\ asked = {} /\ ~awaiting /\ ~due
                          /\ ~real.max /\ ~real.full
    /\ stage = "shown" => /\ ~due /\ InTime /\ AsRestored
                          /\ awaiting => kept = restored
                          /\ ~awaiting => asked = {} /\ remembered = kept /\ kept = Reading
    /\ stage = "left" /\ asked = {} => AsRestored

GeometryInv == GeometryTypes /\ Quiet

LEMMA ReadingTypes ==
  ASSUME GeometryTypes
  PROVE  /\ Reading \in [size : Sizes \cup {Unset, FirstSize}, pos : Positions \cup {Unset},
                         max : BOOLEAN, full : BOOLEAN]
         /\ Reading.max = real.max /\ Reading.full = real.full
         /\ real.max \/ real.full => Reading.size = kept.size /\ Reading.pos = kept.pos
         /\ ~real.max /\ ~real.full => /\ Reading.size = real.size
                                       /\ Reading.pos = IF wayland THEN kept.pos ELSE real.pos
  BY DEF Reading, GeometryTypes

\* Reading twice is reading once.
LEMMA ReadingTwice ==
  ASSUME GeometryTypes, kept' = Reading, UNCHANGED <<real, wayland>>
  PROVE  Reading' = kept'
<1> DEFINE K == Reading
<1>1. K \in [size : Sizes \cup {Unset, FirstSize}, pos : Positions \cup {Unset},
             max : BOOLEAN, full : BOOLEAN]
      /\ K.max = real.max /\ K.full = real.full
      /\ (~real.max /\ ~real.full => /\ K.size = real.size
                                     /\ K.pos = IF wayland THEN kept.pos ELSE real.pos)
  BY ReadingTypes
<1>2. Reading' = [K EXCEPT !.full = real.full, !.max = real.max,
                           !.size = IF ~real.full /\ ~real.max THEN real.size ELSE @,
                           !.pos = IF (~real.full /\ ~real.max) /\ ~wayland THEN real.pos ELSE @]
  BY DEF Reading
<1>3. kept' = K
  OBVIOUS
<1> HIDE DEF K
<1> QED BY <1>1, <1>2, <1>3

\* A reading of a window that is as it was restored.
LEMMA ReadingRestored ==
  ASSUME GeometryTypes, InTime, asked = {}, AsRestored
  PROVE  /\ Reading.max = restored.max /\ Reading.full = restored.full
         /\ Reading.max \/ Reading.full => Reading.size = restored.size /\ Reading.pos = restored.pos
<1>1. /\ Reading.max = real.max /\ Reading.full = real.full
      /\ real.max \/ real.full => Reading.size = kept.size /\ Reading.pos = kept.pos
  BY ReadingTypes
<1>2. (real.max <=> restored.max) /\ (real.full <=> restored.full)
  BY DEF InTime
<1>3. kept.max = restored.max /\ kept.full = restored.full
  BY DEF AsRestored
<1>4. real.max = kept.max /\ real.full = kept.full
  BY <1>2, <1>3 DEF GeometryTypes
<1> QED BY <1>1, <1>3, <1>4 DEF AsRestored

LEMMA ShowStep ==
  ASSUME GeometryInv, Show
  PROVE  GeometryInv'
<1>1. /\ stage = "built" /\ stage' = "shown" /\ awaiting' = TRUE /\ asked' = Asked
      /\ real' = [real EXCEPT !.shown = TRUE]
      /\ UNCHANGED <<kept, restored, wayland, remembered, due, acted, late>>
  BY DEF Show
<1>2. real'.shown = TRUE /\ real'.max = real.max /\ real'.full = real.full
      /\ real'.size = real.size /\ real'.normal = real.normal
      /\ real' \in [shown : BOOLEAN, size : Sizes \cup {FirstSize, Screen},
                    normal : Sizes \cup {FirstSize}, pos : Positions, max : BOOLEAN, full : BOOLEAN]
  BY <1>1 DEF GeometryInv, GeometryTypes
<1>3. GeometryTypes'
  <2>1. \A a \in Asked : (a.what = "max" => a = MaxOn) /\ (a.what = "full" => a = FullOn)
    BY DEF Asked, MaxOn, FullOn
  <2> QED BY <1>1, <1>2, <2>1 DEF GeometryInv, GeometryTypes
<1>4. (MaxOn \in Asked <=> kept.max) /\ (FullOn \in Asked <=> kept.full)
  BY DEF Asked, MaxOn, FullOn
<1>5. ASSUME ~acted, ~late
      PROVE  ~due' /\ InTime' /\ AsRestored' /\ kept' = restored'
  <2>1. kept = restored /\ ~due /\ ~real.max /\ ~real.full
    BY <1>1, <1>5 DEF GeometryInv, Quiet
  <2>2. InTime'
    BY <1>1, <1>2, <1>4, <2>1 DEF InTime, MaxOn, FullOn
  <2> QED BY <1>1, <2>1, <2>2 DEF AsRestored
<1> QED BY <1>1, <1>3, <1>5 DEF GeometryInv, Quiet

LEMMA SystemStep ==
  ASSUME GeometryInv, SystemDoes
  PROVE  GeometryInv'
<1>1. /\ stage # "left"
      /\ UNCHANGED <<kept, restored, wayland, remembered, awaiting, due, acted, late, stage>>
  BY DEF SystemDoes
<1>2. PICK a \in asked :
        /\ asked' = asked \ {a}
        /\ \/ a.what = "size" /\ \E s \in Sizes \cup {FirstSize} :
                                   real' = Window(s, real.pos, real.max, real.full)
           \/ a.what = "pos" /\ \E p \in Positions : real' = Window(real.normal, p, real.max, real.full)
           \/ a.what = "max" /\ real' = Window(real.normal, real.pos, TRUE, real.full)
           \/ a.what = "full" /\ real' = Window(real.normal, real.pos, real.max, TRUE)
  BY DEF SystemDoes
<1>3. PICK n \in Sizes \cup {FirstSize}, p \in Positions, m \in BOOLEAN, f \in BOOLEAN :
        /\ real' = Window(n, p, m, f)
        /\ \/ m = real.max /\ f = real.full /\ a.what \in {"size", "pos"}
           \/ m = TRUE /\ f = real.full /\ a.what = "max"
           \/ m = real.max /\ f = TRUE /\ a.what = "full"
  <2>1. /\ real.normal \in Sizes \cup {FirstSize} /\ real.pos \in Positions
        /\ real.max \in BOOLEAN /\ real.full \in BOOLEAN
    BY DEF GeometryInv, GeometryTypes
  <2> QED BY <1>2, <2>1
<1>4. /\ real'.shown = real.shown /\ real'.max = m /\ real'.full = f
      /\ ~m /\ ~f => real'.size = real'.normal
      /\ real' \in [shown : BOOLEAN, size : Sizes \cup {FirstSize, Screen},
                    normal : Sizes \cup {FirstSize}, pos : Positions, max : BOOLEAN, full : BOOLEAN]
  BY <1>3 DEF Window, GeometryInv, GeometryTypes
<1>5. GeometryTypes'
  BY <1>1, <1>2, <1>4 DEF GeometryInv, GeometryTypes
<1>6. ASSUME ~acted, ~late
      PROVE  stage = "shown" /\ awaiting /\ InTime' /\ AsRestored' /\ ~due /\ kept = restored
  <2>1. stage = "shown"
    BY <1>1, <1>2, <1>6 DEF GeometryInv, GeometryTypes, Quiet
  <2>2. awaiting /\ InTime /\ AsRestored /\ ~due /\ kept = restored
    BY <1>2, <1>6, <2>1 DEF GeometryInv, Quiet
  <2>3. AsRestored'
    BY <1>1, <2>2 DEF AsRestored
  <2>4. /\ a.what = "max" <=> a = MaxOn
        /\ a.what = "full" <=> a = FullOn
    BY <1>2 DEF GeometryInv, GeometryTypes, MaxOn, FullOn
  <2>5. InTime'
    <3>1. real'.shown = TRUE /\ restored' = restored
      BY <1>1, <1>4, <2>2 DEF InTime
    <3>2. (real'.max <=> restored.max /\ MaxOn \notin asked') /\ (MaxOn \in asked' => restored.max)
      BY <1>2, <1>3, <1>4, <2>2, <2>4 DEF InTime
    <3>3. (real'.full <=> restored.full /\ FullOn \notin asked') /\ (FullOn \in asked' => restored.full)
      BY <1>2, <1>3, <1>4, <2>2, <2>4 DEF InTime
    <3> QED BY <3>1, <3>2, <3>3 DEF InTime
  <2> QED BY <2>1, <2>2, <2>3, <2>5
<1> QED BY <1>1, <1>5, <1>6 DEF GeometryInv, Quiet

\* The tick: a first reading in time finds what was restored, and every other
\* finds what is kept.
LEMMA GeometryTickStep ==
  ASSUME GeometryInv, GeometryTick
  PROVE  GeometryInv'
<1>1. /\ stage = "shown" /\ stage' = stage
      /\ late' = (late \/ (awaiting /\ asked # {})) /\ awaiting' = FALSE
      /\ remembered' = Reading
      /\ kept' = IF ~awaiting /\ remembered = Reading THEN kept ELSE Reading
      /\ due' = (due \/ (~awaiting /\ remembered # Reading))
      /\ UNCHANGED <<restored, wayland, real, asked, acted>>
  BY DEF GeometryTick
<1>2. GeometryTypes'
  <2>1. kept' \in [size : Sizes \cup {Unset, FirstSize}, pos : Positions \cup {Unset},
                   max : BOOLEAN, full : BOOLEAN]
    BY <1>1, ReadingTypes DEF GeometryInv, GeometryTypes
  <2>2. due' \in BOOLEAN
    BY <1>1 DEF GeometryInv, GeometryTypes
  <2>3. late' \in BOOLEAN
    BY <1>1 DEF GeometryInv, GeometryTypes
  <2>4. awaiting' \in BOOLEAN
    BY <1>1
  <2>5. GeometryTypes
    BY DEF GeometryInv
  <2> QED BY <1>1, <2>1, <2>2, <2>3, <2>4, <2>5 DEF GeometryTypes
<1>3. ASSUME ~acted, ~late'
      PROVE  ~due' /\ InTime' /\ AsRestored' /\ asked = {} /\ kept' = Reading /\ kept' = Reading'
  <2>1. ~late /\ (awaiting => asked = {})
    BY <1>1, <1>3
  <2>2. /\ ~due /\ InTime /\ AsRestored
        /\ asked = {}
        /\ ~awaiting => remembered = kept /\ kept = Reading
    BY <1>1, <1>3, <2>1 DEF GeometryInv, Quiet
  <2>3. kept' = Reading /\ ~due'
    BY <1>1, <2>2
  <2>4. Reading' = kept'
    BY <1>1, <2>3, ReadingTwice DEF GeometryInv
  <2>5. InTime'
    BY <1>1, <2>2 DEF InTime
  <2>6. AsRestored'
    BY <1>1, <2>2, <2>3, ReadingRestored DEF GeometryInv, AsRestored
  <2> QED BY <2>2, <2>3, <2>4, <2>5, <2>6
<1> QED BY <1>1, <1>2, <1>3 DEF GeometryInv, Quiet

\* The exit reads once more.
LEMMA LeaveStep ==
  ASSUME GeometryInv, Leave
  PROVE  GeometryInv'
<1>1. /\ stage = "shown" /\ stage' = "left"
      /\ kept' = IF real.shown THEN Reading ELSE kept
      /\ due' = (due \/ kept' # kept)
      /\ UNCHANGED <<restored, wayland, real, asked, remembered, awaiting, acted, late>>
  BY DEF Leave
<1>2. GeometryTypes'
  <2>1. kept' \in [size : Sizes \cup {Unset, FirstSize}, pos : Positions \cup {Unset},
                   max : BOOLEAN, full : BOOLEAN]
    BY <1>1, ReadingTypes DEF GeometryInv, GeometryTypes
  <2>2. due' \in BOOLEAN
    BY <1>1 DEF GeometryInv, GeometryTypes
  <2>3. GeometryTypes
    BY DEF GeometryInv
  <2> QED BY <1>1, <2>1, <2>2, <2>3 DEF GeometryTypes
<1>3. ASSUME ~acted, ~late, asked = {} PROVE AsRestored'
  <2>1. InTime /\ AsRestored
    BY <1>1, <1>3 DEF GeometryInv, Quiet
  <2>2. kept' = Reading
    BY <1>1, <2>1 DEF InTime
  <2> QED BY <1>1, <1>3, <2>1, <2>2, ReadingRestored DEF GeometryInv, AsRestored
<1> QED BY <1>1, <1>2, <1>3 DEF GeometryInv, Quiet

\* What the user does.
LEMMA UserStep ==
  ASSUME GeometryInv, UserActs
  PROVE  GeometryInv'
<1>1. acted' = TRUE
      /\ UNCHANGED <<kept, restored, wayland, asked, remembered, awaiting, due, late, stage>>
  BY DEF UserActs
<1>2. /\ real' \in [shown : BOOLEAN, size : Sizes \cup {FirstSize, Screen},
                    normal : Sizes \cup {FirstSize}, pos : Positions, max : BOOLEAN, full : BOOLEAN]
      /\ ~real'.max /\ ~real'.full => real'.size = real'.normal
  <2>1. GeometryTypes
    BY DEF GeometryInv
  <2>2. ASSUME NEW n \in Sizes \cup {FirstSize}, NEW p \in Positions,
               NEW m \in BOOLEAN, NEW f \in BOOLEAN, real' = Window(n, p, m, f)
        PROVE  /\ real' \in [shown : BOOLEAN, size : Sizes \cup {FirstSize, Screen},
                             normal : Sizes \cup {FirstSize}, pos : Positions,
                             max : BOOLEAN, full : BOOLEAN]
               /\ ~real'.max /\ ~real'.full => real'.size = real'.normal
    BY <2>1, <2>2 DEF Window, GeometryTypes
  <2>3. CASE real' = [real EXCEPT !.shown = ~@]
    BY <2>1, <2>3 DEF GeometryTypes
  <2>4. /\ real.normal \in Sizes \cup {FirstSize} /\ real.pos \in Positions
        /\ real.max \in BOOLEAN /\ real.full \in BOOLEAN
        /\ (~real.max) \in BOOLEAN /\ (~real.full) \in BOOLEAN
    BY <2>1 DEF GeometryTypes
  <2> QED BY <2>2, <2>3, <2>4 DEF UserActs
<1>3. GeometryTypes'
  <2>1. GeometryTypes
    BY DEF GeometryInv
  <2> QED BY <1>1, <1>2, <2>1 DEF GeometryTypes
<1> QED BY <1>1, <1>3 DEF GeometryInv, Quiet

\* The inductive invariant holds, for any sizes and positions.
THEOREM GeometryInvariant == GeometrySpec => []GeometryInv
<1>1. GeometryInit => GeometryInv
  <2> SUFFICES ASSUME GeometryInit PROVE GeometryInv
    OBVIOUS
  <2>1. GeometryTypes
    <3>1. kept \in [size : Sizes \cup {Unset}, pos : Positions \cup {Unset},
                   max : BOOLEAN, full : BOOLEAN]
      BY DEF GeometryInit, Geometries
    <3>2. kept \in [size : Sizes \cup {Unset, FirstSize}, pos : Positions \cup {Unset},
                   max : BOOLEAN, full : BOOLEAN]
      BY <3>1
    <3>3. PICK s \in Sizes, p \in Positions :
            real = [shown |-> FALSE, size |-> s, normal |-> s, pos |-> p, max |-> FALSE, full |-> FALSE]
      BY DEF GeometryInit
    <3>4. real \in [shown : BOOLEAN, size : Sizes \cup {FirstSize, Screen},
                   normal : Sizes \cup {FirstSize}, pos : Positions, max : BOOLEAN, full : BOOLEAN]
          /\ real.size = real.normal
      BY <3>3
    <3>5. due \in BOOLEAN /\ awaiting \in BOOLEAN
      BY DEF GeometryInit
    <3>6. acted \in BOOLEAN /\ late \in BOOLEAN
      BY DEF GeometryInit
    <3>7. stage \in {"built", "shown", "left"} /\ asked = {}
      BY DEF GeometryInit
    <3> QED BY <3>2, <3>4, <3>5, <3>6, <3>7 DEF GeometryTypes
  <2>2. Quiet
    BY DEF GeometryInit, Quiet
  <2> QED BY <2>1, <2>2 DEF GeometryInv
<1>2. GeometryInv /\ [GeometryNext]_geoVars => GeometryInv'
  <2>1. ASSUME GeometryInv, GeometryNext PROVE GeometryInv'
    BY <2>1, ShowStep, SystemStep, UserStep, GeometryTickStep, LeaveStep DEF GeometryNext
  <2>2. ASSUME GeometryInv, UNCHANGED geoVars PROVE GeometryInv'
    BY <2>2 DEF GeometryInv, GeometryTypes, Quiet, InTime, AsRestored, Reading, geoVars
  <2> QED BY <2>1, <2>2
<1> QED BY <1>1, <1>2, PTL DEF GeometrySpec

\* The ordinary size stays the ordinary one, and a user who does nothing loses
\* nothing and causes no writing.
THEOREM GeometryStaysTheUsers == GeometrySpec => []GeometryIsTheUsers
<1>1. GeometryInv => GeometryIsTheUsers
  <2> SUFFICES ASSUME GeometryInv PROVE GeometryIsTheUsers
    OBVIOUS
  <2>1. kept.size # Screen
    BY GeometryAssumption DEF GeometryInv, GeometryTypes, Unset, FirstSize, Screen
  <2>2. ASSUME ~acted, ~late, stage = "left" => asked = {}
        PROVE  (stage # "left" => ~due) /\ AsRestored
    BY <2>2 DEF GeometryInv, GeometryTypes, Quiet, AsRestored
  <2> QED BY <2>1, <2>2 DEF GeometryIsTheUsers, AsRestored
<1> QED BY <1>1, GeometryInvariant, PTL

-----------------------------------------------------------------------------
(* The pictures of whole tracks, for any tracks, parameters and sizes of    *)
(* the two caches, and any number of requests, builders, changes of files   *)
(* and runs of the program.                                                 *)

\* What a key may hold, and a picture, which is what it was made from.
AllKeys == [path : Tracks \cup {Nothing}, time : Nat, kind : Kinds \cup {Nothing},
            look : Looks \cup {Nothing}]
Pictures == AllKeys \cup {Torn}

\* The picture is of the key, or of a younger file.
Suits(pic, key) == IsOf(pic, key.path, key.kind, key.look) /\ pic.time >= key.time

\* What memory, the directory and the builders' answers may hold.
Memory == {e \in [key : AllKeys, pic : AllKeys] : Suits(e.pic, e.key)}
Stored == {e \in [key : AllKeys, pic : Pictures, stamp : Nat] :
             e.pic # Torn /\ e.stamp # NoFile => Suits(e.pic, e.key) /\ e.pic.time <= e.stamp}
Readies == {a \in [type : {"Ready"}, id : Nat, key : AllKeys, pic : AllKeys] : Suits(a.pic, a.key)}
Answers == Readies \cup [type : {"Failed"}, id : Nat]
Builds == [type : {"Build"}, id : Nat, path : Tracks, kind : Kinds, look : Looks, onDisk : BOOLEAN]
Commands == Builds \cup {Cancel}

Modes == Kinds \cup {"off"}
Requested == [mode : Modes \cup {Nothing}, target : [path : Tracks \cup {Nothing}, key : AllKeys],
              id : Nat, meta : [path : Tracks \cup {Nothing}, time : Nat]]
Screens == [pic : AllKeys, ready : BOOLEAN, id : Nat]

\* The UI within a tick.
States == [ui : Requested, screen : Screens, ram : Seq(Memory), failed : Nat, sent : Seq(Commands)]

-----------------------------------------------------------------------------
(* Sequences of the memory and of the directory                             *)

\* Removing one element leaves a sequence of the same kind.
LEMMA RemovedIsSeq ==
  ASSUME NEW T, NEW s \in Seq(T), NEW i \in DOMAIN s
  PROVE  RemoveAt(s, i) \in Seq(T)
<1>1. Len(s) \in Nat /\ i \in 1 .. Len(s)
  OBVIOUS
<1>2. 1 \in 1 .. Len(s) + 1 /\ i - 1 \in 1 - 1 .. Len(s)
      /\ i + 1 \in 1 .. Len(s) + 1 /\ Len(s) \in (i + 1) - 1 .. Len(s)
  BY <1>1
<1>3. SubSeq(s, 1, i - 1) \in Seq(T) /\ SubSeq(s, i + 1, Len(s)) \in Seq(T)
  BY <1>2, SubSeqProperties
<1> QED BY <1>3, ConcatProperties DEF RemoveAt

LEMMA ExcludingIsSeq ==
  ASSUME NEW T, NEW s \in Seq(T), NEW key
  PROVE  Excluding(s, key) \in Seq(T)
<1>1. CASE HasKey(s, key)
  <2>1. PlaceOf(s, key) \in DOMAIN s
    BY <1>1 DEF HasKey, PlaceOf
  <2> QED BY <1>1, <2>1, RemovedIsSeq DEF Excluding
<1>2. CASE ~HasKey(s, key)
  BY <1>2 DEF Excluding
<1> QED BY <1>1, <1>2

LEMMA WithKeyIsOne ==
  ASSUME NEW T, NEW s \in Seq(T), NEW key, HasKey(s, key)
  PROVE  WithKey(s, key) \in T /\ WithKey(s, key).key = key
<1>1. PlaceOf(s, key) \in DOMAIN s /\ s[PlaceOf(s, key)].key = key
  BY DEF HasKey, PlaceOf
<1> QED BY <1>1 DEF WithKey

LEMMA PutIsSeq ==
  ASSUME NEW T, NEW s \in Seq(T), NEW e \in T
  PROVE  Put(s, e) \in Seq(T)
<1> DEFINE all == <<e>> \o Excluding(s, e.key)
           n == IF Len(all) < RamCap THEN Len(all) ELSE RamCap
<1>1. all \in Seq(T)
  BY ExcludingIsSeq
<1>2. Put(s, e) = SubSeq(all, 1, n)
  BY DEF Put
<1> HIDE DEF all
<1>3. Len(all) \in Nat /\ 1 \in 1 .. Len(all) + 1 /\ n \in 1 - 1 .. Len(all)
  BY <1>1, FullTrackAssumption
<1> HIDE DEF n
<1> QED BY <1>1, <1>2, <1>3, SubSeqProperties

-----------------------------------------------------------------------------
(* One answer, and all of them                                              *)

\* What is shown for the last request is of its target.
ShownIsWanted(u, s) ==
  /\ s.id <= u.id
  /\ s.ready /\ s.id = u.id /\ u.target.key # NoKey =>
       IsOf(s.pic, u.target.path, u.target.key.kind, u.target.key.look)
Keyed(u) == u.target.key # NoKey => u.target.key.path = u.target.path
Answered(s) == (s.screen.ready /\ s.screen.id = s.ui.id) \/ s.failed = s.ui.id

\* What the answers taken so far may change.
Follows(s, r) ==
  /\ r \in States /\ r.ui = s.ui /\ r.sent = s.sent
  /\ ShownIsWanted(r.ui, r.screen)
  /\ Answered(s) => Answered(r)

LEMMA TakenFacts ==
  ASSUME NEW s \in States, NEW a \in Answers, ShownIsWanted(s.ui, s.screen), Keyed(s.ui)
  PROVE  /\ Follows(s, Taken(s, a))
         /\ a.id = s.ui.id => \/ Answered(Taken(s, a))
                              \/ a.type = "Ready" /\ a.key # s.ui.target.key
<1>1. CASE a.id # s.ui.id
  BY <1>1 DEF Taken, Follows
<1>2. CASE a.id = s.ui.id /\ a.type = "Failed"
  <2> DEFINE r == [s EXCEPT !.failed = a.id]
  <2>1. Taken(s, a) = r
    BY <1>2 DEF Taken
  <2>2. a.id \in Nat
    BY DEF Answers, Readies
  <2>3. /\ r \in States /\ r.ui = s.ui /\ r.sent = s.sent /\ r.screen = s.screen
        /\ r.failed = r.ui.id
    BY <1>2, <2>2 DEF States
  <2> HIDE DEF r
  <2> QED BY <2>1, <2>3 DEF Follows, Answered
<1>3. CASE a.id = s.ui.id /\ a.type # "Failed" /\ a.key # s.ui.target.key
  <2>1. a.type = "Ready"
    BY <1>3 DEF Answers, Readies
  <2> QED BY <1>3, <2>1 DEF Taken, Follows
<1>4. CASE a.id = s.ui.id /\ a.type # "Failed" /\ a.key = s.ui.target.key
  <2> DEFINE entry == [key |-> a.key, pic |-> a.pic]
             mem == IF view.inMem THEN Put(s.ram, entry) ELSE s.ram
             set == [pic |-> a.pic, ready |-> TRUE, id |-> a.id]
             r == [s EXCEPT !.ram = mem, !.screen = set]
  <2>1. Taken(s, a) = r
    BY <1>4 DEF Taken, States
  <2>2. a \in Readies
    BY <1>4 DEF Answers
  <2>3. entry \in Memory /\ set \in Screens
    BY <2>2 DEF Readies, Memory, Screens
  <2>4. mem \in Seq(Memory)
    BY <2>3, PutIsSeq DEF States
  <2> HIDE DEF mem, entry
  <2>5. /\ r \in States /\ r.ui = s.ui /\ r.sent = s.sent /\ r.screen = set
    BY <2>3, <2>4 DEF States
  <2> HIDE DEF r
  <2>6. Suits(a.pic, a.key)
    BY <2>2 DEF Readies
  <2>7. s.ui.id \in Nat
    BY DEF States, Requested
  <2>8. ShownIsWanted(s.ui, set)
    BY <1>4, <2>6, <2>7 DEF ShownIsWanted, Suits, IsOf, Keyed
  <2> QED BY <1>4, <2>1, <2>5, <2>8 DEF Follows, Answered
<1> QED BY <1>1, <1>2, <1>3, <1>4

\* All the answers that are there: each is taken after the ones before.
LEMMA DrainedFacts ==
  ASSUME NEW s \in States, events \in Seq(Answers), ShownIsWanted(s.ui, s.screen), Keyed(s.ui)
  PROVE  /\ Follows(s, Drained(s))
         /\ \A i \in DOMAIN events : events[i].id = s.ui.id =>
              \/ Answered(Drained(s))
              \/ events[i].type = "Ready" /\ events[i].key # s.ui.target.key
<1> DEFINE L == Len(events)
           Step(g, n) == IF n = 0 THEN s ELSE Taken(g[n - 1], events[n])
           Made == {n \in Nat : \E g : g = [k \in 0 .. n |-> Step(g, k)]}
<1>1. L \in Nat /\ \A n \in 1 .. L : events[n] \in Answers
  OBVIOUS
<1>2. 0 \in Made
  <2> DEFINE g == [k \in 0 .. 0 |-> s]
  <2>1. g = [k \in 0 .. 0 |-> Step(g, k)]
    OBVIOUS
  <2> QED BY <2>1
<1>3. \A n \in Made : n + 1 \in Made
  <2> SUFFICES ASSUME NEW n \in Nat, NEW g, g = [k \in 0 .. n |-> Step(g, k)]
               PROVE  n + 1 \in Made
    OBVIOUS
  <2> DEFINE h == [k \in 0 .. n + 1 |-> IF k <= n THEN g[k] ELSE Step(g, n + 1)]
  <2>1. \A k \in 0 .. n : h[k] = g[k]
    OBVIOUS
  <2>2. ASSUME NEW k \in 0 .. n + 1 PROVE h[k] = Step(h, k)
    <3>1. CASE k = 0
      BY <3>1
    <3>2. CASE k # 0
      <4>1. k - 1 \in 0 .. n
        BY <3>2
      <4>2. h[k - 1] = g[k - 1]
        BY <2>1, <4>1
      <4>3. Step(h, k) = Step(g, k)
        BY <4>2
      <4>4. CASE k <= n
        <5>1. k \in 0 .. n
          BY <4>4
        <5>2. g[k] = Step(g, k)
          BY <5>1, Zenon
        <5> QED BY <2>1, <4>3, <5>1, <5>2, Zenon
      <4>5. CASE ~(k <= n)
        <5>1. k = n + 1
          BY <4>5
        <5> QED BY <4>3, <5>1
      <4> QED BY <4>4, <4>5
    <3> QED BY <3>1, <3>2
  <2>3. h = [k \in 0 .. n + 1 |-> Step(h, k)]
    BY <2>2
  <2> HIDE DEF h, Step
  <2> QED BY <2>3
<1>4. Made = Nat
  <2>1. Made \in SUBSET Nat
    OBVIOUS
  <2> HIDE DEF Made
  <2> QED BY <1>2, <1>3, <2>1, NatStep
<1>5. \E g : g = [k \in 0 .. L |-> Step(g, k)]
  BY <1>1, <1>4
<1> HIDE DEF Made
<1> DEFINE after[n \in 0 .. L] == IF n = 0 THEN s ELSE Taken(after[n - 1], events[n])
<1>6. after = [n \in 0 .. L |-> Step(after, n)]
  BY <1>5, Zenon
<1>7. Drained(s) = after[L]
  BY DEF Drained
<1> HIDE DEF after
<1>8. /\ after[0] = s
      /\ \A n \in Nat : n + 1 <= L => after[n + 1] = Taken(after[n], events[n + 1])
  <2>1. 0 \in 0 .. L
    BY <1>1
  <2>2. ASSUME NEW n \in Nat, n + 1 <= L PROVE n + 1 \in 0 .. L /\ n + 1 # 0 /\ (n + 1) - 1 = n
    BY <1>1, <2>2
  <2>3. after[0] = s
    BY <1>6, <2>1
  <2>4. ASSUME NEW k \in 0 .. L, k # 0 PROVE after[k] = Taken(after[k - 1], events[k])
    BY <1>6, <2>4, Zenon
  <2>5. ASSUME NEW n \in Nat, n + 1 <= L PROVE after[n + 1] = Taken(after[n], events[n + 1])
    BY <2>2, <2>4, <2>5
  <2> QED BY <2>3, <2>5
<1> DEFINE Fits(n) == /\ Follows(s, after[n])
                      /\ \A i \in 1 .. n : events[i].id = s.ui.id =>
                           \/ Answered(after[n])
                           \/ events[i].type = "Ready" /\ events[i].key # s.ui.target.key
           Fine == {n \in Nat : n <= L => Fits(n)}
<1>9. Fits(0)
  BY <1>8 DEF Follows
<1>10. ASSUME NEW n \in Nat, n + 1 <= L, Fits(n) PROVE Fits(n + 1)
  <2> DEFINE before == after[n]
             a == events[n + 1]
  <2>1. a \in Answers
    <3>1. n + 1 \in 1 .. L
      BY <1>1, <1>10
    <3> QED BY <1>1, <3>1
  <2>2. before \in States /\ before.ui = s.ui /\ before.sent = s.sent
        /\ ShownIsWanted(before.ui, before.screen) /\ (Answered(s) => Answered(before))
    BY <1>10 DEF Follows
  <2>3. after[n + 1] = Taken(before, a)
    BY <1>8, <1>10
  <2> HIDE DEF before, a
  <2>4. /\ Follows(before, after[n + 1])
        /\ a.id = before.ui.id =>
             \/ Answered(after[n + 1])
             \/ a.type = "Ready" /\ a.key # before.ui.target.key
    BY <2>1, <2>2, <2>3, TakenFacts
  <2>5. Follows(s, after[n + 1])
    BY <2>2, <2>4 DEF Follows
  <2>6. ASSUME NEW i \in 1 .. n + 1, events[i].id = s.ui.id
        PROVE  \/ Answered(after[n + 1])
               \/ events[i].type = "Ready" /\ events[i].key # s.ui.target.key
    <3>1. CASE i = n + 1
      BY <2>2, <2>4, <2>6, <3>1 DEF a
    <3>2. CASE i # n + 1
      <4>1. i \in 1 .. n
        BY <3>2
      <4>2. \/ Answered(before)
            \/ events[i].type = "Ready" /\ events[i].key # s.ui.target.key
        BY <1>10, <2>6, <4>1 DEF before
      <4> QED BY <2>4, <4>2 DEF Follows
    <3> QED BY <3>1, <3>2
  <2> QED BY <2>5, <2>6
<1>11. Fits(L)
  <2> HIDE DEF Fits, L
  <2>1. 0 \in Fine
    BY <1>9
  <2>2. \A n \in Fine : n + 1 \in Fine
    <3> SUFFICES ASSUME NEW n \in Nat, n <= L => Fits(n), n + 1 <= L
                 PROVE  Fits(n + 1)
      OBVIOUS
    <3>1. n <= L
      BY <1>1
    <3> QED BY <1>10, <3>1
  <2>3. Fine = Nat
    <3>1. Fine \in SUBSET Nat
      OBVIOUS
    <3> HIDE DEF Fine
    <3> QED BY <2>1, <2>2, <3>1, NatStep
  <2> QED BY <1>1, <2>3
<1>12. DOMAIN events = 1 .. L
  OBVIOUS
<1> HIDE DEF L
<1> QED BY <1>7, <1>11, <1>12

-----------------------------------------------------------------------------
(* The invariant                                                            *)

Threads == [id : Nat, path : Tracks, kind : Kinds, look : Looks, onDisk : BOOLEAN, key : AllKeys,
            at : {"new", "keyed", "open", "drawn", "saving"}, off : BOOLEAN, pic : AllKeys]

TypeInv ==
  /\ clock \in Nat /\ files \in [Tracks -> Nat] /\ \A t \in Tracks : files[t] <= clock
  /\ current \in Tracks \cup {Nothing}
  /\ view \in [mode : Modes, look : Looks, skip : BOOLEAN, inMem : BOOLEAN, onDisk : BOOLEAN]
  /\ ui \in Requested /\ screen \in Screens /\ ram \in Seq(Memory) /\ failed \in Nat
  /\ cmds \in Seq(Commands) /\ events \in Seq(Answers) /\ disk \in Seq(Stored)
  /\ builders \subseteq Threads

\* A builder's key is not of a younger file than the one it will read, and its
\* picture not of an older one.
Careful(b) ==
  /\ b.at # "new" => b.key = Key(b.path, b.key.time, b.kind, b.look) /\ b.key.time <= clock
  /\ b.at = "keyed" /\ files[b.path] # NoFile => b.key.time <= files[b.path]
  /\ b.at \in {"open", "drawn", "saving"} =>
       /\ b.pic = Key(b.path, b.pic.time, b.kind, b.look)
       /\ b.key.time <= b.pic.time /\ b.pic.time <= clock

\* The target is of the file that was looked at last.
TargetInv ==
  /\ ui.meta.time <= clock
  /\ ui.target # NoTarget => ui.target.path \in Tracks /\ ui.meta.path = ui.target.path
  /\ ui.target.key # NoKey =>
       /\ ui.target # NoTarget /\ ui.meta.time # NoFile
       /\ ui.target.key = Key(ui.target.path, ui.meta.time, ui.target.key.kind, ui.target.key.look)

\* What has the number of the last request is what it asked for, unless the file
\* is another one by now.
OfTarget(u, c) == u.target.key # NoKey => /\ c.path = u.target.path
                                          /\ c.kind = u.target.key.kind
                                          /\ c.look = u.target.key.look
KeyOfTarget(u, there, key) ==
  u.target.key # NoKey => key = u.target.key \/ u.meta.time # there[u.target.path]

IsBuild(c) == c.type = "Build"
CommandsInv ==
  /\ \A i \in DOMAIN cmds : IsBuild(cmds[i]) =>
       /\ cmds[i].id <= ui.id
       /\ cmds[i].id = ui.id => OfTarget(ui, cmds[i])
       /\ \A j \in DOMAIN cmds : i < j /\ IsBuild(cmds[j]) => cmds[i].id < cmds[j].id
BuilderInv(b) ==
  /\ Careful(b)
  /\ b.id <= ui.id
  /\ \A i \in DOMAIN cmds : IsBuild(cmds[i]) => b.id < cmds[i].id
  /\ b.id = ui.id => OfTarget(ui, b) /\ (b.at # "new" => KeyOfTarget(ui, files, b.key))
AnswerInv(a) ==
  /\ a.id <= ui.id
  /\ a.id = ui.id /\ a.type = "Ready" => KeyOfTarget(ui, files, a.key)

PicturesInv ==
  /\ TypeInv /\ TargetInv /\ CommandsInv
  /\ \A b \in builders : BuilderInv(b)
  /\ \A i \in DOMAIN events : AnswerInv(events[i])
  /\ ShownIsWanted(ui, screen)
  /\ PictureIsOnItsWay

\* The three places where the work on the last request may be.
Commanded == \E i \in DOMAIN cmds : /\ IsBuild(cmds[i]) /\ cmds[i].id = ui.id
                                   /\ \A j \in i + 1 .. Len(cmds) : cmds[j].type # "Cancel"
BuiltBy(b) == /\ b.id = ui.id /\ ~b.off
              /\ \A i \in DOMAIN cmds : cmds[i].type # "Cancel"
Replied == \E i \in DOMAIN events : events[i].id = ui.id
Open == ui.target # NoTarget /\ ~Resolved /\ ~FileIsOther

LEMMA OnItsWay ==
  PictureIsOnItsWay <=> (Open => Commanded \/ (\E b \in builders : BuiltBy(b)) \/ Replied)
BY DEF PictureIsOnItsWay, Open, Commanded, BuiltBy, Replied, IsBuild

-----------------------------------------------------------------------------
(* The tick                                                                 *)

LEMMA TargetFacts ==
  ASSUME TypeInv, TargetInv
  PROVE  /\ Target \in [path : Tracks \cup {Nothing}, key : AllKeys]
         /\ ~Wanted => Target = NoTarget
         /\ Wanted => /\ Target # NoTarget /\ Target.path = current /\ current \in Tracks
                      /\ view.mode \in Kinds
                      /\ Meta \in [path : Tracks \cup {Nothing}, time : Nat]
                      /\ Meta.path = current /\ Meta.time <= clock
         /\ Target.key # NoKey =>
              /\ Wanted /\ Meta.time # NoFile
              /\ Target.key = Key(current, Meta.time, view.mode, view.look)
<1>1. NoKey \in AllKeys /\ NoTarget \in [path : Tracks \cup {Nothing}, key : AllKeys]
  BY DEF NoKey, Key, AllKeys, NoTarget, NoFile, Nothing
<1>2. CASE ~Wanted
  BY <1>1, <1>2 DEF Target, NoTarget
<1>3. CASE Wanted
  <2>1. current \in Tracks /\ current # Nothing /\ view.mode \in Kinds /\ view.look \in Looks
    BY <1>3 DEF Wanted, TypeInv
  <2>2. /\ Meta \in [path : Tracks \cup {Nothing}, time : Nat]
        /\ Meta.path = current /\ Meta.time <= clock
    BY <2>1 DEF Meta, TypeInv, TargetInv, Requested
  <2> DEFINE key == IF Meta.time = NoFile THEN NoKey
                    ELSE Key(current, Meta.time, view.mode, view.look)
  <2>3. Target = [path |-> current, key |-> key]
    BY <1>3 DEF Target
  <2>4. Key(current, Meta.time, view.mode, view.look) \in AllKeys
    BY <2>1, <2>2 DEF Key, AllKeys
  <2>5. key \in AllKeys /\ (key # NoKey => Meta.time # NoFile
                              /\ key = Key(current, Meta.time, view.mode, view.look))
    BY <1>1, <2>4
  <2> HIDE DEF key
  <2>6. Target # NoTarget
    BY <2>1, <2>3 DEF NoTarget
  <2> QED BY <1>3, <2>1, <2>2, <2>3, <2>5, <2>6
<1> QED BY <1>2, <1>3

\* apply_fulltrack: nothing to show, a picture that memory has, or a request.
LEMMA AppliedFacts ==
  ASSUME TypeInv, TargetInv, NEW s \in States, s.ui.target = Target, s.screen.id <= s.ui.id
  PROVE  /\ Applied(s) \in States
         /\ Applied(s).ui.target = Target /\ Applied(s).ui.meta = s.ui.meta
         /\ ShownIsWanted(Applied(s).ui, Applied(s).screen)
         /\ \/ Target = NoTarget /\ Applied(s).ui.id = s.ui.id /\ Applied(s).sent = <<Cancel>>
            \/ /\ Target # NoTarget /\ Applied(s).ui.id = s.ui.id + 1
               /\ \/ Answered(Applied(s)) /\ Applied(s).sent = <<Cancel>>
                  \/ Wanted /\ Applied(s).sent = <<Cancel, Build(s.ui.id + 1)>>
<1> DEFINE hit == WithKey(s.ram, Target.key)
           next == s.ui.id + 1
<1>1. /\ s.ui \in Requested /\ s.screen \in Screens /\ s.ram \in Seq(Memory) /\ s.failed \in Nat
      /\ s.ui.id \in Nat /\ s.screen.id \in Nat
  BY DEF States, Requested, Screens
<1>2. <<Cancel>> \in Seq(Commands)
  BY DEF Commands
<1>3. CASE Target = NoTarget
  <2> DEFINE sc == [s.screen EXCEPT !.ready = FALSE]
             r == [s EXCEPT !.sent = <<Cancel>>, !.screen.ready = FALSE]
  <2>1. Applied(s) = r
    BY <1>3 DEF Applied
  <2>2. sc \in Screens /\ sc.id = s.screen.id
    BY <1>1 DEF Screens
  <2>3. r \in States /\ r.ui = s.ui /\ r.screen = sc /\ r.sent = <<Cancel>>
    BY <1>1, <1>2, <2>2 DEF States
  <2>4. s.ui.target.key = NoKey
    BY <1>3 DEF NoTarget
  <2> HIDE DEF r, sc
  <2> QED BY <1>3, <2>1, <2>2, <2>3, <2>4 DEF ShownIsWanted
<1>4. CASE Target # NoTarget /\ HasKey(s.ram, Target.key)
  <2> DEFINE u == [s.ui EXCEPT !.id = next]
             mem == <<hit>> \o Excluding(s.ram, Target.key)
             sc == [pic |-> hit.pic, ready |-> TRUE, id |-> next]
             r == [s EXCEPT !.sent = <<Cancel>>, !.ui.id = next, !.ram = mem, !.screen = sc]
  <2>1. Applied(s) = r
    BY <1>4 DEF Applied
  <2>2. hit \in Memory /\ hit.key = Target.key
    BY <1>1, <1>4, WithKeyIsOne
  <2> HIDE DEF hit
  <2>3. mem \in Seq(Memory)
    BY <1>1, <2>2, ExcludingIsSeq
  <2>4. next \in Nat /\ sc \in Screens
    BY <1>1, <2>2 DEF Screens, Memory
  <2>5. u \in Requested /\ u.id = next /\ u.target = Target /\ u.meta = s.ui.meta
    BY <1>1, <2>4 DEF Requested
  <2> HIDE DEF mem
  <2>6. r \in States /\ r.ui = u /\ r.screen = sc /\ r.sent = <<Cancel>>
    BY <1>1, <1>2, <2>3, <2>4, <2>5 DEF States
  <2>7. ShownIsWanted(u, sc)
    <3>1. Suits(hit.pic, Target.key)
      BY <2>2 DEF Memory
    <3>2. Target.key # NoKey => Target.key.path = Target.path
      BY TargetFacts DEF Key
    <3> QED BY <2>4, <2>5, <3>1, <3>2 DEF ShownIsWanted, Suits, IsOf
  <2> HIDE DEF r, u
  <2> QED BY <1>4, <2>1, <2>5, <2>6, <2>7 DEF Answered
<1>5. CASE Target # NoTarget /\ ~HasKey(s.ram, Target.key)
  <2> DEFINE u == [s.ui EXCEPT !.id = next]
             out == <<Cancel, Build(next)>>
             r == [s EXCEPT !.sent = out, !.ui.id = next]
  <2>1. Applied(s) = r
    BY <1>5 DEF Applied
  <2>2. Wanted
    BY <1>5, TargetFacts
  <2>3. Build(next) \in Builds
    BY <1>1, <2>2, TargetFacts DEF Build, Builds, TypeInv
  <2>4. out \in Seq(Commands)
    BY <2>3 DEF Commands
  <2>5. u \in Requested /\ u.id = next /\ u.target = Target /\ u.meta = s.ui.meta
    BY <1>1 DEF Requested
  <2> HIDE DEF out
  <2>6. r \in States /\ r.ui = u /\ r.screen = s.screen /\ r.sent = out
    BY <1>1, <2>4, <2>5 DEF States
  <2>7. ShownIsWanted(u, s.screen)
    BY <1>1, <2>5 DEF ShownIsWanted
  <2> HIDE DEF r, u
  <2> QED BY <1>5, <2>1, <2>2, <2>5, <2>6, <2>7 DEF out
<1> QED BY <1>3, <1>4, <1>5

\* What a tick does, before what it means.
LEMMA TickFacts ==
  ASSUME PicturesInv, PictureTick
  PROVE  /\ ui' \in Requested /\ screen' \in Screens /\ ram' \in Seq(Memory) /\ failed' \in Nat
         /\ ui'.target = Target /\ TargetInv'
         /\ ShownIsWanted(ui', screen')
         /\ \/ /\ ui' = ui /\ cmds' = cmds /\ (Resolved => Resolved')
               /\ \A i \in DOMAIN events : events[i].id = ui.id =>
                    Resolved' \/ (events[i].type = "Ready" /\ events[i].key # ui.target.key)
            \/ Target = NoTarget /\ ui'.id = ui.id /\ cmds' = cmds \o <<Cancel>>
            \/ /\ Target # NoTarget /\ ui'.id = ui.id + 1
               /\ \/ Resolved' /\ cmds' = cmds \o <<Cancel>>
                  \/ Wanted /\ cmds' = cmds \o <<Cancel, Build(ui.id + 1)>>
<1> DEFINE seen == [ui EXCEPT !.meta = IF Wanted THEN Meta ELSE @]
           s0 == [ui |-> seen, screen |-> screen, ram |-> ram, failed |-> failed, sent |-> <<>>]
           asks == [s0 EXCEPT !.ui.target = Target, !.ui.mode = view.mode]
           s1 == IF Target = ui.target /\ view.mode = ui.mode THEN s0 ELSE Applied(asks)
           s2 == Drained(s1)
<1>1. /\ ui' = s2.ui /\ screen' = s2.screen /\ ram' = s2.ram /\ failed' = s2.failed
      /\ cmds' = cmds \o s2.sent /\ events' = <<>>
      /\ UNCHANGED <<clock, files, current, view, recent, builders, disk>>
  BY DEF PictureTick
<1>2. TypeInv /\ TargetInv /\ ShownIsWanted(ui, screen) /\ events \in Seq(Answers)
      /\ ui \in Requested /\ screen \in Screens /\ ram \in Seq(Memory) /\ failed \in Nat
      /\ cmds \in Seq(Commands)
  BY DEF PicturesInv, TypeInv
<1>3. seen \in Requested /\ seen.id = ui.id /\ seen.target = ui.target /\ seen.mode = ui.mode
      /\ seen.meta = IF Wanted THEN Meta ELSE ui.meta
  BY <1>2, TargetFacts DEF Requested
<1>4. s0 \in States /\ s0.ui = seen /\ s0.screen = screen /\ s0.failed = failed /\ s0.sent = <<>>
  BY <1>2, <1>3 DEF States
<1>5. /\ asks \in States /\ asks.ui.target = Target /\ asks.ui.id = ui.id
      /\ asks.ui.meta = seen.meta /\ asks.screen = screen
  <2> DEFINE u == [seen EXCEPT !.target = Target, !.mode = view.mode]
  <2>1. view.mode \in Modes
    BY <1>2 DEF TypeInv
  <2>2. u \in Requested /\ u.target = Target /\ u.id = ui.id /\ u.meta = seen.meta
    BY <1>2, <1>3, <2>1, TargetFacts DEF Requested
  <2> HIDE DEF seen
  <2>3. asks = [s0 EXCEPT !.ui = u]
    BY <1>4
  <2> HIDE DEF u, s0
  <2> QED BY <1>4, <2>2, <2>3 DEF States
<1>6. CASE Target = ui.target /\ view.mode = ui.mode
  <2>1. s1 = s0
    BY <1>6
  <2>2. seen = ui
    <3>1. Wanted => Meta = ui.meta
      BY <1>2, <1>6, TargetFacts DEF TargetInv, Meta
    <3> QED BY <1>2, <1>3, <3>1 DEF Requested
  <2>3. Keyed(ui)
    BY <1>2 DEF TargetInv, Keyed, Key
  <2> HIDE DEF s0, seen
  <2>4. /\ Follows(s0, s2)
        /\ \A i \in DOMAIN events : events[i].id = s0.ui.id =>
             \/ Answered(s2)
             \/ events[i].type = "Ready" /\ events[i].key # s0.ui.target.key
    BY <1>2, <1>4, <2>1, <2>2, <2>3, DrainedFacts
  <2> HIDE DEF s1, s2
  <2>5. s2 \in States /\ s2.ui = ui /\ s2.sent = <<>> /\ ShownIsWanted(ui, s2.screen)
    BY <1>4, <2>2, <2>4 DEF Follows
  <2>6. ui' = ui /\ cmds' = cmds
    BY <1>1, <1>2, <2>5
  <2>7. TargetInv'
    BY <1>1, <1>2, <2>6 DEF TargetInv
  <2>8. (Answered(s0) <=> Resolved) /\ (Answered(s2) <=> Resolved')
    BY <1>1, <1>4, <2>2, <2>5, <2>6 DEF Answered, Resolved
  <2>9. Resolved => Resolved'
    BY <2>4, <2>8 DEF Follows
  <2>10. \A i \in DOMAIN events : events[i].id = ui.id =>
           Resolved' \/ (events[i].type = "Ready" /\ events[i].key # ui.target.key)
    BY <1>4, <2>2, <2>4, <2>8
  <2>11. screen' \in Screens /\ ram' \in Seq(Memory) /\ failed' \in Nat
    BY <1>1, <2>5 DEF States
  <2> QED BY <1>1, <1>2, <1>6, <2>5, <2>6, <2>7, <2>9, <2>10, <2>11
<1>7. CASE ~(Target = ui.target /\ view.mode = ui.mode)
  <2>1. s1 = Applied(asks)
    BY <1>7
  <2> HIDE DEF asks, s0, s1
  <2>2. asks.screen.id <= asks.ui.id
    BY <1>2, <1>5 DEF ShownIsWanted
  <2>3. /\ s1 \in States
        /\ s1.ui.target = Target /\ s1.ui.meta = seen.meta
        /\ ShownIsWanted(s1.ui, s1.screen)
        /\ \/ Target = NoTarget /\ s1.ui.id = ui.id /\ s1.sent = <<Cancel>>
           \/ /\ Target # NoTarget /\ s1.ui.id = ui.id + 1
              /\ \/ Answered(s1) /\ s1.sent = <<Cancel>>
                 \/ Wanted /\ s1.sent = <<Cancel, Build(ui.id + 1)>>
    BY <1>2, <1>5, <2>1, <2>2, AppliedFacts
  <2>4. Keyed(s1.ui)
    BY <1>2, <2>3, TargetFacts DEF Keyed, Key
  <2>5. Follows(s1, s2)
    BY <1>2, <2>3, <2>4, DrainedFacts
  <2> HIDE DEF s2, seen
  <2>6. /\ s2 \in States /\ s2.ui = s1.ui /\ s2.sent = s1.sent /\ ShownIsWanted(s2.ui, s2.screen)
        /\ Answered(s1) => Answered(s2)
    BY <2>5 DEF Follows
  <2>7. ui' \in Requested /\ screen' \in Screens /\ ram' \in Seq(Memory) /\ failed' \in Nat
    BY <1>1, <2>6 DEF States
  <2>8. ui'.target = Target /\ ui'.meta = seen.meta /\ ui'.id = s1.ui.id
        /\ ShownIsWanted(ui', screen')
    BY <1>1, <2>3, <2>6
  <2>9. Answered(s2) <=> Resolved'
    BY <1>1 DEF Answered, Resolved
  <2>10. TargetInv'
    <3>1. ui'.meta.time <= clock'
      BY <1>1, <1>2, <1>3, <2>8, TargetFacts DEF TargetInv
    <3>2. Target # NoTarget => Target.path \in Tracks /\ ui'.meta.path = Target.path
      BY <1>2, <1>3, <2>8, TargetFacts
    <3>3. Target.key # NoKey =>
            /\ Target # NoTarget /\ ui'.meta.time # NoFile
            /\ Target.key = Key(Target.path, ui'.meta.time, Target.key.kind, Target.key.look)
      BY <1>2, <1>3, <2>8, TargetFacts DEF Key
    <3> QED BY <2>8, <3>1, <3>2, <3>3 DEF TargetInv
  <2>11. cmds' = cmds \o s1.sent
    BY <1>1, <2>6
  <2> QED BY <2>3, <2>6, <2>7, <2>8, <2>9, <2>10, <2>11
<1> QED BY <1>6, <1>7

\* A queue of commands with more at its end.
LEMMA SentFacts ==
  ASSUME NEW T, NEW s \in Seq(T), NEW out \in Seq(T)
  PROVE  /\ s \o out \in Seq(T) /\ Len(s) \in Nat /\ Len(out) \in Nat
         /\ Len(s \o out) = Len(s) + Len(out)
         /\ \A i \in 1 .. Len(s) : (s \o out)[i] = s[i]
         /\ \A i \in 1 .. Len(out) : (s \o out)[Len(s) + i] = out[i]
BY ConcatProperties

\* The requests that were made have older numbers than what is sent now.
LEMMA CommandsAfter ==
  ASSUME PicturesInv, NEW out \in Seq(Commands), cmds' = cmds \o out,
         ui'.id \in Nat, ui.id <= ui'.id, ui.id < ui'.id \/ ui'.target.key = NoKey \/ ui' = ui,
         \A i \in 1 .. Len(out) : IsBuild(out[i]) =>
           /\ i = Len(out) /\ ui.id < out[i].id /\ out[i].id = ui'.id /\ OfTarget(ui', out[i])
  PROVE  /\ cmds' \in Seq(Commands)
         /\ CommandsInv'
         /\ \A i \in DOMAIN cmds' : IsBuild(cmds'[i]) =>
              \/ i \in DOMAIN cmds /\ cmds'[i] = cmds[i]
              \/ ui.id < cmds'[i].id
<1> DEFINE L == Len(cmds)
           r == cmds \o out
<1>1. cmds \in Seq(Commands) /\ ui.id \in Nat /\ CommandsInv
  BY DEF PicturesInv, TypeInv, Requested
<1>2. /\ r \in Seq(Commands) /\ L \in Nat /\ Len(out) \in Nat /\ Len(r) = L + Len(out)
      /\ \A i \in 1 .. L : r[i] = cmds[i]
      /\ \A i \in 1 .. Len(out) : r[L + i] = out[i]
  BY <1>1, SentFacts
<1> HIDE DEF r
<1>3. DOMAIN r = 1 .. L + Len(out) /\ DOMAIN cmds = 1 .. L
  BY <1>1, <1>2
<1>4. \A i \in 1 .. L : IsBuild(cmds[i]) =>
        /\ cmds[i].id \in Nat /\ cmds[i].id <= ui.id
        /\ cmds[i].id = ui.id => OfTarget(ui, cmds[i])
        /\ \A j \in 1 .. L : i < j /\ IsBuild(cmds[j]) => cmds[i].id < cmds[j].id
  <2>1. \A i \in 1 .. L : IsBuild(cmds[i]) => cmds[i].id \in Nat
    <3> SUFFICES ASSUME NEW i \in 1 .. L, IsBuild(cmds[i]) PROVE cmds[i].id \in Nat
      OBVIOUS
    <3>1. cmds[i] \in Commands
      BY <1>1
    <3> QED BY <3>1 DEF Commands, Builds, Cancel, IsBuild
  <2> QED BY <1>1, <1>3, <2>1 DEF CommandsInv
<1> HIDE DEF L
<1>5. ASSUME NEW i \in DOMAIN r, IsBuild(r[i])
      PROVE  \/ i \in 1 .. L /\ r[i] = cmds[i]
             \/ i = L + Len(out) /\ ui.id < r[i].id /\ r[i].id = ui'.id /\ OfTarget(ui', r[i])
  <2>1. CASE i <= L
    <3>1. i \in 1 .. L
      BY <1>2, <1>3, <2>1
    <3> QED BY <1>2, <3>1
  <2>2. CASE ~(i <= L)
    <3>1. i - L \in 1 .. Len(out) /\ L + (i - L) = i
      BY <1>2, <1>3, <2>2
    <3>2. r[i] = out[i - L]
      BY <1>2, <3>1
    <3>3. i - L = Len(out) /\ ui.id < out[i - L].id /\ out[i - L].id = ui'.id
          /\ OfTarget(ui', out[i - L])
      BY <1>5, <3>1, <3>2
    <3>4. i = L + Len(out)
      BY <1>2, <1>3, <3>1, <3>3
    <3> QED BY <3>2, <3>3, <3>4
  <2> QED BY <2>1, <2>2
<1>6. cmds' = r
  BY DEF r
<1>7. ASSUME NEW i \in DOMAIN r, IsBuild(r[i])
      PROVE  /\ r[i].id <= ui'.id
             /\ r[i].id = ui'.id => OfTarget(ui', r[i])
             /\ \A j \in DOMAIN r : i < j /\ IsBuild(r[j]) => r[i].id < r[j].id
  <2>1. CASE i \in 1 .. L /\ r[i] = cmds[i]
    <3>1. r[i].id \in Nat /\ r[i].id <= ui.id /\ (r[i].id = ui.id => OfTarget(ui, r[i]))
      BY <1>4, <1>7, <2>1
    <3>2. r[i].id = ui'.id => OfTarget(ui', r[i])
      BY <1>1, <3>1 DEF OfTarget
    <3>3. ASSUME NEW j \in DOMAIN r, i < j, IsBuild(r[j]) PROVE r[i].id < r[j].id
      <4>1. CASE j \in 1 .. L /\ r[j] = cmds[j]
        BY <1>4, <1>7, <2>1, <3>3, <4>1
      <4>2. CASE ui.id < r[j].id /\ r[j].id = ui'.id
        BY <1>1, <3>1, <4>2
      <4> QED BY <1>5, <3>3, <4>1, <4>2
    <3> QED BY <1>1, <3>1, <3>2, <3>3
  <2>2. CASE i = L + Len(out) /\ ui.id < r[i].id /\ r[i].id = ui'.id /\ OfTarget(ui', r[i])
    <3>1. \A j \in DOMAIN r : ~(i < j)
      BY <1>2, <1>3, <2>2
    <3> QED BY <2>2, <3>1
  <2> QED BY <1>5, <1>7, <2>1, <2>2
<1>8. CommandsInv'
  BY <1>6, <1>7 DEF CommandsInv
<1> QED BY <1>2, <1>3, <1>5, <1>6, <1>8

LEMMA TickStep ==
  ASSUME PicturesInv, PictureTick
  PROVE  PicturesInv'
<1>1. /\ UNCHANGED <<clock, files, current, view, builders, disk>> /\ events' = <<>>
  BY DEF PictureTick
<1>2. /\ ui' \in Requested /\ screen' \in Screens /\ ram' \in Seq(Memory) /\ failed' \in Nat
      /\ ui'.target = Target /\ TargetInv' /\ ShownIsWanted(ui', screen')
  BY TickFacts
<1>3. /\ TypeInv /\ TargetInv /\ \A b \in builders : BuilderInv(b) /\ b.id \in Nat
      /\ ui.id \in Nat /\ ui'.id \in Nat /\ cmds \in Seq(Commands)
  BY <1>2 DEF PicturesInv, TypeInv, Requested, Threads
<1> DEFINE Follow == /\ cmds' \in Seq(Commands) /\ CommandsInv'
                     /\ \A b \in builders' : BuilderInv(b)'
                     /\ PictureIsOnItsWay'
<1>4. ASSUME ui' = ui, cmds' = cmds, Resolved => Resolved',
             \A i \in DOMAIN events : events[i].id = ui.id =>
               Resolved' \/ (events[i].type = "Ready" /\ events[i].key # ui.target.key)
      PROVE  Follow
  <2>1. CommandsInv'
    BY <1>4 DEF PicturesInv, CommandsInv, OfTarget
  <2>2. \A b \in builders' : BuilderInv(b)'
    BY <1>1, <1>3, <1>4 DEF BuilderInv, Careful, OfTarget, KeyOfTarget
  <2>3. PictureIsOnItsWay'
    <3> SUFFICES ASSUME Open' PROVE Commanded' \/ (\E b \in builders' : BuiltBy(b)')
      BY DEF PictureIsOnItsWay, Open, Commanded, BuiltBy, IsBuild
    <3>1. Open /\ ~Resolved'
      BY <1>1, <1>4 DEF Open, FileIsOther
    <3>2. ~Replied
      <4> SUFFICES ASSUME NEW i \in DOMAIN events, events[i].id = ui.id PROVE FALSE
        BY DEF Replied
      <4>1. events[i].type = "Ready" /\ events[i].key # ui.target.key
        BY <1>4, <3>1
      <4>2. KeyOfTarget(ui, files, events[i].key)
        BY <4>1 DEF PicturesInv, AnswerInv
      <4> QED BY <3>1, <4>1, <4>2 DEF Open, FileIsOther, KeyOfTarget
    <3>3. Commanded \/ \E b \in builders : BuiltBy(b)
      BY <3>1, <3>2, OnItsWay DEF PicturesInv
    <3> QED BY <1>1, <1>4, <3>3 DEF Commanded, BuiltBy
  <2> QED BY <1>3, <1>4, <2>1, <2>2, <2>3
<1>5. ASSUME NEW out \in Seq(Commands), cmds' = cmds \o out,
             \A i \in 1 .. Len(out) : IsBuild(out[i]) =>
               /\ i = Len(out) /\ ui.id < out[i].id /\ out[i].id = ui'.id /\ OfTarget(ui', out[i]),
             ui.id <= ui'.id, ui.id < ui'.id \/ ui'.target.key = NoKey
      PROVE  cmds' \in Seq(Commands) /\ CommandsInv' /\ \A b \in builders' : BuilderInv(b)'
  <2>1. /\ cmds' \in Seq(Commands) /\ CommandsInv'
        /\ \A i \in DOMAIN cmds' : IsBuild(cmds'[i]) =>
             \/ i \in DOMAIN cmds /\ cmds'[i] = cmds[i]
             \/ ui.id < cmds'[i].id
    BY <1>3, <1>5, CommandsAfter
  <2>2. ASSUME NEW b \in builders PROVE BuilderInv(b)'
    <3>1. BuilderInv(b) /\ b.id \in Nat /\ b.id <= ui.id
      BY <1>3 DEF BuilderInv
    <3>2. Careful(b)'
      BY <1>1, <3>1 DEF BuilderInv, Careful
    <3>3. \A i \in DOMAIN cmds' : IsBuild(cmds'[i]) => b.id < cmds'[i].id
      <4> SUFFICES ASSUME NEW i \in DOMAIN cmds', IsBuild(cmds'[i]) PROVE b.id < cmds'[i].id
        OBVIOUS
      <4>1. CASE i \in DOMAIN cmds /\ cmds'[i] = cmds[i]
        BY <3>1, <4>1 DEF BuilderInv
      <4>2. CASE ui.id < cmds'[i].id
        <5>1. cmds'[i].id \in Nat
          <6>1. cmds'[i] \in Commands
            BY <2>1
          <6> QED BY <6>1 DEF Commands, Builds, Cancel, IsBuild
        <5> QED BY <1>3, <3>1, <4>2, <5>1
      <4> QED BY <2>1, <4>1, <4>2
    <3>4. b.id = ui'.id => OfTarget(ui', b) /\ (b.at # "new" => KeyOfTarget(ui', files, b.key))
      BY <1>3, <1>5, <3>1 DEF OfTarget, KeyOfTarget
    <3>5. b.id <= ui'.id
      BY <1>3, <1>5, <3>1
    <3> QED BY <1>1, <3>2, <3>3, <3>4, <3>5 DEF BuilderInv
  <2> QED BY <1>1, <2>1, <2>2
<1>6. ASSUME Target = NoTarget, ui'.id = ui.id, cmds' = cmds \o <<Cancel>>
      PROVE  Follow
  <2> DEFINE out == <<Cancel>>
  <2>1. out \in Seq(Commands) /\ Len(out) = 1 /\ out[1] = Cancel
    BY DEF Commands
  <2>2. ui'.target.key = NoKey /\ ui'.target = NoTarget
    BY <1>2, <1>6 DEF NoTarget
  <2>3. \A i \in 1 .. Len(out) : ~IsBuild(out[i])
    BY <2>1 DEF Cancel, IsBuild
  <2> HIDE DEF out
  <2>4. PictureIsOnItsWay'
    BY <2>2 DEF PictureIsOnItsWay
  <2>5. ui.id <= ui'.id /\ cmds' = cmds \o out
    BY <1>3, <1>6 DEF out
  <2> QED BY <1>5, <2>1, <2>2, <2>3, <2>4, <2>5
<1>7. ASSUME ui'.id = ui.id + 1, Resolved', cmds' = cmds \o <<Cancel>>
      PROVE  Follow
  <2> DEFINE out == <<Cancel>>
  <2>1. out \in Seq(Commands) /\ Len(out) = 1 /\ out[1] = Cancel
    BY DEF Commands
  <2>2. \A i \in 1 .. Len(out) : ~IsBuild(out[i])
    BY <2>1 DEF Cancel, IsBuild
  <2> HIDE DEF out
  <2>3. PictureIsOnItsWay'
    BY <1>7 DEF PictureIsOnItsWay
  <2>4. ui.id <= ui'.id /\ ui.id < ui'.id
    BY <1>3, <1>7
  <2> QED BY <1>5, <1>7, <2>1, <2>2, <2>3, <2>4 DEF out
<1>8. ASSUME ui'.id = ui.id + 1, Wanted, cmds' = cmds \o <<Cancel, Build(ui.id + 1)>>
      PROVE  Follow
  <2> DEFINE c == Build(ui.id + 1)
             out == <<Cancel, c>>
  <2>1. /\ c \in Builds /\ c.id = ui.id + 1 /\ IsBuild(c)
        /\ c.path = current /\ c.kind = view.mode /\ c.look = view.look
    BY <1>3, <1>8, TargetFacts DEF Build, Builds, TypeInv, IsBuild
  <2> HIDE DEF c
  <2>2. out \in Seq(Commands) /\ Len(out) = 2 /\ out[1] = Cancel /\ out[2] = c
    BY <2>1 DEF Commands
  <2>3. OfTarget(ui', c)
    <3>1. Target.key # NoKey => Target.key.kind = view.mode /\ Target.key.look = view.look
      BY <1>3, TargetFacts DEF Key
    <3>2. Target.path = current
      BY <1>3, <1>8, TargetFacts
    <3> QED BY <1>2, <2>1, <3>1, <3>2 DEF OfTarget
  <2>4. ~IsBuild(Cancel)
    BY DEF Cancel, IsBuild
  <2> HIDE DEF out
  <2>5. ASSUME NEW i \in 1 .. Len(out), IsBuild(out[i])
        PROVE  i = Len(out) /\ ui.id < out[i].id /\ out[i].id = ui'.id /\ OfTarget(ui', out[i])
    <3>1. i = 2
      BY <2>2, <2>4, <2>5
    <3>2. out[i] = c
      BY <2>2, <3>1
    <3> QED BY <1>3, <1>8, <2>1, <2>2, <2>3, <3>1, <3>2
  <2>6. ui.id <= ui'.id /\ ui.id < ui'.id /\ cmds' = cmds \o out
    BY <1>3, <1>8 DEF out, c
  <2>7. cmds' \in Seq(Commands) /\ CommandsInv' /\ \A b \in builders' : BuilderInv(b)'
    BY <1>5, <2>2, <2>5, <2>6
  <2>8. Commanded'
    <3> DEFINE k == Len(cmds) + 2
    <3>1. /\ Len(cmds) \in Nat /\ Len(cmds') = Len(cmds) + 2
          /\ cmds'[Len(cmds) + 2] = out[2]
      <4>1. 2 \in 1 .. Len(out)
        BY <2>2
      <4>2. /\ Len(cmds) \in Nat /\ Len(cmds \o out) = Len(cmds) + Len(out)
            /\ \A i \in 1 .. Len(out) : (cmds \o out)[Len(cmds) + i] = out[i]
        <5>1. cmds \in Seq(Commands) /\ out \in Seq(Commands)
          BY <1>3, <2>2
        <5> HIDE DEF k
        <5> QED BY <5>1, SentFacts
      <4> QED BY <2>2, <2>6, <4>1, <4>2
    <3>2. k \in DOMAIN cmds' /\ cmds'[k] = c
      BY <2>2, <2>7, <3>1
    <3>3. \A j \in k + 1 .. Len(cmds') : FALSE
      BY <3>1
    <3>4. c.id = ui'.id
      BY <1>8, <2>1
    <3> HIDE DEF k
    <3> QED BY <2>1, <3>2, <3>3, <3>4 DEF Commanded
  <2>9. PictureIsOnItsWay'
    BY <2>8 DEF PictureIsOnItsWay, Commanded, IsBuild
  <2> QED BY <2>7, <2>9
<1>9. Follow
  BY <1>4, <1>6, <1>7, <1>8, TickFacts
<1>10. TypeInv'
  BY <1>1, <1>2, <1>3, <1>9 DEF TypeInv
<1>11. \A i \in DOMAIN events' : AnswerInv(events[i])'
  BY <1>1
<1> QED BY <1>2, <1>9, <1>10, <1>11 DEF PicturesInv

-----------------------------------------------------------------------------
(* The thread and its builders                                              *)

\* A builder that is told to give up, or makes its key or its picture, stays
\* what it was asked to be, as long as no command comes.
LEMMA BuilderKept ==
  ASSUME PicturesInv, UNCHANGED <<ui, clock, files>>, NEW b \in builders, NEW c,
         c.id = b.id, c.path = b.path, c.kind = b.kind, c.look = b.look, Careful(c),
         c.id = ui.id /\ c.at # "new" => KeyOfTarget(ui, files, c.key),
         \A i \in DOMAIN cmds' : \E j \in DOMAIN cmds : cmds'[i] = cmds[j]
  PROVE  BuilderInv(c)'
<1>1. BuilderInv(b)
  BY DEF PicturesInv
<1>2. Careful(c)'
  BY DEF Careful
<1>3. \A i \in DOMAIN cmds' : IsBuild(cmds'[i]) => c.id < cmds'[i].id
  BY <1>1 DEF BuilderInv
<1>4. c.id <= ui.id /\ (c.id = ui.id => OfTarget(ui, c))
  BY <1>1 DEF BuilderInv, OfTarget
<1> QED BY <1>2, <1>3, <1>4 DEF BuilderInv

\* start_worker: the command is gone, and the ones after it stay in their order.
LEMMA TailFacts ==
  ASSUME PicturesInv, cmds # <<>>, cmds' = Tail(cmds), UNCHANGED ui
  PROVE  /\ cmds' \in Seq(Commands) /\ CommandsInv'
         /\ Len(cmds) \in Nat /\ 1 \in DOMAIN cmds /\ Len(cmds') = Len(cmds) - 1
         /\ \A i \in DOMAIN cmds' : i + 1 \in DOMAIN cmds /\ 1 < i + 1 /\ cmds'[i] = cmds[i + 1]
         /\ \A i \in DOMAIN cmds : i # 1 => i - 1 \in DOMAIN cmds' /\ cmds'[i - 1] = cmds[i]
<1>1. cmds \in Seq(Commands) /\ CommandsInv
  BY DEF PicturesInv, TypeInv
<1>2. /\ cmds' \in Seq(Commands) /\ Len(cmds) \in Nat /\ Len(cmds) # 0
      /\ Len(cmds') = Len(cmds) - 1
      /\ \A i \in 1 .. Len(cmds) - 1 : cmds'[i] = cmds[i + 1]
  BY <1>1, HeadTailProperties, EmptySeq
<1>3. /\ 1 \in DOMAIN cmds
      /\ \A i \in DOMAIN cmds' : i + 1 \in DOMAIN cmds /\ 1 < i + 1 /\ cmds'[i] = cmds[i + 1]
      /\ \A i \in DOMAIN cmds : i # 1 => i - 1 \in DOMAIN cmds' /\ cmds'[i - 1] = cmds[i]
  BY <1>1, <1>2
<1>4. CommandsInv'
  <2> SUFFICES ASSUME NEW i \in DOMAIN cmds', IsBuild(cmds'[i])
               PROVE  /\ cmds'[i].id <= ui.id
                      /\ cmds'[i].id = ui.id => OfTarget(ui', cmds'[i])
                      /\ \A j \in DOMAIN cmds' : i < j /\ IsBuild(cmds'[j]) =>
                           cmds'[i].id < cmds'[j].id
    BY DEF CommandsInv
  <2>1. cmds'[i].id <= ui.id /\ (cmds'[i].id = ui.id => OfTarget(ui', cmds'[i]))
    BY <1>1, <1>3 DEF CommandsInv, OfTarget
  <2>2. ASSUME NEW j \in DOMAIN cmds', i < j, IsBuild(cmds'[j]) PROVE cmds'[i].id < cmds'[j].id
    <3>1. i + 1 \in DOMAIN cmds /\ j + 1 \in DOMAIN cmds /\ i + 1 < j + 1
      BY <1>1, <1>2, <1>3, <2>2
    <3>2. cmds'[i] = cmds[i + 1] /\ cmds'[j] = cmds[j + 1]
      BY <1>3
    <3> QED BY <1>1, <2>2, <3>1, <3>2 DEF CommandsInv
  <2> QED BY <2>1, <2>2
<1> QED BY <1>2, <1>3, <1>4

LEMMA WorkerStep ==
  ASSUME PicturesInv, WorkerTakes
  PROVE  PicturesInv'
<1>a. PICK c : c = Head(cmds)
  OBVIOUS
<1>b. PICK new : new = [id |-> c.id, path |-> c.path, kind |-> c.kind, look |-> c.look,
                        onDisk |-> c.onDisk, key |-> NoKey, at |-> "new", off |-> FALSE,
                        pic |-> NoKey]
  OBVIOUS
<1>1. /\ cmds # <<>> /\ cmds' = Tail(cmds)
      /\ UNCHANGED <<clock, files, current, view, ui, screen, ram, failed, events, disk>>
      /\ \/ c.type = "Cancel" /\ builders' = Told(recent)
         \/ c.type # "Cancel" /\ builders' = Told(recent) \cup {new}
  BY <1>a, <1>b DEF WorkerTakes, uiVars
<1>2. /\ TypeInv /\ TargetInv /\ CommandsInv /\ \A b \in builders : BuilderInv(b) /\ b \in Threads
      /\ cmds \in Seq(Commands) /\ ui.id \in Nat
  BY DEF PicturesInv, TypeInv, Requested
<1>3. /\ cmds' \in Seq(Commands) /\ CommandsInv'
      /\ Len(cmds) \in Nat /\ 1 \in DOMAIN cmds /\ Len(cmds') = Len(cmds) - 1
      /\ \A i \in DOMAIN cmds' : i + 1 \in DOMAIN cmds /\ 1 < i + 1 /\ cmds'[i] = cmds[i + 1]
      /\ \A i \in DOMAIN cmds : i # 1 => i - 1 \in DOMAIN cmds' /\ cmds'[i - 1] = cmds[i]
  BY <1>1, TailFacts
<1>4. c = cmds[1] /\ c \in Commands
  BY <1>a, <1>1, <1>2, <1>3
<1>5. c.type # "Cancel" => c \in Builds /\ IsBuild(c)
  BY <1>4 DEF Commands, Cancel, Builds, IsBuild
<1>6. ASSUME NEW b \in builders
      PROVE  /\ [b EXCEPT !.off = TRUE] \in Threads
             /\ BuilderInv(b)' /\ BuilderInv([b EXCEPT !.off = TRUE])'
  <2> DEFINE d == [b EXCEPT !.off = TRUE]
  <2>1. b \in Threads /\ BuilderInv(b)
    BY <1>2
  <2>2. /\ d \in Threads /\ d.id = b.id /\ d.path = b.path /\ d.kind = b.kind /\ d.look = b.look
        /\ d.key = b.key /\ d.at = b.at /\ d.pic = b.pic
    BY <2>1 DEF Threads
  <2> HIDE DEF d
  <2>3. Careful(d) /\ Careful(b)
    BY <2>1, <2>2 DEF Careful, BuilderInv
  <2>4. b.id = ui.id /\ b.at # "new" => KeyOfTarget(ui, files, b.key)
    BY <2>1 DEF BuilderInv
  <2>5. \A i \in DOMAIN cmds' : \E j \in DOMAIN cmds : cmds'[i] = cmds[j]
    BY <1>3
  <2>6. BuilderInv(b)'
    BY <1>1, <2>3, <2>4, <2>5, BuilderKept
  <2>7. BuilderInv(d)'
    BY <1>1, <2>2, <2>3, <2>4, <2>5, BuilderKept
  <2> QED BY <2>2, <2>6, <2>7 DEF d
<1>7. \A b \in Told(recent) : b \in Threads /\ BuilderInv(b)'
  BY <1>2, <1>6 DEF Told
<1>8. ASSUME c.type # "Cancel" PROVE new \in Threads /\ BuilderInv(new)'
  <2>1. c \in Builds /\ IsBuild(c)
    BY <1>5, <1>8
  <2>2. new \in Threads
    BY <1>b, <2>1 DEF Threads, Builds, NoKey, AllKeys, Key, NoFile
  <2>3. new.id = c.id /\ new.path = c.path /\ new.kind = c.kind /\ new.look = c.look /\ new.at = "new"
    BY <1>b
  <2>4. Careful(new)'
    BY <2>3 DEF Careful
  <2>5. c.id <= ui.id /\ (c.id = ui.id => OfTarget(ui, c))
    BY <1>2, <1>3, <1>4, <2>1 DEF CommandsInv
  <2>6. \A i \in DOMAIN cmds' : IsBuild(cmds'[i]) => c.id < cmds'[i].id
    BY <1>2, <1>3, <1>4, <2>1 DEF CommandsInv
  <2>7. c.id = ui.id => OfTarget(ui', new)
    BY <1>1, <2>3, <2>5 DEF OfTarget
  <2> QED BY <1>1, <2>2, <2>3, <2>4, <2>5, <2>6, <2>7 DEF BuilderInv
<1>9. builders' \subseteq Threads /\ \A b \in builders' : BuilderInv(b)'
  BY <1>1, <1>7, <1>8
<1>10. PictureIsOnItsWay'
  <2> SUFFICES ASSUME Open' PROVE Commanded' \/ (\E b \in builders' : BuiltBy(b)') \/ Replied'
    BY Zenon DEF PictureIsOnItsWay, Open, Commanded, BuiltBy, Replied, IsBuild
  <2>1. Open
    BY <1>1 DEF Open, Resolved, FileIsOther
  <2>2. CASE Replied
    BY <1>1, <2>2 DEF Replied
  <2>3. ASSUME NEW b \in builders, BuiltBy(b) PROVE FALSE
    <3>1. c.type # "Cancel"
      BY <1>3, <1>4, <2>3 DEF BuiltBy
    <3>2. b.id < c.id /\ c.id <= ui.id /\ c.id \in Nat /\ b.id \in Nat
      BY <1>2, <1>3, <1>4, <1>5, <3>1 DEF BuilderInv, CommandsInv, Threads, Builds
    <3> QED BY <1>2, <2>3, <3>2 DEF BuiltBy
  <2>4. CASE Commanded
    <3>1. PICK i \in DOMAIN cmds : /\ IsBuild(cmds[i]) /\ cmds[i].id = ui.id
                                   /\ \A j \in i + 1 .. Len(cmds) : cmds[j].type # "Cancel"
      BY <2>4 DEF Commanded
    <3>2. i \in 1 .. Len(cmds)
      BY <1>2
    <3>3. CASE i = 1
      <4>1. c.type # "Cancel" /\ new.id = ui'.id /\ ~new.off
        BY <1>b, <1>1, <1>4, <3>1, <3>3 DEF IsBuild
      <4>2. \A j \in DOMAIN cmds' : cmds'[j].type # "Cancel"
        BY <1>2, <1>3, <3>1, <3>3
      <4>3. new \in builders'
        BY <1>1, <4>1
      <4>4. BuiltBy(new)'
        BY <4>1, <4>2 DEF BuiltBy
      <4> QED BY <4>3, <4>4
    <3>4. CASE i # 1
      <4>1. i - 1 \in DOMAIN cmds' /\ cmds'[i - 1] = cmds[i]
        BY <1>3, <3>4
      <4>2. ASSUME NEW j \in (i - 1) + 1 .. Len(cmds') PROVE cmds'[j].type # "Cancel"
        <5>1. j \in DOMAIN cmds' /\ j + 1 \in i + 1 .. Len(cmds)
          BY <1>3, <3>2, <3>4
        <5> QED BY <1>3, <3>1, <5>1
      <4> QED BY <1>1, <3>1, <4>1, <4>2 DEF Commanded
    <3> QED BY <3>3, <3>4
  <2> QED BY <2>1, <2>2, <2>3, <2>4, OnItsWay DEF PicturesInv
<1>11. TypeInv'
  BY <1>1, <1>2, <1>3, <1>9 DEF TypeInv
<1>12. TargetInv' /\ ShownIsWanted(ui', screen') /\ \A i \in DOMAIN events' : AnswerInv(events[i])'
  BY <1>1 DEF PicturesInv, TargetInv, AnswerInv
<1> QED BY <1>3, <1>9, <1>10, <1>11, <1>12 DEF PicturesInv

\* A builder that goes on under the same number.
LEMMA MovesKeeps ==
  ASSUME PicturesInv, NEW b \in builders, NEW new \in Threads, Moves(b, new),
         UNCHANGED <<clock, files, current, view, uiVars, cmds, recent, events>>,
         disk' \in Seq(Stored), Careful(new),
         new.id = b.id, new.path = b.path, new.kind = b.kind, new.look = b.look,
         new.off = b.off, b.id = ui.id /\ new.at # "new" => KeyOfTarget(ui, files, new.key)
  PROVE  PicturesInv'
<1>1. UNCHANGED <<ui, screen, ram, failed>>
  BY DEF uiVars
<1>2. builders' = (builders \ {b}) \cup {new}
  BY DEF Moves
<1>3. ASSUME NEW c \in builders PROVE BuilderInv(c)'
  <2>1. Careful(c) /\ (c.id = ui.id /\ c.at # "new" => KeyOfTarget(ui, files, c.key))
    BY DEF PicturesInv, BuilderInv
  <2> QED BY <1>1, <2>1, BuilderKept
<1>4. BuilderInv(new)'
  BY <1>1, BuilderKept
<1>5. PictureIsOnItsWay'
  <2> SUFFICES ASSUME Open' PROVE Commanded' \/ (\E c \in builders' : BuiltBy(c)') \/ Replied'
    BY Zenon DEF PictureIsOnItsWay, Open, Commanded, BuiltBy, Replied, IsBuild
  <2>1. Open
    BY <1>1 DEF Open, Resolved, FileIsOther
  <2>2. CASE Commanded
    BY <1>1, <2>2 DEF Commanded
  <2>3. CASE Replied
    BY <1>1, <2>3 DEF Replied
  <2>4. ASSUME NEW c \in builders, BuiltBy(c) PROVE \E d \in builders' : BuiltBy(d)'
    <3>1. CASE c = b
      <4>1. new \in builders' /\ BuiltBy(new)'
        BY <1>1, <1>2, <2>4, <3>1 DEF BuiltBy
      <4> QED BY <4>1
    <3>2. CASE c # b
      <4>1. c \in builders' /\ BuiltBy(c)'
        BY <1>1, <1>2, <2>4, <3>2 DEF BuiltBy
      <4> QED BY <4>1
    <3> QED BY <3>1, <3>2
  <2> QED BY <2>1, <2>2, <2>3, <2>4, OnItsWay DEF PicturesInv
<1>6. TypeInv'
  BY <1>1, <1>2 DEF PicturesInv, TypeInv
<1>7. TargetInv' /\ CommandsInv' /\ ShownIsWanted(ui', screen')
  BY <1>1 DEF PicturesInv, TargetInv, CommandsInv, OfTarget
<1>8. \A i \in DOMAIN events' : AnswerInv(events[i])'
  BY <1>1 DEF PicturesInv, AnswerInv
<1>9. \A c \in builders' : BuilderInv(c)'
  BY <1>2, <1>3, <1>4
<1> QED BY <1>5, <1>6, <1>7, <1>8, <1>9 DEF PicturesInv

\* A builder that ends with an answer under its number.
LEMMA AnswerKeeps ==
  ASSUME PicturesInv, NEW b \in builders, NEW a \in Answers, Ends(b), Answer(a),
         UNCHANGED <<clock, files, current, view, uiVars, cmds, recent>>,
         disk' \in Seq(Stored), a.id = b.id, AnswerInv(a)
  PROVE  PicturesInv'
<1>1. UNCHANGED <<ui, screen, ram, failed>> /\ events \in Seq(Answers)
  BY DEF uiVars, PicturesInv, TypeInv
<1>2. builders' = builders \ {b} /\ events' = Append(events, a)
  BY DEF Ends, Answer
<1>3. /\ events' \in Seq(Answers) /\ Len(events) + 1 \in DOMAIN events'
      /\ events'[Len(events) + 1] = a
      /\ \A i \in DOMAIN events : i \in DOMAIN events' /\ events'[i] = events[i]
      /\ \A i \in DOMAIN events' : i = Len(events) + 1 \/ i \in DOMAIN events
  BY <1>1, <1>2, AppendProperties
<1>4. \A c \in builders' : BuilderInv(c)'
  <2> SUFFICES ASSUME NEW c \in builders PROVE BuilderInv(c)'
    BY <1>2
  <2>1. Careful(c) /\ (c.id = ui.id /\ c.at # "new" => KeyOfTarget(ui, files, c.key))
    BY DEF PicturesInv, BuilderInv
  <2> QED BY <1>1, <2>1, BuilderKept
<1>5. PictureIsOnItsWay'
  <2> SUFFICES ASSUME Open' PROVE Commanded' \/ (\E c \in builders' : BuiltBy(c)') \/ Replied'
    BY Zenon DEF PictureIsOnItsWay, Open, Commanded, BuiltBy, Replied, IsBuild
  <2>1. Open
    BY <1>1 DEF Open, Resolved, FileIsOther
  <2>2. CASE Commanded
    BY <1>1, <2>2 DEF Commanded
  <2>3. CASE Replied
    BY <1>1, <1>3, <2>3 DEF Replied
  <2>4. ASSUME NEW c \in builders, BuiltBy(c) PROVE (\E d \in builders' : BuiltBy(d)') \/ Replied'
    <3>1. CASE c = b
      BY <1>1, <1>3, <2>4, <3>1 DEF BuiltBy, Replied
    <3>2. CASE c # b
      <4>1. c \in builders' /\ BuiltBy(c)'
        BY <1>1, <1>2, <2>4, <3>2 DEF BuiltBy
      <4> QED BY <4>1
    <3> QED BY <3>1, <3>2
  <2> QED BY <2>1, <2>2, <2>3, <2>4, OnItsWay DEF PicturesInv
<1>6. TypeInv'
  BY <1>1, <1>2, <1>3 DEF PicturesInv, TypeInv
<1>7. TargetInv' /\ CommandsInv' /\ ShownIsWanted(ui', screen')
  BY <1>1 DEF PicturesInv, TargetInv, CommandsInv, OfTarget
<1>8. \A i \in DOMAIN events' : AnswerInv(events[i])'
  <2>1. \A i \in DOMAIN events : AnswerInv(events[i])
    BY DEF PicturesInv
  <2> QED BY <1>1, <1>3, <2>1 DEF AnswerInv
<1> QED BY <1>4, <1>5, <1>6, <1>7, <1>8 DEF PicturesInv

\* A builder's answer, ready or failed, is an answer.
LEMMA ReadyIsAnswer ==
  ASSUME PicturesInv, NEW b \in builders, NEW pic \in AllKeys, b.at # "new", Suits(pic, b.key)
  PROVE  LET a == [type |-> "Ready", id |-> b.id, key |-> b.key, pic |-> pic]
         IN a \in Answers /\ a.id = b.id /\ AnswerInv(a)
<1> DEFINE a == [type |-> "Ready", id |-> b.id, key |-> b.key, pic |-> pic]
<1>1. b \in Threads /\ BuilderInv(b)
  BY DEF PicturesInv, TypeInv
<1>2. a \in Readies
  BY <1>1 DEF Readies, Threads
<1>3. a.id = b.id /\ a.key = b.key /\ a.type = "Ready"
  OBVIOUS
<1> HIDE DEF a
<1>4. AnswerInv(a)
  BY <1>1, <1>3 DEF BuilderInv, AnswerInv
<1>5. a \in Answers
  BY <1>2 DEF Answers
<1> QED BY <1>3, <1>4, <1>5 DEF a

LEMMA FailedIsAnswer ==
  ASSUME PicturesInv, NEW b \in builders
  PROVE  LET a == [type |-> "Failed", id |-> b.id]
         IN a \in Answers /\ a.id = b.id /\ AnswerInv(a)
<1> DEFINE a == [type |-> "Failed", id |-> b.id]
<1>1. b \in Threads /\ BuilderInv(b)
  BY DEF PicturesInv, TypeInv
<1>2. a \in Answers
  BY <1>1 DEF Answers, Threads
<1>3. a.id = b.id /\ a.type = "Failed"
  OBVIOUS
<1> HIDE DEF a
<1>4. AnswerInv(a)
  BY <1>1, <1>3 DEF BuilderInv, AnswerInv
<1> QED BY <1>2, <1>3, <1>4 DEF a

\* One told to give up is nobody's hope.
LEMMA GivesUpStep ==
  ASSUME PicturesInv, NEW b \in builders, GivesUp(b),
         UNCHANGED <<clock, files, current, view, uiVars, cmds, recent>>
  PROVE  PicturesInv'
<1>1. UNCHANGED <<ui, screen, ram, failed, events, disk>> /\ b.off /\ builders' = builders \ {b}
  BY DEF uiVars, GivesUp, Ends
<1>2. \A c \in builders' : BuilderInv(c)'
  <2> SUFFICES ASSUME NEW c \in builders PROVE BuilderInv(c)'
    BY <1>1
  <2>1. Careful(c) /\ (c.id = ui.id /\ c.at # "new" => KeyOfTarget(ui, files, c.key))
    BY DEF PicturesInv, BuilderInv
  <2> QED BY <1>1, <2>1, BuilderKept
<1>3. PictureIsOnItsWay'
  <2> SUFFICES ASSUME Open' PROVE Commanded' \/ (\E c \in builders' : BuiltBy(c)') \/ Replied'
    BY Zenon DEF PictureIsOnItsWay, Open, Commanded, BuiltBy, Replied, IsBuild
  <2>1. Open
    BY <1>1 DEF Open, Resolved, FileIsOther
  <2>2. CASE Commanded
    BY <1>1, <2>2 DEF Commanded
  <2>3. CASE Replied
    BY <1>1, <2>3 DEF Replied
  <2>4. ASSUME NEW c \in builders, BuiltBy(c) PROVE \E d \in builders' : BuiltBy(d)'
    <3>1. c \in builders' /\ BuiltBy(c)'
      BY <1>1, <2>4 DEF BuiltBy
    <3> QED BY <3>1
  <2> QED BY <2>1, <2>2, <2>3, <2>4, OnItsWay DEF PicturesInv
<1>4. TypeInv'
  BY <1>1 DEF PicturesInv, TypeInv
<1>5. TargetInv' /\ CommandsInv' /\ ShownIsWanted(ui', screen')
  BY <1>1 DEF PicturesInv, TargetInv, CommandsInv, OfTarget
<1>6. \A i \in DOMAIN events' : AnswerInv(events[i])'
  BY <1>1 DEF PicturesInv, AnswerInv
<1> QED BY <1>2, <1>3, <1>4, <1>5, <1>6 DEF PicturesInv

\* The time of a file that a builder may have looked at is not a later one.
LEMMA BuilderFacts ==
  ASSUME PicturesInv, NEW b \in builders
  PROVE  /\ b \in Threads /\ Careful(b)
         /\ b.id = ui.id /\ b.at # "new" => KeyOfTarget(ui, files, b.key)
         /\ files[b.path] \in Nat /\ files[b.path] <= clock /\ clock \in Nat
         /\ Key(b.path, files[b.path], b.kind, b.look) \in AllKeys
         /\ b.id = ui.id => KeyOfTarget(ui, files, Key(b.path, files[b.path], b.kind, b.look))
         /\ disk \in Seq(Stored) /\ ui \in Requested
<1>1. b \in Threads /\ BuilderInv(b) /\ TypeInv /\ TargetInv
  BY DEF PicturesInv, TypeInv
<1>2. files[b.path] \in Nat /\ files[b.path] <= clock /\ clock \in Nat
  BY <1>1 DEF Threads, TypeInv
<1>3. Key(b.path, files[b.path], b.kind, b.look) \in AllKeys
  BY <1>1, <1>2 DEF Threads, Key, AllKeys
<1>4. b.id = ui.id => KeyOfTarget(ui, files, Key(b.path, files[b.path], b.kind, b.look))
  BY <1>1 DEF BuilderInv, OfTarget, KeyOfTarget, TargetInv
<1> QED BY <1>1, <1>2, <1>3, <1>4 DEF BuilderInv, TypeInv

LEMMA MakesKeyStep ==
  ASSUME PicturesInv, NEW b \in builders, MakesKey(b),
         UNCHANGED <<clock, files, current, view, uiVars, cmds, recent>>
  PROVE  PicturesInv'
<1> DEFINE key == Key(b.path, files[b.path], b.kind, b.look)
<1>a. PICK new : new = [b EXCEPT !.at = "keyed", !.key = key]
  OBVIOUS
<1>1. Moves(b, new) /\ UNCHANGED <<events, disk>>
  BY <1>a DEF MakesKey
<1>2. /\ b \in Threads /\ files[b.path] \in Nat /\ files[b.path] <= clock /\ clock \in Nat
      /\ key \in AllKeys /\ (b.id = ui.id => KeyOfTarget(ui, files, key)) /\ disk \in Seq(Stored)
  BY BuilderFacts
<1>3. key = Key(b.path, key.time, b.kind, b.look) /\ key.time = files[b.path]
  BY DEF Key
<1> HIDE DEF key
<1>4. /\ new \in Threads /\ new.id = b.id /\ new.path = b.path /\ new.kind = b.kind
      /\ new.look = b.look /\ new.off = b.off /\ new.at = "keyed" /\ new.key = key
  BY <1>a, <1>2 DEF Threads
<1>5. Careful(new)
  BY <1>2, <1>3, <1>4 DEF Careful
<1> QED BY <1>1, <1>2, <1>4, <1>5, MovesKeeps

LEMMA OpensStep ==
  ASSUME PicturesInv, NEW b \in builders, Opens(b),
         UNCHANGED <<clock, files, current, view, uiVars, cmds, recent>>
  PROVE  PicturesInv'
<1> DEFINE pic == Key(b.path, files[b.path], b.kind, b.look)
<1>a. PICK new : new = [b EXCEPT !.at = "open", !.pic = pic]
  OBVIOUS
<1>1. Moves(b, new) /\ UNCHANGED <<events, disk>> /\ b.at = "keyed" /\ files[b.path] # NoFile
  BY <1>a DEF Opens
<1>2. /\ b \in Threads /\ Careful(b) /\ files[b.path] \in Nat /\ files[b.path] <= clock
      /\ clock \in Nat /\ pic \in AllKeys /\ disk \in Seq(Stored)
      /\ b.id = ui.id /\ b.at # "new" => KeyOfTarget(ui, files, b.key)
  BY BuilderFacts
<1>3. pic = Key(b.path, pic.time, b.kind, b.look) /\ pic.time = files[b.path]
  BY DEF Key
<1> HIDE DEF pic
<1>4. /\ new \in Threads /\ new.id = b.id /\ new.path = b.path /\ new.kind = b.kind
      /\ new.look = b.look /\ new.off = b.off /\ new.at = "open" /\ new.key = b.key /\ new.pic = pic
  BY <1>a, <1>2 DEF Threads
<1>5. Careful(new)
  BY <1>1, <1>2, <1>3, <1>4 DEF Careful
<1> QED BY <1>1, <1>2, <1>4, <1>5, MovesKeeps

LEMMA DrawsStep ==
  ASSUME PicturesInv, NEW b \in builders, Draws(b),
         UNCHANGED <<clock, files, current, view, uiVars, cmds, recent>>
  PROVE  PicturesInv'
<1>a. PICK new : new = [b EXCEPT !.at = "drawn"]
  OBVIOUS
<1>1. Moves(b, new) /\ UNCHANGED <<events, disk>> /\ b.at = "open"
  BY <1>a DEF Draws
<1>2. /\ b \in Threads /\ Careful(b) /\ disk \in Seq(Stored)
      /\ b.id = ui.id /\ b.at # "new" => KeyOfTarget(ui, files, b.key)
  BY BuilderFacts
<1>3. /\ new \in Threads /\ new.id = b.id /\ new.path = b.path /\ new.kind = b.kind
      /\ new.look = b.look /\ new.off = b.off /\ new.at = "drawn" /\ new.key = b.key
      /\ new.pic = b.pic
  BY <1>a, <1>2 DEF Threads
<1>4. Careful(new)
  BY <1>1, <1>2, <1>3 DEF Careful
<1> QED BY <1>1, <1>2, <1>3, <1>4, MovesKeeps

LEMMA SavesStep ==
  ASSUME PicturesInv, NEW b \in builders, Saves(b),
         UNCHANGED <<clock, files, current, view, uiVars, cmds, recent>>
  PROVE  PicturesInv'
<1> DEFINE stamp == IF HasKey(disk, b.key) THEN WithKey(disk, b.key).stamp ELSE NoFile
           torn == [key |-> b.key, pic |-> Torn, stamp |-> stamp]
<1>a. PICK new : new = [b EXCEPT !.at = "saving"]
  OBVIOUS
<1>1. Moves(b, new) /\ UNCHANGED events /\ b.at = "drawn"
      /\ disk' = Append(Excluding(disk, b.key), torn)
  BY <1>a DEF Saves
<1>2. /\ b \in Threads /\ Careful(b) /\ disk \in Seq(Stored)
      /\ b.id = ui.id /\ b.at # "new" => KeyOfTarget(ui, files, b.key)
  BY BuilderFacts
<1>3. /\ new \in Threads /\ new.id = b.id /\ new.path = b.path /\ new.kind = b.kind
      /\ new.look = b.look /\ new.off = b.off /\ new.at = "saving" /\ new.key = b.key
      /\ new.pic = b.pic
  BY <1>a, <1>2 DEF Threads
<1>4. Careful(new)
  BY <1>1, <1>2, <1>3 DEF Careful
<1>5. stamp \in Nat
  BY <1>2, WithKeyIsOne DEF Stored, NoFile
<1>6. torn \in Stored
  <2> HIDE DEF stamp
  <2> QED BY <1>2, <1>5 DEF Stored, Threads, Pictures
<1>7. disk' \in Seq(Stored)
  <2>1. Excluding(disk, b.key) \in Seq(Stored)
    BY <1>2, ExcludingIsSeq
  <2> HIDE DEF torn
  <2> QED BY <1>1, <1>6, <2>1, AppendProperties
<1> QED BY <1>1, <1>2, <1>3, <1>4, <1>7, MovesKeeps

LEMMA FindsCachedStep ==
  ASSUME PicturesInv, NEW b \in builders, FindsCached(b),
         UNCHANGED <<clock, files, current, view, uiVars, cmds, recent>>
  PROVE  PicturesInv'
<1>1. b.at = "keyed" /\ Ends(b) /\ UNCHANGED disk /\ disk \in Seq(Stored)
  BY BuilderFacts DEF FindsCached
<1>2. PICK pic \in Cached(b.key) : IsReady(b, pic)
  BY DEF FindsCached
<1>3. PICK e \in ToSet(disk) : e.key = b.key /\ e.stamp # NoFile /\ e.pic # Torn /\ pic = e.pic
  BY DEF Cached
<1>4. e \in Stored
  BY <1>1, <1>3 DEF ToSet
<1>5. pic \in AllKeys /\ Suits(pic, b.key)
  BY <1>3, <1>4 DEF Stored, Pictures
<1>a. PICK a : a = [type |-> "Ready", id |-> b.id, key |-> b.key, pic |-> pic]
  OBVIOUS
<1>6. a \in Answers /\ a.id = b.id /\ AnswerInv(a) /\ Answer(a)
  BY <1>a, <1>1, <1>2, <1>5, ReadyIsAnswer DEF IsReady
<1> QED BY <1>1, <1>6, AnswerKeeps

\* What a builder has drawn is a picture for its key.
LEMMA DrawnSuits ==
  ASSUME PicturesInv, NEW b \in builders, b.at \in {"drawn", "saving"}
  PROVE  b.pic \in AllKeys /\ Suits(b.pic, b.key) /\ b.pic.time <= clock
<1>1. b \in Threads /\ Careful(b)
  BY BuilderFacts
<1> QED BY <1>1 DEF Careful, Threads, Suits, IsOf, Key

LEMMA AnswersUnsavedStep ==
  ASSUME PicturesInv, NEW b \in builders, AnswersUnsaved(b),
         UNCHANGED <<clock, files, current, view, uiVars, cmds, recent>>
  PROVE  PicturesInv'
<1>1. b.at = "drawn" /\ Ends(b) /\ UNCHANGED disk /\ disk \in Seq(Stored) /\ IsReady(b, b.pic)
  BY BuilderFacts DEF AnswersUnsaved
<1>a. PICK a : a = [type |-> "Ready", id |-> b.id, key |-> b.key, pic |-> b.pic]
  OBVIOUS
<1>2. a \in Answers /\ a.id = b.id /\ AnswerInv(a) /\ Answer(a)
  BY <1>a, <1>1, DrawnSuits, ReadyIsAnswer DEF IsReady
<1> QED BY <1>1, <1>2, AnswerKeeps

LEMMA SavedStep ==
  ASSUME PicturesInv, NEW b \in builders, Saved(b),
         UNCHANGED <<clock, files, current, view, uiVars, cmds, recent>>
  PROVE  PicturesInv'
<1> DEFINE rest == Excluding(disk, b.key)
           e == [key |-> b.key, pic |-> b.pic, stamp |-> clock]
           all == IF HasKey(disk, b.key) THEN Append(rest, e) ELSE rest
           over == IF Len(all) > DiskCap THEN Len(all) - DiskCap ELSE 0
<1>1. b.at = "saving" /\ Ends(b) /\ IsReady(b, b.pic) /\ disk' = SubSeq(all, over + 1, Len(all))
  BY DEF Saved
<1>2. b \in Threads /\ disk \in Seq(Stored) /\ clock \in Nat
  BY BuilderFacts
<1>3. e \in Stored
  BY <1>1, <1>2, DrawnSuits DEF Stored, Threads, Pictures
<1>4. rest \in Seq(Stored)
  BY <1>2, ExcludingIsSeq
<1> HIDE DEF rest, e
<1>5. all \in Seq(Stored)
  BY <1>3, <1>4, AppendProperties
<1> HIDE DEF all
<1>6. Len(all) \in Nat /\ over + 1 \in 1 .. Len(all) + 1 /\ Len(all) \in (over + 1) - 1 .. Len(all)
  BY <1>5, FullTrackAssumption
<1> HIDE DEF over
<1>7. disk' \in Seq(Stored)
  BY <1>1, <1>5, <1>6, SubSeqProperties
<1>a. PICK a : a = [type |-> "Ready", id |-> b.id, key |-> b.key, pic |-> b.pic]
  OBVIOUS
<1>8. a \in Answers /\ a.id = b.id /\ AnswerInv(a) /\ Answer(a)
  BY <1>a, <1>1, DrawnSuits, ReadyIsAnswer DEF IsReady
<1> QED BY <1>1, <1>7, <1>8, AnswerKeeps

LEMMA FailsStep ==
  ASSUME PicturesInv, NEW b \in builders, Fails(b),
         UNCHANGED <<clock, files, current, view, uiVars, cmds, recent>>
  PROVE  PicturesInv'
<1>1. Ends(b) /\ UNCHANGED disk /\ disk \in Seq(Stored) /\ Failed(b)
  BY BuilderFacts DEF Fails
<1>a. PICK a : a = [type |-> "Failed", id |-> b.id]
  OBVIOUS
<1>2. a \in Answers /\ a.id = b.id /\ AnswerInv(a) /\ Answer(a)
  BY <1>a, <1>1, FailedIsAnswer DEF Failed
<1> QED BY <1>1, <1>2, AnswerKeeps

LEMMA BuilderStep ==
  ASSUME PicturesInv, Builder
  PROVE  PicturesInv'
<1> PICK b \in builders : BuilderSteps(b)
  BY DEF Builder
<1>1. UNCHANGED <<clock, files, current, view, uiVars, cmds, recent>>
  BY DEF BuilderSteps
<1> QED BY <1>1, GivesUpStep, MakesKeyStep, FindsCachedStep, OpensStep, FailsStep, DrawsStep,
           SavesStep, SavedStep, AnswersUnsavedStep DEF BuilderSteps

-----------------------------------------------------------------------------
(* What happens around them                                                 *)

\* The track, the settings and what memory and the directory hold are not what
\* an answer is compared with.
LEMMA AroundKeeps ==
  ASSUME PicturesInv, UNCHANGED <<Others, clock, files>>,
         current' \in Tracks \cup {Nothing},
         view' \in [mode : Modes, look : Looks, skip : BOOLEAN, inMem : BOOLEAN, onDisk : BOOLEAN],
         ram' \in Seq(Memory), disk' \in Seq(Stored)
  PROVE  PicturesInv'
<1>1. UNCHANGED <<ui, screen, failed, cmds, recent, builders, events>>
  BY DEF Others
<1>2. TypeInv'
  BY <1>1 DEF PicturesInv, TypeInv
<1>3. TargetInv' /\ CommandsInv' /\ ShownIsWanted(ui', screen')
  BY <1>1 DEF PicturesInv, TargetInv, CommandsInv, OfTarget
<1>4. \A b \in builders' : BuilderInv(b)'
  BY <1>1 DEF PicturesInv, BuilderInv, Careful, OfTarget, KeyOfTarget
<1>5. \A i \in DOMAIN events' : AnswerInv(events[i])'
  BY <1>1 DEF PicturesInv, AnswerInv, KeyOfTarget
<1>6. PictureIsOnItsWay'
  BY <1>1 DEF PicturesInv, PictureIsOnItsWay, Resolved, FileIsOther
<1> QED BY <1>2, <1>3, <1>4, <1>5, <1>6 DEF PicturesInv

\* A file gets a time that it never had, or is gone: what was of another file
\* stays so, and what was read of it is not younger.
LEMMA FileChangesStep ==
  ASSUME PicturesInv, FileChanges
  PROVE  PicturesInv'
<1>1. /\ UNCHANGED <<current, view, ui, screen, ram, failed, cmds, recent, builders, events, disk>>
      /\ clock' = clock + 1
  BY DEF FileChanges, Others
<1>2. /\ TypeInv /\ TargetInv /\ clock \in Nat /\ files \in [Tracks -> Nat] /\ ui \in Requested
      /\ builders \subseteq Threads /\ \A t \in Tracks : files[t] <= clock
  BY DEF PicturesInv, TypeInv
<1>3. files' \in [Tracks -> Nat]
      /\ \A u \in Tracks : files'[u] = files[u] \/ files'[u] = clock + 1 \/ files'[u] = NoFile
  <2>1. PICK t \in Tracks : \/ files' = [files EXCEPT ![t] = IF @ = NoFile THEN clock' ELSE @]
                            \/ files' = [files EXCEPT ![t] = clock']
                            \/ files' = [files EXCEPT ![t] = NoFile]
    BY DEF FileChanges
  <2> QED BY <1>1, <1>2, <2>1 DEF NoFile
<1>4. \A u \in Tracks : files'[u] \in Nat /\ files'[u] <= clock'
  BY <1>1, <1>2, <1>3 DEF NoFile
<1>5. ui.target.key # NoKey /\ ui.meta.time # files[ui.target.path] =>
        ui.meta.time # files'[ui.target.path]
  <2> SUFFICES ASSUME ui.target.key # NoKey, ui.meta.time # files[ui.target.path]
               PROVE  ui.meta.time # files'[ui.target.path]
    OBVIOUS
  <2>1. ui.target.path \in Tracks /\ ui.meta.time \in Nat /\ ui.meta.time <= clock
        /\ ui.meta.time # NoFile
    BY <1>2 DEF TargetInv, Requested
  <2> QED BY <1>2, <1>3, <2>1
<1>6. ASSUME NEW key, KeyOfTarget(ui, files, key) PROVE KeyOfTarget(ui', files', key)
  BY <1>1, <1>5, <1>6 DEF KeyOfTarget
<1>7. ASSUME NEW b \in builders PROVE BuilderInv(b)'
  <2>1. b \in Threads /\ Careful(b) /\ BuilderInv(b)
    BY <1>2 DEF PicturesInv, BuilderInv
  <2>2. b.path \in Tracks /\ b.key.time \in Nat /\ b.pic.time \in Nat
    BY <2>1 DEF Threads, AllKeys
  <2>3. Careful(b)'
    <3>1. b.at # "new" => b.key = Key(b.path, b.key.time, b.kind, b.look) /\ b.key.time <= clock'
      BY <1>1, <1>2, <2>1, <2>2 DEF Careful
    <3>2. b.at = "keyed" /\ files'[b.path] # NoFile => b.key.time <= files'[b.path]
      BY <1>1, <1>2, <1>3, <2>1, <2>2, <3>1 DEF Careful
    <3>3. b.at \in {"open", "drawn", "saving"} =>
            /\ b.pic = Key(b.path, b.pic.time, b.kind, b.look)
            /\ b.key.time <= b.pic.time /\ b.pic.time <= clock'
      BY <1>1, <1>2, <2>1, <2>2 DEF Careful
    <3> QED BY <3>1, <3>2, <3>3 DEF Careful
  <2>4. b.id = ui.id => OfTarget(ui, b) /\ (b.at # "new" => KeyOfTarget(ui', files', b.key))
    BY <1>6, <2>1 DEF BuilderInv
  <2> QED BY <1>1, <2>1, <2>3, <2>4 DEF BuilderInv, OfTarget
<1>8. \A i \in DOMAIN events' : AnswerInv(events[i])'
  BY <1>1, <1>6 DEF PicturesInv, AnswerInv
<1>9. TypeInv'
  BY <1>1, <1>2, <1>3, <1>4 DEF TypeInv
<1>10. TargetInv'
  BY <1>1, <1>2 DEF TargetInv, Requested
<1>11. CommandsInv' /\ ShownIsWanted(ui', screen')
  BY <1>1 DEF PicturesInv, CommandsInv, OfTarget
<1>12. PictureIsOnItsWay'
  <2>1. FileIsOther => FileIsOther'
    BY <1>1, <1>5 DEF FileIsOther
  <2>2. Resolved <=> Resolved'
    BY <1>1 DEF Resolved
  <2> QED BY <1>1, <2>1, <2>2 DEF PicturesInv, PictureIsOnItsWay
<1> QED BY <1>1, <1>7, <1>8, <1>9, <1>10, <1>11, <1>12 DEF PicturesInv

\* At the start of the program nothing is asked for; the directory, the files
\* and the settings may be any.
LEMMA NoRequestIsFine ==
  NoRequest \in Requested /\ Blank \in Screens /\ NoRequest.target = NoTarget
  /\ NoTarget.key = NoKey /\ NoRequest.meta.time = NoFile /\ NoRequest.id = 0
  /\ Blank.id = 0 /\ ~Blank.ready
<1>1. NoKey \in AllKeys
  BY DEF NoKey, Key, AllKeys, NoFile
<1> QED BY <1>1 DEF NoRequest, Requested, Blank, Screens, NoTarget, NoMeta, NoFile

LEMMA RestartsStep ==
  ASSUME PicturesInv, Restarts
  PROVE  PicturesInv'
<1>1. /\ ui' = NoRequest /\ screen' = Blank /\ ram' = <<>> /\ failed' = 0
      /\ cmds' = <<>> /\ builders' = {} /\ events' = <<>> /\ current' = Nothing
      /\ UNCHANGED <<clock, files, view, disk>>
  BY DEF Restarts
<1>2. TypeInv'
  BY <1>1, NoRequestIsFine DEF PicturesInv, TypeInv
<1>3. TargetInv'
  BY <1>1, NoRequestIsFine DEF PicturesInv, TypeInv, TargetInv, NoFile
<1>4. CommandsInv' /\ ShownIsWanted(ui', screen') /\ PictureIsOnItsWay'
  BY <1>1, NoRequestIsFine DEF CommandsInv, ShownIsWanted, PictureIsOnItsWay
<1> QED BY <1>1, <1>2, <1>3, <1>4 DEF PicturesInv

LEMMA InitHolds ==
  ASSUME FullInit
  PROVE  PicturesInv
<1>1. /\ ui = NoRequest /\ screen = Blank /\ ram = <<>> /\ failed = 0
      /\ cmds = <<>> /\ builders = {} /\ events = <<>> /\ disk = <<>> /\ current = Nothing
      /\ clock = 1 /\ files = [t \in Tracks |-> 1]
      /\ view \in [mode : Kinds, look : Looks, skip : BOOLEAN, inMem : BOOLEAN, onDisk : BOOLEAN]
  BY DEF FullInit
<1>2. TypeInv
  BY <1>1, NoRequestIsFine DEF TypeInv, Modes
<1>3. TargetInv
  BY <1>1, NoRequestIsFine DEF TargetInv, NoFile
<1>4. CommandsInv /\ ShownIsWanted(ui, screen) /\ PictureIsOnItsWay
  BY <1>1, NoRequestIsFine DEF CommandsInv, ShownIsWanted, PictureIsOnItsWay
<1> QED BY <1>1, <1>2, <1>3, <1>4 DEF PicturesInv

\* The user, the files and a new start of the program.
LEMMA AroundStep ==
  ASSUME PicturesInv, UserOrFiles
  PROVE  PicturesInv'
<1>1. /\ current \in Tracks \cup {Nothing} /\ ram \in Seq(Memory) /\ disk \in Seq(Stored)
      /\ view \in [mode : Modes, look : Looks, skip : BOOLEAN, inMem : BOOLEAN, onDisk : BOOLEAN]
  BY DEF PicturesInv, TypeInv
<1>2. CASE TrackChanges
  BY <1>1, <1>2, AroundKeeps DEF TrackChanges
<1>3. CASE ViewChanges
  BY <1>1, <1>3, AroundKeeps DEF ViewChanges, Modes
<1>4. CASE ClearsMemory
  BY <1>1, <1>4, AroundKeeps DEF ClearsMemory
<1>5. CASE ClearsDisk
  BY <1>1, <1>5, AroundKeeps DEF ClearsDisk
<1> QED BY <1>2, <1>3, <1>4, <1>5, FileChangesStep, RestartsStep DEF UserOrFiles

LEMMA NothingHappens ==
  ASSUME PicturesInv, UNCHANGED fullVars
  PROVE  PicturesInv'
<1>1. /\ UNCHANGED <<clock, files, current, view, ui, screen, ram, failed>>
      /\ UNCHANGED <<cmds, recent, builders, events, disk>>
  BY DEF fullVars, uiVars
<1>2. UNCHANGED <<Others, clock, files>>
  BY <1>1 DEF Others
<1> QED BY <1>1, <1>2, AroundKeeps DEF PicturesInv, TypeInv

-----------------------------------------------------------------------------
(* The theorems                                                             *)

\* The thread, its builders, the files, the caches and the UI keep the
\* strengthened invariant, across any number of starts of the program.
THEOREM PicturesInvariant == FullSpec => []PicturesInv
<1>1. PicturesInv /\ [FullNext]_fullVars => PicturesInv'
  BY TickStep, WorkerStep, BuilderStep, AroundStep, NothingHappens DEF FullNext
<1> QED BY InitHolds, <1>1, PTL DEF FullSpec

\* FullTrack.PicturesAreRight: the picture that is set for the last request is
\* of its track, mode and parameters, what memory or the directory give for a
\* key is of that key and of no older file, and the last request is never lost
\* between the UI, apap-fulltrack and its builders, whatever they answer late
\* (drain_fulltrack_events, start_worker, run_build).
THEOREM PicturesStayRight == FullSpec => []PicturesAreRight
<1>1. ASSUME PicturesInv PROVE PicturesAreRight
  <2>1. /\ ShownIsWanted(ui, screen) /\ PictureIsOnItsWay
        /\ ram \in Seq(Memory) /\ disk \in Seq(Stored)
    BY <1>1 DEF PicturesInv, TypeInv
  <2>2. \A e \in ToSet(ram) : IsOf(e.pic, e.key.path, e.key.kind, e.key.look)
                              /\ e.pic.time >= e.key.time
    <3>1. \A e \in ToSet(ram) : e \in Memory
      BY <2>1 DEF ToSet
    <3> QED BY <3>1 DEF Memory, Suits
  <2>3. \A e \in ToSet(disk) : e.pic # Torn /\ e.stamp # NoFile =>
          /\ IsOf(e.pic, e.key.path, e.key.kind, e.key.look)
          /\ e.pic.time >= e.key.time /\ e.pic.time <= e.stamp
    <3>1. \A e \in ToSet(disk) : e \in Stored
      BY <2>1 DEF ToSet
    <3> QED BY <3>1 DEF Stored, Suits
  <2> QED BY <2>1, <2>2, <2>3 DEF PicturesAreRight, PictureIsOfTarget, ShownIsWanted
<1> QED BY <1>1, PicturesInvariant, PTL
=============================================================================
