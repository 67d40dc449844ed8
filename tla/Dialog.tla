------------------------------- MODULE Dialog -------------------------------
(***************************************************************************)
(* The draft of the settings dialog (core/dialog.rs and the dialog's part  *)
(* of core/mod.rs).  Three fields stand for all: the theme, whose file the *)
(* thread apap-io reads when it is chosen; the device, which the engine    *)
(* may change by itself; the mode, which a message's button may change.    *)
(***************************************************************************)
EXTENDS Naturals

Fields == {"theme", "device", "mode"}

(* What is in force, or what the draft holds: a value for every field.     *)
(* The draft also has the state of the theme's reading.                    *)
Unchanged    == [state |-> "Unchanged"]
Loading(gen) == [state |-> "Loading", gen |-> gen]
Ready(name)  == [state |-> "Ready", of |-> name]
Invalid      == [state |-> "Invalid"]

NewDraft(inForce) == [values |-> inForce, theme |-> Unchanged]

(* The fields in which the draft differs from what is in force: changes    *)
(* are judged against that, not against the values at the opening.         *)
diff(inForce, draft) == {f \in Fields : draft.values[f] # inForce[f]}

validate(draft) == draft.theme.state \in {"Unchanged", "Ready"}

(* A change made elsewhere: fields the user left alone follow it.          *)
rebase(draft, old, new) ==
  [draft EXCEPT !.values = [f \in Fields |-> IF @[f] = old[f] THEN new[f] ELSE @[f]]]

(* One field of the draft gets a value.  A theme other than the one in     *)
(* force is to be read under the generation gen.                           *)
dialog_edit(draft, inForce, f, v, gen) ==
  LET d == [draft EXCEPT !.values[f] = v]
  IN  IF f # "theme" \/ v = draft.values.theme THEN d
      ELSE [d EXCEPT !.theme = IF v = inForce.theme THEN Unchanged ELSE Loading(gen)]

(* Mutant: any answer is taken while a theme is awaited.                   *)
TakesAnyTheme(draft, gen, result) ==
  IF draft.theme.state = "Loading" THEN [draft EXCEPT !.theme = result] ELSE draft

(* The answer to a reading: taken only under the generation awaited.       *)
dialog_theme_loaded(draft, gen, result) ==
  IF draft.theme = Loading(gen) THEN [draft EXCEPT !.theme = result] ELSE draft
=============================================================================
