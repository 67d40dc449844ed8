------------------------------ MODULE MCWindows ------------------------------
(***************************************************************************)
(* Windows for TLC, in three scopes: every cause of messages with the tray *)
(* and the dialog opening and closing; the edits of the dialog and what    *)
(* changes meanwhile, with the messages that open and change it; the       *)
(* pickers, the loads and the scans under messages, tray and dialog.       *)
(***************************************************************************)
EXTENDS Windows

VARIABLE scope

mcVars == <<vars, scope>>

MCInit == /\ Init
          /\ scope \in {"messages", "dialog", "loads"}
          /\ scope # "dialog" => inForce.theme = "A" /\ inForce.device = "d1"

Presses == \E action \in {"OpenAudioSettings", "SwitchToCompatible", "Cancel", "Ok"} : Press(action)

MCNext ==
  /\ running
  /\ \/ scope = "messages" /\ (MessageStep \/ WindowStep \/ OpenSettings \/ CancelSettings)
     \/ scope = "dialog"
          /\ (DialogStep \/ OpenRefusedByMode \/ PushMessage("stalled") \/ Presses \/ WindowShown \/ Exit)
     \/ scope = "loads"
          /\ (LoadStep \/ WindowStep \/ PushMessage("stalled") \/ Presses \/ OpenSettings \/ CancelSettings)
  /\ UNCHANGED scope

MCSpec == MCInit /\ [][MCNext]_mcVars
=============================================================================
