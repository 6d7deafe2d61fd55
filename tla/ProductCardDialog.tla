------------------------- MODULE ProductCardDialog -------------------------
(***************************************************************************)
(* services/bot: what the product card buttons and inputs do to            *)
(* session.productCardContext, and how callback.ts routes them.  Buttons   *)
(* of old messages can be pressed at any time.                             *)
(***************************************************************************)
EXTENDS Integers

Steps == {"none", "awaiting_photo", "awaiting_mode", "awaiting_options", "awaiting_input",
          "editing", "completed"}
Options == {"background", "pose", "text"}

NoImage == 0
NoGeneration == 0
ButtonName == -1    \* "opt_background", "apply", ...: what handleEdit may take for an id

Card(step) == [step |-> step, image |-> NoImage, mode |-> FALSE, options |-> {},
               current |-> "none", generation |-> NoGeneration]

NoCard == Card("none")

\* The presses of handleProductCardCallback, by the handler they are meant for.
Presses ==
    {"mode", "opt_background", "opt_pose", "opt_text", "generate", "more", "edit",
     "edit_opt_background", "edit_opt_pose", "edit_opt_text", "edit_apply"}

OptionOf(k) ==
    CASE k \in {"opt_background", "edit_opt_background"} -> "background"
      [] k \in {"opt_pose", "edit_opt_pose"} -> "pose"
      [] k \in {"opt_text", "edit_opt_text"} -> "text"
      [] OTHER -> "none"

\* data.startsWith('pc_edit_') comes before the comparisons with pc_edit_opt_... and
\* pc_edit_apply: every edit button is taken for 'edit the generation of this name'.
Routed(k) == IF k \in {"edit_opt_background", "edit_opt_pose", "edit_opt_text", "edit_apply"}
             THEN "edit_button" ELSE k

\* handlePhoto; a photo that comes at another step goes to the vision chat.
TakePhoto(photo) == [Card("awaiting_mode") EXCEPT !.image = photo]

\* Mutant: a mode is accepted at any step.
SelectMode_NoGuard(card) == [card EXCEPT !.mode = TRUE, !.step = "awaiting_options"]

\* handleModeSelection: no image, 'start over'.
SelectMode(card) ==
    IF card.step # "none" /\ card.image # NoImage
    THEN [card EXCEPT !.mode = TRUE, !.step = "awaiting_options"]
    ELSE card

\* handleOptions up to the message; the step changes only if the message is sent.
ChooseOption(card, option, sent) ==
    IF card.step = "awaiting_options"
    THEN [card EXCEPT !.current = option, !.step = IF sent THEN "awaiting_input" ELSE @]
    ELSE card

\* handleOptionInput; routed here only at step awaiting_input.
EnterOption(card) ==
    [card EXCEPT !.options = @ \cup {card.current}, !.step = "awaiting_options"]

MayGenerate(card) == card.step # "none" /\ card.image # NoImage /\ card.mode

Completed(generation) == [Card("completed") EXCEPT !.generation = generation]

\* handleEdit: whatever the context was.
Edited(generation) == [Card("editing") EXCEPT !.generation = generation]

\* Every field the step relies on is there.
Usable(card) ==
    /\ card.step \in {"awaiting_mode", "awaiting_options", "awaiting_input"} => card.image # NoImage
    /\ card.step \in {"awaiting_options", "awaiting_input"} => card.mode
    /\ card.step = "awaiting_input" => card.current \in Options
    /\ card.step \in {"completed", "editing"} => card.generation # NoGeneration
=============================================================================
