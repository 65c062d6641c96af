----------------------------- MODULE MCKeyboard -----------------------------
(***************************************************************************)
(* One key of each kind: the letter of Ctrl-D, a key with a third level in *)
(* one of the two layouts, an arrow, and all the modifiers.                *)
(***************************************************************************)
EXTENDS Keyboard

Table(d, two) == [c \in {"d", "2", "enter", "up", "alt", "pgup"} |->
                    CASE c = "d" -> d [] c = "2" -> two [] c = "enter" -> "enter" [] OTHER -> None]

MCLayouts ==
  [default |-> [normal |-> Table("d", "2"), shift |-> Table("D", "quote"), altgr |-> [Table(None, "at") EXCEPT !["enter"] = None]],
   us      |-> [normal |-> Table("d", "2"), shift |-> Table("D", "at"), altgr |-> [Table(None, None) EXCEPT !["enter"] = None]]]

MCCapitals == [d |-> "D"]

MCKeys ==
  {<<"lshift", FALSE>>, <<"rshift", FALSE>>, <<"ctrl", FALSE>>, <<"caps", FALSE>>,
   <<"alt", TRUE>>, <<"up", TRUE>>, <<"pgup", TRUE>>, <<"d", FALSE>>, <<"2", FALSE>>, <<"enter", FALSE>>,
   <<"tab", FALSE>>, <<"esc", FALSE>>}
=============================================================================
