------------------------------ MODULE Keyboard ------------------------------
(***************************************************************************)
(* The keyboard driver (kernel/drivers/keyboard.c): scan codes arrive byte *)
(* by byte, and the driver rebuilds from them which modifiers are held.    *)
(* While a command runs inside the handler the keyboard keeps the bytes.   *)
(* A key is a pair <<code, extended>>: the arrow `up' is <<"up", TRUE>>,   *)
(* the 8 of the keypad, which has the same code, is <<"up", FALSE>>.       *)
(***************************************************************************)
EXTENDS Naturals, Sequences, FiniteSets

CONSTANTS
  Keys,      \* the keys of the keyboard
  Layouts,   \* name -> [normal, shift, altgr : code -> character or None]
  Capitals,  \* small letter -> capital letter
  None,      \* no character, no key
  MaxHeld,   \* bound on the keys held down at once
  MaxQueue,  \* bytes the keyboard keeps until they are taken
  MaxCodes   \* bound on the scan codes among them

ASSUME KeyboardAssumption ==
  /\ Keys \subseteq STRING \X BOOLEAN
  \* Two codes are no key's, and an extended shift is the keyboard's own doing.
  /\ \A key \in Keys : key[1] \notin {"E0", "FF"} /\ ~(key[2] /\ key[1] \in {"lshift", "rshift"})
  /\ "default" \in DOMAIN Layouts /\ None \notin DOMAIN Capitals
  /\ {MaxHeld, MaxCodes} \subseteq Nat /\ MaxQueue \in Nat \ {0}

VARIABLES
  down,            \* the keys held down
  caps_on,         \* what the user believes of Caps Lock
  queue,           \* bytes sent and not yet taken
  cur_layout, shift_pressed, caps_lock, altgr_pressed, ctrl_pressed, extended,
  editor_active,   \* who receives keys
  owed,            \* (history) key presses sent and not yet handled, with the modifiers held
  doubt            \* (history) modifiers the driver may be wrong about

driver == <<cur_layout, shift_pressed, caps_lock, altgr_pressed, ctrl_pressed, extended>>
vars   == <<down, caps_on, queue, driver, editor_active, owed, doubt>>

E0      == [code |-> "E0", up |-> FALSE]
Overrun == [code |-> "FF", up |-> TRUE]

Shifts == {<<"lshift", FALSE>>, <<"rshift", FALSE>>}
Ctrl   == <<"ctrl", FALSE>>    \* the left one; the right one is extended, and ignored
AltGr  == <<"alt", TRUE>>
Caps   == <<"caps", FALSE>>

\* The modifier a key is, or "key".
Role(key) ==
  CASE key \in Shifts -> "shift" [] key = Ctrl -> "ctrl" [] key = AltGr -> "altgr"
    [] key = Caps -> "caps" [] OTHER -> "key"

----------------------------------------------------------------------------
(***************************************************************************)
(* What a key types.                                                       *)
(***************************************************************************)
Small(c)   == c \in DOMAIN Capitals
Capital(c) == \E s \in DOMAIN Capitals : Capitals[s] = c

translate_scancode(layout, code, shift, caps, altgr) ==
  LET table == Layouts[layout]
      c     == IF shift THEN table.shift[code] ELSE table.normal[code]
  IN  CASE altgr /\ table.altgr[code] # None -> table.altgr[code]
        [] ~(altgr /\ table.altgr[code] # None) /\ caps /\ ~shift /\ Small(c) -> Capitals[c]
        [] ~(altgr /\ table.altgr[code] # None) /\ caps /\ shift /\ Capital(c) ->
             CHOOSE s \in DOMAIN Capitals : Capitals[s] = c
        [] OTHER -> c

Scrolled(code) == IF code = "up" THEN "scroll_up" ELSE "scroll_down"

\* handle_extended_key: PgUp and PgDn go to the shell whoever is active.
ExtendedKey(code, shift, editor) ==
  CASE code \in {"left", "right", "delete"} -> <<IF editor THEN "editor" ELSE "shell", code>>
    [] code \in {"up", "down"} -> IF editor THEN <<"editor", code>>
                                  ELSE <<"shell", IF shift THEN Scrolled(code) ELSE code>>
    [] code \in {"pgup", "pgdown"} -> <<"shell", code>>
    [] OTHER -> None

Receiver(editor) == IF editor THEN "editor" ELSE "shell"

\* The key Ctrl-D means the end of the input, the other characters themselves.
Character(c, ctrl, editor) ==
  IF c = None THEN None
  ELSE <<Receiver(editor), IF ctrl /\ c \in {"d", "D"} THEN "eof" ELSE c>>

----------------------------------------------------------------------------
(***************************************************************************)
(* The keyboard and its user.                                              *)
(***************************************************************************)
Codes == Cardinality({i \in DOMAIN queue : queue[i] # E0})

Bytes(key, up) ==
  (IF key[2] THEN <<E0>> ELSE <<>>) \o <<[code |-> key[1], up |-> up]>>

\* Many keyboards take a held shift back around the codes of an arrow.
Unshifted(key, up) ==
  IF key[2] /\ key # AltGr /\ down \cap Shifts # {}
  THEN LET shift == CHOOSE s \in down \cap Shifts : TRUE
       IN  {<<>>, <<E0, [code |-> shift[1], up |-> ~up]>>}
  ELSE {<<>>}

Possible(role, held) == IF role \in doubt THEN BOOLEAN ELSE {held}

\* A key press as its user means it: the key and the modifiers that are held.
Chord(key) ==
  [key   |-> key,
   shift |-> Possible("shift", down \cap Shifts # {}), caps |-> Possible("caps", caps_on),
   altgr |-> Possible("altgr", AltGr \in down),        ctrl |-> Possible("ctrl", Ctrl \in down)]

\* Of two shift keys the driver knows only the last change.
Ambiguous(key, up) == Role(key) = "shift" /\ up /\ down \cap Shifts # {key}

\* The bytes are kept, or there is no room for them and an overrun takes their place.
Sent(bytes, key, up, unclear) ==
  LET role == Role(key)
      full == Len(queue) + Len(bytes) > MaxQueue
  IN  /\ queue' = IF ~full THEN queue \o bytes
                  ELSE IF Len(queue) < MaxQueue THEN Append(queue, Overrun) ELSE queue
      /\ owed' = IF role = "key" /\ ~up /\ ~full THEN Append(owed, Chord(key)) ELSE owed
      /\ doubt' = IF role # "key" /\ (unclear \/ (full /\ ~(key = Caps /\ up)))
                  THEN doubt \cup {role} ELSE doubt \ ({role} \ {"caps"})

press(key) ==
  /\ key \notin down /\ Cardinality(down) < MaxHeld /\ Codes < MaxCodes
  /\ down' = down \cup {key}
  /\ caps_on' = IF key = Caps THEN ~caps_on ELSE caps_on
  /\ \E before \in Unshifted(key, FALSE) : Sent(before \o Bytes(key, FALSE), key, FALSE, FALSE)
  /\ UNCHANGED <<driver, editor_active>>

release(key) ==
  /\ key \in down /\ Codes < MaxCodes
  /\ down' = down \ {key}
  /\ \E after \in Unshifted(key, TRUE) : Sent(Bytes(key, TRUE) \o after, key, TRUE, Ambiguous(key, TRUE))
  /\ UNCHANGED <<driver, editor_active, caps_on>>

\* A key held down sends its code again and again, Caps Lock too, which the driver takes
\* for as many presses.
repeat(key) ==
  /\ key \in down /\ Codes < MaxCodes
  /\ Sent(Bytes(key, FALSE), key, FALSE, key = Caps)
  /\ UNCHANGED <<down, driver, editor_active, caps_on>>

----------------------------------------------------------------------------
(***************************************************************************)
(* keyboard_handler: one byte for each interrupt.                          *)
(***************************************************************************)
\* What a key means with these modifiers, for the layout and the receiver of the moment.
Means(key, shift, caps, altgr, ctrl) ==
  IF key[2] THEN ExtendedKey(key[1], shift, editor_active)
  ELSE IF key[1] \in {"tab", "esc"}
  THEN IF key[1] = "esc" /\ ~editor_active THEN None ELSE <<Receiver(editor_active), key[1]>>
  ELSE Character(translate_scancode(cur_layout, key[1], shift, caps, altgr), ctrl, editor_active)

Meant(chord) ==
  {Means(chord.key, shift, caps, altgr, ctrl) :
     shift \in chord.shift, caps \in chord.caps, altgr \in chord.altgr, ctrl \in chord.ctrl}

Taken == queue # <<>> /\ queue' = Tail(queue) /\ UNCHANGED <<down, caps_on, doubt>>
Byte  == Head(queue)
Flags == <<shift_pressed, caps_lock, altgr_pressed, ctrl_pressed>>

\* The press due next is of the byte's key, and something that its user meant is handed on.
Due(key) ==
  owed # <<>> /\ Head(owed).key = <<Byte.code, extended>> /\ key \in Meant(Head(owed))

\* The layout and the receiver are set by what the receiver does with Enter (`layout',
\* `edit', `:q').
Handed(key) ==
  /\ owed' = IF Due(key) THEN Tail(owed)
             ELSE IF key = None THEN owed ELSE Append(owed, [wrong |-> key])
  /\ IF key # None /\ key[2] = "enter"
     THEN cur_layout' \in DOMAIN Layouts /\ editor_active' \in BOOLEAN
     ELSE UNCHANGED <<cur_layout, editor_active>>

prefix ==
  /\ Taken /\ Byte = E0
  /\ extended' = TRUE
  /\ UNCHANGED <<Flags, cur_layout, editor_active, owed>>

\* Mistaken: a shift is a shift, with or without a prefix.
HeedsUnshift ==
  /\ Taken /\ Byte # E0 /\ extended
  /\ extended' = FALSE
  /\ altgr_pressed' = IF Byte.code = "alt" THEN ~Byte.up ELSE altgr_pressed
  /\ shift_pressed' = IF Byte.code \in {"lshift", "rshift"} THEN ~Byte.up ELSE shift_pressed
  /\ UNCHANGED <<caps_lock, ctrl_pressed>>
  /\ IF Byte.up THEN UNCHANGED <<cur_layout, editor_active, owed>>
     ELSE Handed(ExtendedKey(Byte.code, shift_pressed, editor_active))

handle_extended_key ==
  /\ Taken /\ Byte # E0 /\ extended
  /\ extended' = FALSE
  /\ altgr_pressed' = IF Byte.code = "alt" THEN ~Byte.up ELSE altgr_pressed
  /\ UNCHANGED <<shift_pressed, caps_lock, ctrl_pressed>>
  /\ IF Byte.up THEN UNCHANGED <<cur_layout, editor_active, owed>>
     ELSE Handed(ExtendedKey(Byte.code, shift_pressed, editor_active))

Plain(codes) == Taken /\ Byte # E0 /\ ~extended /\ Byte.code \in codes /\ UNCHANGED extended

shift ==
  /\ Plain({"lshift", "rshift"})
  /\ shift_pressed' = ~Byte.up
  /\ UNCHANGED <<caps_lock, altgr_pressed, ctrl_pressed, cur_layout, editor_active, owed>>

caps ==
  /\ Plain({"caps"})
  /\ caps_lock' = IF Byte.up THEN caps_lock ELSE ~caps_lock
  /\ UNCHANGED <<shift_pressed, altgr_pressed, ctrl_pressed, cur_layout, editor_active, owed>>

ctrl ==
  /\ Plain({"ctrl"})
  /\ ctrl_pressed' = ~Byte.up
  /\ UNCHANGED <<shift_pressed, caps_lock, altgr_pressed, cur_layout, editor_active, owed>>

tab ==
  /\ Plain({"tab"}) /\ ~Byte.up
  /\ Handed(<<Receiver(editor_active), "tab">>)
  /\ UNCHANGED Flags

escape ==
  /\ Plain({"esc"}) /\ ~Byte.up
  /\ Handed(IF editor_active THEN <<"editor", "esc">> ELSE None)
  /\ UNCHANGED Flags

Others == {key[1] : key \in Keys} \ {"lshift", "rshift", "caps", "ctrl", "tab", "esc"}

character ==
  /\ Plain(Others) /\ ~Byte.up
  /\ Handed(Character(translate_scancode(cur_layout, Byte.code, shift_pressed, caps_lock,
                                         altgr_pressed), ctrl_pressed, editor_active))
  /\ UNCHANGED Flags

released ==
  /\ Plain(Others \cup {"tab", "esc", "FF"}) /\ Byte.up
  /\ UNCHANGED <<Flags, cur_layout, editor_active, owed>>

keyboard_handler ==
  prefix \/ handle_extended_key \/ shift \/ caps \/ ctrl \/ tab \/ escape \/ character \/ released

Init ==
  /\ down = {} /\ caps_on = FALSE /\ queue = <<>>
  /\ cur_layout = "default" /\ editor_active = FALSE
  /\ shift_pressed = FALSE /\ caps_lock = FALSE /\ altgr_pressed = FALSE
  /\ ctrl_pressed = FALSE /\ extended = FALSE
  /\ owed = <<>> /\ doubt = {}

Next == keyboard_handler \/ \E key \in Keys : press(key) \/ release(key) \/ repeat(key)

Spec == Init /\ [][Next]_vars

----------------------------------------------------------------------------
(***************************************************************************)
(* Properties                                                              *)
(***************************************************************************)
\* Every key press is handed on, once, in order, and as the character its user meant with
\* the modifiers held at that time, however late the bytes are taken and whatever codes the
\* keyboard sends around them (keyboard_handler, handle_extended_key).  A byte lost to a
\* full queue costs its own key only; a modifier whose change was lost, or of which one of
\* two keys was let go, is in doubt until it changes again.
KeysAsMeant ==
  /\ \A i \in DOMAIN owed : "wrong" \notin DOMAIN owed[i]
  /\ queue = <<>> => owed = <<>>
=============================================================================
