------------------------------ MODULE Desktop ------------------------------
(***************************************************************************)
(* The graphical build after boot: the endless loop of kernel_main, which  *)
(* redraws the screen, against the two interrupts that change what it      *)
(* shows.  IRQ1 runs the shell and leaves a new terminal, IRQ12 takes a    *)
(* byte from the mouse; both run between any two steps of the loop, which  *)
(* talks to them only through flags it reads and then clears.              *)
(***************************************************************************)
EXTENDS Naturals

CONSTANTS
  PollEvery,   \* rounds of the loop between two looks at the clock
  Seconds,     \* values of the second hand
  Places,      \* where the pointer can be
  Centre,      \* the middle of the screen, where it starts
  MaxKeys,     \* bound on the changes of the terminal
  MaxBytes     \* bound on the bytes the mouse sends

ASSUME DesktopAssumption ==
  /\ PollEvery \in Nat \ {0} /\ Seconds \in Nat \ {0, 1}
  /\ Centre \in Places /\ MaxKeys \in Nat /\ MaxBytes \in Nat

VARIABLES
  mouse_irq_ready,            \* do the mouse's bytes come by interrupt?
  terminal, t_dirty,          \* how often the terminal has changed; is that unseen?
  out_full, out_byte,         \* the 8042's output buffer: which byte of a packet it holds
  sent,                       \* bytes the mouse has sent
  packet_index,               \* bytes of a packet the driver has collected
  mouse_at, buttons, mouse_changed,
  pc, seen, drawing, after,   \* the loop: next step, flag read, what it draws, and then?
  previous_buttons,           \* buttons as gui_handle_pointer last saw them
  clock_poll_count, displayed_second,
  shown, cursor, cursor_to,   \* terminal in the upper and lower half of the screen; pointer
  second, unpolled,           \* the clock, and its ticks since the loop last looked
  other_register,             \* has IRQ1 selected another register of the clock?
  redraw_lost, pointer_lost   \* (history) was a change overlooked when its flag was cleared?

keyboard    == <<terminal, t_dirty, redraw_lost>>
i8042       == <<mouse_irq_ready, out_full, out_byte, sent>>
mouse       == <<packet_index, mouse_at, buttons, mouse_changed, pointer_lost>>
clock       == <<second, unpolled, other_register, clock_poll_count, displayed_second>>
screen      == <<shown, cursor, cursor_to>>
loop        == <<pc, seen, drawing, after>>
DesktopVars == <<keyboard, i8042, mouse, clock, screen, loop, previous_buttons>>

NoSecond == Seconds     \* 0xFF

----------------------------------------------------------------------------
(***************************************************************************)
(* Interrupts and hardware.                                                *)
(***************************************************************************)
\* IRQ1: a key that changes the terminal.  If it is Enter the history reads the clock
\* for its time stamp, a status register last.
keyboard_handler ==
  /\ terminal < MaxKeys
  /\ terminal' = terminal + 1 /\ t_dirty' = TRUE
  /\ redraw_lost' = (redraw_lost \/ (pc = "dirty_clear" /\ ~seen))
  /\ other_register' \in {other_register, pc = "clock_read"}
  /\ UNCHANGED <<second, unpolled, clock_poll_count, displayed_second, i8042, mouse, screen,
                 loop, previous_buttons>>

\* The mouse puts its next byte in the empty output buffer.
send_byte ==
  /\ ~out_full /\ sent < MaxBytes
  /\ out_full' = TRUE /\ out_byte' = sent % 3 /\ sent' = sent + 1
  /\ UNCHANGED <<mouse_irq_ready, keyboard, mouse, clock, screen, loop, previous_buttons>>

\* A second passes.  The clock does not go once around between two looks at it: a
\* million rounds of the loop take less than a minute.
tick ==
  /\ unpolled < Seconds - 1
  /\ second' = (second + 1) % Seconds /\ unpolled' = unpolled + 1
  /\ UNCHANGED <<other_register, clock_poll_count, displayed_second, keyboard, i8042, mouse, screen, loop,
                 previous_buttons>>

MovesOnly ==
  \/ UNCHANGED <<mouse_at, buttons, mouse_changed, pointer_lost>>
  \/ /\ mouse_at' \in Places /\ buttons' \in BOOLEAN
     /\ mouse_changed' = (mouse_changed \/ mouse_at' # mouse_at)
     /\ pointer_lost' = (pointer_lost \/ (pc = "changed_clear" /\ ~seen))

\* The third byte: the packet is discarded, or moves the pointer and sets the buttons.
process_packet ==
  \/ UNCHANGED <<mouse_at, buttons, mouse_changed, pointer_lost>>
  \/ /\ mouse_at' \in Places /\ buttons' \in BOOLEAN
     /\ mouse_changed' = TRUE
     /\ pointer_lost' = (pointer_lost \/ (pc = "changed_clear" /\ ~seen))

IndexNotReset ==
  \/ /\ packet_index < 2 /\ packet_index' = packet_index + 1
     /\ UNCHANGED <<mouse_at, buttons, mouse_changed, pointer_lost>>
  \/ /\ packet_index >= 2 /\ packet_index' = packet_index + 1
     /\ process_packet

\* A byte for a packet.  The first must have bit 3 set, as the first byte of a packet
\* always has, and another byte may have.
process_byte ==
  \/ /\ packet_index = 0 /\ out_byte # 0
     /\ UNCHANGED mouse
  \/ /\ packet_index < 2 /\ packet_index' = packet_index + 1
     /\ UNCHANGED <<mouse_at, buttons, mouse_changed, pointer_lost>>
  \/ /\ packet_index = 2 /\ packet_index' = 0
     /\ process_packet

\* IRQ12.
mouse_handler ==
  /\ mouse_irq_ready /\ out_full
  /\ out_full' = FALSE
  /\ process_byte
  /\ UNCHANGED <<mouse_irq_ready, out_byte, sent, keyboard, clock, screen, loop, previous_buttons>>

----------------------------------------------------------------------------
(***************************************************************************)
(* The loop.                                                               *)
(***************************************************************************)
Goto(l) == pc' = l /\ UNCHANGED <<seen, drawing, after>>

\* gui_render_full, gui_render_damage or gui_render ("cursor"), and then l.
Draw(what, l) == pc' = "draw_upper" /\ drawing' = what /\ after' = l /\ UNCHANGED seen

\* Every PollEvery rounds rtc_read selects the clock's register of seconds ...
gui_tick ==
  /\ pc = "tick"
  /\ clock_poll_count' = (clock_poll_count + 1) % PollEvery
  /\ other_register' = FALSE
  /\ Goto(IF clock_poll_count' = 0 THEN "clock_read" ELSE "dirty_read")
  /\ UNCHANGED <<second, unpolled, displayed_second, keyboard, i8042, mouse, screen,
                 previous_buttons>>

TickShowsNothing ==
  /\ pc = "clock_read"
  /\ displayed_second' = second /\ unpolled' = 0
  /\ Goto("dirty_read")
  /\ UNCHANGED <<second, other_register, clock_poll_count, keyboard, i8042, mouse, screen,
                 previous_buttons>>

\* ... and reads it, or the register IRQ1 has selected in between, whose value may look
\* like any second.
rtc_read ==
  /\ pc = "clock_read"
  /\ displayed_second' \in IF other_register THEN 0..(Seconds - 1) ELSE {second}
  /\ unpolled' = 0
  /\ IF displayed_second' = displayed_second THEN Goto("dirty_read") ELSE Draw("full", "dirty_read")
  /\ UNCHANGED <<second, other_register, clock_poll_count, keyboard, i8042, mouse, screen,
                 previous_buttons>>

\* The flag is thrown away, set while the first screen was drawn or not.
dirty_discard ==
  /\ pc = "dirty_discard"
  /\ t_dirty' = FALSE
  /\ redraw_lost' = (shown # <<terminal, terminal>>)
  /\ Goto("tick")
  /\ UNCHANGED <<terminal, i8042, mouse, clock, screen, previous_buttons>>

ClearAfterDrawing ==
  /\ pc = "dirty_read"
  /\ seen' = FALSE
  /\ IF t_dirty THEN pc' = "draw_upper" /\ drawing' = "full" /\ after' = "dirty_clear"
     ELSE pc' = "poll" /\ UNCHANGED <<drawing, after>>
  /\ UNCHANGED <<keyboard, i8042, mouse, clock, screen, previous_buttons>>

\* t_take_dirty reads the flag ...
take_dirty_read ==
  /\ pc = "dirty_read"
  /\ seen' = t_dirty /\ pc' = "dirty_clear"
  /\ UNCHANGED <<drawing, after, keyboard, i8042, mouse, clock, screen, previous_buttons>>

\* ... and clears it.
take_dirty_clear ==
  /\ pc = "dirty_clear"
  /\ t_dirty' = FALSE
  /\ IF seen THEN Draw("full", "poll") ELSE Goto("poll")
  /\ UNCHANGED <<terminal, redraw_lost, i8042, mouse, clock, screen, previous_buttons>>

PollAnyway ==
  /\ pc = "poll"
  /\ Goto(IF out_full THEN "poll_read" ELSE "changed_read")
  /\ UNCHANGED <<keyboard, i8042, mouse, clock, screen, previous_buttons>>

\* mouse_poll, when no interrupt takes the bytes: is there one ...
mouse_poll ==
  /\ pc = "poll"
  /\ Goto(IF ~mouse_irq_ready /\ out_full THEN "poll_read" ELSE "changed_read")
  /\ UNCHANGED <<keyboard, i8042, mouse, clock, screen, previous_buttons>>

\* ... then take it, or the last one again if there is none any more.
mouse_poll_read ==
  /\ pc = "poll_read"
  /\ out_full' = FALSE
  /\ process_byte
  /\ Goto("poll")
  /\ UNCHANGED <<mouse_irq_ready, out_byte, sent, keyboard, clock, screen, previous_buttons>>

\* mouse_has_changed reads the flag ...
has_changed_read ==
  /\ pc = "changed_read"
  /\ seen' = mouse_changed /\ pc' = "changed_clear"
  /\ UNCHANGED <<drawing, after, keyboard, i8042, mouse, clock, screen, previous_buttons>>

\* ... and clears it.
has_changed_clear ==
  /\ pc = "changed_clear"
  /\ mouse_changed' = FALSE
  /\ Goto(IF seen THEN "pointer" ELSE "tick")
  /\ UNCHANGED <<packet_index, mouse_at, buttons, pointer_lost, keyboard, i8042, clock, screen,
                 previous_buttons>>

\* What gui_handle_pointer makes of the pointer decides how much is redrawn.
gui_handle_pointer ==
  /\ pc = "pointer"
  /\ previous_buttons' = buttons /\ pointer_lost' = FALSE
  /\ \E what \in {"full", "damage", "cursor"} : Draw(what, "tick")
  /\ UNCHANGED <<packet_index, mouse_at, buttons, mouse_changed, keyboard, i8042, clock, screen>>

\* The terminal is read cell by cell while it is drawn; where the pointer is drawn was
\* read at the start.  gui_render redraws at most the cells the pointer covered.
draw_upper ==
  /\ pc = "draw_upper" /\ pc' = "draw_lower"
  /\ cursor_to' = mouse_at
  /\ shown' \in IF drawing = "cursor" THEN {shown, [shown EXCEPT ![1] = terminal]}
                ELSE {[shown EXCEPT ![1] = terminal]}
  /\ redraw_lost' = (redraw_lost /\ drawing = "cursor")
  /\ UNCHANGED <<seen, drawing, after, cursor, terminal, t_dirty, i8042, mouse, clock,
                 previous_buttons>>

draw_lower ==
  /\ pc = "draw_lower" /\ Goto(after)
  /\ cursor' = cursor_to
  /\ shown' \in IF drawing = "cursor" THEN {shown, [shown EXCEPT ![2] = terminal]}
                ELSE {[shown EXCEPT ![2] = terminal]}
  /\ UNCHANGED <<cursor_to, keyboard, i8042, mouse, clock, previous_buttons>>

----------------------------------------------------------------------------
mouse_init       == packet_index = 0 /\ buttons = FALSE
mouse_set_bounds == mouse_at = Centre /\ mouse_changed = TRUE

gui_init ==
  /\ mouse_set_bounds
  /\ previous_buttons = FALSE
  /\ clock_poll_count = 0 /\ displayed_second = NoSecond

\* The first gui_render_full is about to start; the terminal was drawn on, and no byte of
\* the mouse has come.
DesktopInit ==
  /\ mouse_init /\ gui_init
  /\ mouse_irq_ready \in BOOLEAN
  /\ terminal = 0 /\ t_dirty = TRUE
  /\ out_full = FALSE /\ out_byte = 0 /\ sent = 0
  /\ pc = "draw_upper" /\ seen = FALSE /\ drawing = "full" /\ after = "dirty_discard"
  /\ second \in 0..(Seconds - 1) /\ unpolled = 0 /\ other_register = FALSE
  /\ shown = <<0, 0>> /\ cursor = Centre /\ cursor_to = Centre
  /\ redraw_lost = FALSE /\ pointer_lost = FALSE

kernel_main ==
  \/ gui_tick \/ rtc_read \/ dirty_discard \/ take_dirty_read \/ take_dirty_clear
  \/ mouse_poll \/ mouse_poll_read \/ has_changed_read \/ has_changed_clear
  \/ gui_handle_pointer \/ draw_upper \/ draw_lower

DesktopNext == kernel_main \/ keyboard_handler \/ send_byte \/ mouse_handler \/ tick

\* The loop never blocks and interrupt handlers return; the clock runs.  Nothing is
\* assumed of the user.
DesktopSpec == DesktopInit /\ [][DesktopNext]_DesktopVars /\ WF_DesktopVars(kernel_main) /\ WF_DesktopVars(tick)

----------------------------------------------------------------------------
(***************************************************************************)
(* Properties                                                              *)
(***************************************************************************)
\* packet has three bytes, and packet_index never points behind it.
DesktopTypeOK ==
  /\ terminal \in 0..MaxKeys /\ sent \in 0..MaxBytes
  /\ out_byte \in 0..2 /\ packet_index \in 0..2
  /\ {mouse_at, cursor, cursor_to} \subseteq Places
  /\ shown \in (0..MaxKeys) \X (0..MaxKeys)
  /\ {mouse_irq_ready, t_dirty, out_full, buttons, mouse_changed, seen, previous_buttons,
      other_register, redraw_lost, pointer_lost} \subseteq BOOLEAN
  /\ pc \in {"tick", "clock_read", "dirty_discard", "dirty_read", "dirty_clear", "poll", "poll_read",
             "changed_read", "changed_clear", "pointer", "draw_upper", "draw_lower"}
  /\ drawing \in {"full", "damage", "cursor"}
  /\ clock_poll_count \in 0..(PollEvery - 1)
  /\ displayed_second \in 0..NoSecond /\ second \in 0..(Seconds - 1)

\* The driver agrees with the mouse on where a packet starts (kernel.c:129: "IRQ12
\* consumes PS/2 bytes; polling concurrently loses packet sync").
PacketsInSync == out_full => out_byte = packet_index

WillDraw == pc = "draw_upper" /\ drawing # "cursor"

RedrawKept ==
  \/ redraw_lost \/ t_dirty \/ WillDraw
  \/ pc = "dirty_clear" /\ seen
  \/ shown[1] = terminal /\ (shown[2] = terminal \/ (pc = "draw_lower" /\ drawing # "cursor"))

PointerKept ==
  \/ pointer_lost \/ mouse_changed \/ pc = "pointer"
  \/ pc = "changed_clear" /\ seen
  \/ previous_buttons = buttons

\* A change of the terminal is on the screen, in both halves, or the loop is bound to
\* redraw it, unless it came between the two steps of t_take_dirty or, after boot, before
\* the flag was discarded; and a press or a release of a button has been handled, or the
\* loop is bound to handle it, unless it came between the two steps of mouse_has_changed.
NothingForgotten == RedrawKept /\ PointerKept

\* When the user pauses the screen comes to show the whole terminal and the pointer where
\* it is, the changes lost between reading and clearing a flag included: the clock, drawn
\* once a second, brings them back, even when a look at it returned another register.
ScreenCatchesUp == <>[](shown = <<terminal, terminal>> /\ cursor = mouse_at)
=============================================================================
