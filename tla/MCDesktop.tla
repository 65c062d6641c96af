----------------------------- MODULE MCDesktop -----------------------------
(***************************************************************************)
(* Two changes of the terminal and two packets of the mouse, in any order  *)
(* with the steps of the loop, which looks at the clock every other round. *)
(***************************************************************************)
EXTENDS Desktop

MCPlaces == {"left", "right"}
MCCentre == "left"
=============================================================================
