------------------------------ MODULE MCFiles ------------------------------
(***************************************************************************)
(* The user's names beside those of the system, on a tree of the files     *)
(* that the boot makes and two more, with two faults.                      *)
(***************************************************************************)
EXTENDS Files

Rel(parts) == [abs |-> FALSE, parts |-> parts]
Abs(parts) == [abs |-> TRUE, parts |-> parts]

Up == ".."

UserInputs == {Rel(<<"a">>), Rel(<<Up>>), Rel(<<Up, Up, "b">>)}

UserPairs == {<<Rel(<<"a">>), Rel(<<Up, "b">>)>>, <<Rel(<<"b">>), Rel(<<"a", "b">>)>>,
              <<Rel(<<"a">>), Rel(<<"a", "b">>)>>, <<Abs(<<"etc", "lost.cfg">>), Rel(<<"a">>)>>}

UserSaves == {Rel(<<"a">>), Rel(<<"a", "b">>), Abs(<<"etc", "lost.cfg">>)}

UserTexts == {<<"text", "text">>}

SettingLines == {"key=value"}
DefaultLines == <<"key=value">>
=============================================================================
