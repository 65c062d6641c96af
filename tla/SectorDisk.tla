----------------------------- MODULE SectorDisk -----------------------------
(***************************************************************************)
(* What the file system takes a disk for: sectors that are read and        *)
(* written as a whole.  A write that was acknowledged may still be on its  *)
(* way to the medium, but no more than one at a time, so that a loss of    *)
(* power undoes the last write at most.                                    *)
(***************************************************************************)
EXTENDS Naturals

CONSTANTS Lbas, Data, Nothing

VARIABLES
  stored,     \* the sectors of the medium
  unflushed,  \* the acknowledged write under way, [lba, data], or Nothing
  reply,      \* what the last call returned
  faults,     \* how often the power failed or the drive met an error
  strayed     \* the driver lost track of the drive: nothing is promised

vars == <<stored, unflushed, reply, faults, strayed>>

Init ==
  /\ stored \in [Lbas -> Data] /\ unflushed = Nothing /\ reply = Nothing
  /\ faults = 0 /\ strayed = FALSE

\* A read returns what was written last, and waits for it to be on the medium.
Read(l) ==
  /\ unflushed = Nothing
  /\ reply' = [call |-> "read", lba |-> l, data |-> stored[l]]
  /\ UNCHANGED <<stored, unflushed>>

Write(l, d) ==
  /\ unflushed = Nothing
  /\ unflushed' = [lba |-> l, data |-> d]
  /\ reply' = [call |-> "write", lba |-> l, data |-> d]
  /\ UNCHANGED stored

Identify == reply' = [call |-> "identify"] /\ UNCHANGED <<stored, unflushed>>

\* A call that fails changes no sector.
Fail == reply' = [call |-> "failed"] /\ UNCHANGED <<stored, unflushed>>

Flush ==
  /\ unflushed # Nothing
  /\ stored' = [stored EXCEPT ![unflushed.lba] = unflushed.data]
  /\ unflushed' = Nothing
  /\ UNCHANGED reply

\* The power fails, or the drive cannot store what it acknowledged.
Drop ==
  /\ faults' = faults + 1
  /\ unflushed' = Nothing /\ reply' \in {reply, Nothing}
  /\ UNCHANGED stored

\* A restart finds the drive ready, whatever happened to the sectors.
Recover == strayed /\ ~strayed' /\ unflushed' = Nothing /\ reply' = Nothing

Next ==
  \/ strayed'
  \/ Recover
  \/ /\ UNCHANGED strayed
     /\ \/ /\ UNCHANGED faults
           /\ \/ \E l \in Lbas : Read(l) \/ \E d \in Data : Write(l, d)
              \/ Identify \/ Fail \/ Flush
        \/ Drop

Spec == Init /\ [][Next]_vars
=============================================================================
