-------------------------------- MODULE Ata --------------------------------
(***************************************************************************)
(* The ATA driver (kernel/drivers/ata.c) and the drive it polls.  The      *)
(* driver asks for the status a bounded number of times and gives up; the  *)
(* drive works on meanwhile and knows nothing of that.                     *)
(***************************************************************************)
EXTENDS Naturals

CONSTANTS
  Lbas, Data,
  Identity,   \* what IDENTIFY delivers
  Nothing,
  MaxPolls,   \* how often a loop asks for the status, 100000 in the code
  MaxFaults   \* bound on errors of the medium and losses of power

ASSUME AtaAssumption ==
  /\ MaxPolls \in Nat \ {0} /\ MaxFaults \in Nat
  /\ Nothing \notin Data \cup [lba : Lbas, data : Data]

VARIABLES
  medium,   \* the sectors
  drive,    \* what the drive is doing, the sector it is about, its error bit
  pc,       \* where the call in progress is, or "idle"
  call,     \* the call in progress, or the last
  polls,    \* rounds left in the loop
  result,   \* what the last call returned
  faults,
  strayed   \* (history) a call left the drive at work, or IDENTIFY came in its way

AtaVars == <<medium, drive, pc, call, polls, result, faults, strayed>>

Idle == [doing |-> "nothing", lba |-> Nothing, data |-> Nothing, err |-> FALSE]

\* The status bits.  The drive keeps the others clear while BSY is set: ata_wait_drq looks
\* at DRQ and ERR without asking.
BSY == drive.doing \in {"seeking", "preparing", "storing", "identifying"}
DRQ == drive.doing \in {"offering", "accepting"}
ERR == ~BSY /\ drive.err

----------------------------------------------------------------------------
(***************************************************************************)
(* The drive.                                                              *)
(***************************************************************************)
Task(c) ==
  CASE c.op = "read"     -> [Idle EXCEPT !.doing = "seeking", !.lba = c.lba]
    [] c.op = "write"    -> [Idle EXCEPT !.doing = "preparing", !.lba = c.lba]
    [] c.op = "identify" -> [Idle EXCEPT !.doing = "identifying"]

\* A command given while the drive is busy or has data to move is not defined: the drive
\* passes over it, or drops what it was doing.
Command(c) == IF BSY \/ DRQ THEN drive' \in {drive, Task(c)} ELSE drive' = Task(c)

drive_done ==
  /\ BSY
  /\ drive' = CASE drive.doing = "seeking"     -> [drive EXCEPT !.doing = "offering", !.data = medium[drive.lba]]
                [] drive.doing = "identifying" -> [drive EXCEPT !.doing = "offering", !.data = Identity]
                [] drive.doing = "preparing"   -> [drive EXCEPT !.doing = "accepting"]
                [] drive.doing = "storing"     -> Idle
  /\ medium' = IF drive.doing = "storing" THEN [medium EXCEPT ![drive.lba] = drive.data] ELSE medium
  /\ UNCHANGED <<pc, call, polls, result, faults, strayed>>

\* An error ends the command.  One met while storing comes after the driver has left.
drive_error ==
  /\ BSY /\ faults < MaxFaults /\ faults' = faults + 1
  /\ drive' = [Idle EXCEPT !.err = TRUE]
  /\ UNCHANGED <<medium, pc, call, polls, result, strayed>>

power_loss ==
  /\ faults < MaxFaults /\ faults' = faults + 1
  /\ drive' = Idle /\ pc' = "idle" /\ result' = Nothing /\ polls' = 0 /\ strayed' = FALSE
  /\ UNCHANGED <<medium, call>>

----------------------------------------------------------------------------
(***************************************************************************)
(* The driver.                                                             *)
(***************************************************************************)
Begin(c, label) ==
  /\ pc = "idle"
  /\ call' = c /\ pc' = label /\ polls' = MaxPolls
  /\ UNCHANGED <<medium, drive, result, faults, strayed>>

ata_read_sector(l)     == Begin([op |-> "read", lba |-> l, data |-> Nothing], "wait_bsy")
ata_write_sector(l, d) == Begin([op |-> "write", lba |-> l, data |-> d], "wait_bsy")

\* ata_init, at boot and whenever `disk' is used, does not wait for the drive.
ata_identify == Begin([op |-> "identify", lba |-> Nothing, data |-> Nothing], "command")

Return(r) == pc' = "idle" /\ polls' = 0 /\ result' = r /\ UNCHANGED <<call, faults>>

Failed == [call |-> "failed"]

\* Mistaken: the loop does not count.
PollForEver == UNCHANGED <<polls, pc, call, result, faults>>

\* One more look at the status, or the end of the loop.
PollAgain ==
  \/ polls > 1 /\ polls' = polls - 1 /\ UNCHANGED <<pc, call, result, faults>>
  \/ polls = 1 /\ Return(Failed)

\* Mistaken: the drive is taken to be ready.
CommandAtOnce ==
  /\ pc = "wait_bsy" /\ pc' = "command"
  /\ UNCHANGED <<medium, drive, strayed, polls, call, result, faults>>

ata_wait_bsy ==
  /\ pc = "wait_bsy"
  /\ \/ ~BSY /\ pc' = "command" /\ UNCHANGED <<polls, call, result, faults>>
     \/ BSY /\ PollAgain
  /\ UNCHANGED <<medium, drive, strayed>>

\* The registers and the command; four looks at the status give the drive time to see it.
ata_command ==
  /\ pc = "command"
  /\ Command(call)
  /\ strayed' = (strayed \/ (call.op = "identify" /\ (BSY \/ DRQ)))
  /\ pc' = "wait_drq" /\ polls' = MaxPolls
  /\ UNCHANGED <<medium, call, result, faults>>

\* 256 words out of the drive, or into it.
Transfer ==
  \/ /\ call.op # "write" /\ drive.doing = "offering"
     /\ drive' = Idle
     /\ Return(IF call.op = "read" THEN [call |-> "read", lba |-> call.lba, data |-> drive.data]
               ELSE [call |-> "identify"])
  \/ /\ call.op = "write" /\ drive.doing = "accepting"
     /\ drive' = [drive EXCEPT !.doing = "storing", !.data = call.data]
     /\ Return([call |-> "write", lba |-> call.lba, data |-> call.data])
  \/ /\ (call.op = "write") # (drive.doing = "accepting")    \* an older command's data
     /\ drive' \in {drive, Idle}
     /\ \E d \in Data : Return([call |-> call.op, lba |-> call.lba, data |-> d])

\* ata_wait_drq, and ata_wait_ready for IDENTIFY.
ata_wait_drq ==
  /\ pc = "wait_drq"
  /\ \/ ERR /\ Return(Failed) /\ UNCHANGED drive
     \/ ~ERR /\ DRQ /\ Transfer
     \/ ~ERR /\ ~DRQ /\ PollAgain /\ UNCHANGED drive
  /\ strayed' = (strayed \/ (polls = 1 /\ BSY))
  /\ UNCHANGED medium

AtaInit ==
  /\ medium \in [Lbas -> Data] /\ drive = Idle
  /\ pc = "idle" /\ call = [op |-> "none"] /\ polls = 0 /\ result = Nothing
  /\ faults = 0 /\ strayed = FALSE

Poll == ata_wait_bsy \/ ata_command \/ ata_wait_drq

Call ==
  \/ \E l \in Lbas : ata_read_sector(l) \/ \E d \in Data : ata_write_sector(l, d)
  \/ ata_identify

AtaNext == Call \/ Poll \/ drive_done \/ drive_error \/ power_loss

\* The driver runs in the kernel with nothing to wait for; the drive may never answer.
AtaSpec == AtaInit /\ [][AtaNext]_AtaVars /\ WF_AtaVars(Poll)

----------------------------------------------------------------------------
(***************************************************************************)
(* Properties                                                              *)
(***************************************************************************)
\* The driver is the disk that the file system takes it for (refinement), until it has
\* given up on a drive that was still to answer (ata_wait_drq, whose caller forgets the
\* command) or has sent IDENTIFY to one still storing (ata_identify); a restart ends that.
Disk == INSTANCE SectorDisk WITH
  stored    <- medium,
  unflushed <- IF drive.doing = "storing" THEN [lba |-> drive.lba, data |-> drive.data]
               ELSE Nothing,
  reply     <- result

DiskSpec == Disk!Init /\ [][Disk!Next]_(Disk!vars)

\* A drive that never answers does not hang the kernel: every call returns.
CallsReturn == [](pc # "idle" => <>(pc = "idle"))
=============================================================================
