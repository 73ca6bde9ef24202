-------------------------------- MODULE Ata --------------------------------
(***************************************************************************)
(* The ATA driver (src/src/kernel/ata.c) and the drive behind its ports.   *)
(* The driver polls: each of its steps is one register access or one poll, *)
(* and the drive moves on between any two of them.  Every caller in the    *)
(* kernel asks for one sector, so a call is one transfer.                  *)
(*                                                                         *)
(* ata.c never looks at the busy bit.  What that is worth depends on the   *)
(* drive, so there are several kinds:                                      *)
(*   sound     READY is down while it is busy, and it is never busy longer *)
(*             than a poll of 100000 reads lasts                           *)
(*   slow      the same, but it may be busy longer                         *)
(*   eager     READY stays up while it is busy, as in QEMU                 *)
(*   absent    no drive and the bus reads 0                                *)
(*   floating  no drive and the bus reads 1 in every bit                   *)
(***************************************************************************)
CONSTANTS
    Byte,       \* values of an address register; two stand for the four
    Data,       \* contents of a sector
    Junk,       \* what the data port gives when the drive offers nothing
    NoData,
    Drives,     \* the kinds of drive there may be
    Image       \* the sectors of the disk at first

Lba == [low : Byte, high : Byte]

ASSUME AtaAssumption ==
    /\ Drives \subseteq {"sound", "slow", "eager", "absent", "floating"}
    /\ Image \in [Lba -> Data]

VARIABLES
    medium,     \* the sectors of the disk
    kind,       \* which drive it is
    drv,        \* what the drive is doing
    reg,        \* its address registers
    job,        \* the command it is at work on
    pc,         \* where the driver is
    req,        \* the transfer it was asked for
    ret,        \* how the last call ended
    buf         \* and what it read

drive  == <<medium, drv, reg, job>>
ata    == <<medium, kind, drv, reg, job, pc, req, ret, buf>>

Nothing == [op |-> "none"]
Request == [op : {"read"}, lba : Lba] \cup [op : {"write"}, lba : Lba, data : Data]
Job     == {Nothing} \cup [op : {"read", "write"}, lba : Lba]
               \cup [op : {"store"}, lba : Lba, data : Data]

Present == kind \in {"sound", "slow", "eager"}

AtaInit ==
    /\ medium = Image
    /\ kind \in Drives
    /\ drv = "ready" /\ reg \in Lba /\ job = Nothing
    /\ pc = "init" /\ req = Nothing /\ ret = "none" /\ buf = NoData

-----------------------------------------------------------------------------
(* ata_poll_status                                                          *)

\* The bits a read of the status register shows, of those the driver looks at.
Status ==
    CASE kind = "absent"   -> {}
      [] kind = "floating" -> {"READY", "DATA_READY", "ERROR"}
      [] drv = "busy"      -> IF kind = "eager" THEN {"READY"} ELSE {}
      [] drv = "ready"     -> {"READY"}
      [] drv = "drq"       -> {"READY", "DATA_READY"}
      [] drv = "error"     -> {"READY", "ERROR"}

\* The poll is over: the bit was seen, or it has been waited for in vain, which a
\* drive that will answer in time does not let happen.
SlipNoTimeout(bit) == bit \in Status

Polled(bit) == bit \in Status \/ drv # "busy" \/ kind = "slow"

\* The driver is called and answers.
ata_init ==
    /\ pc = "init" /\ Polled("READY")
    /\ pc' = "idle"
    /\ UNCHANGED <<drive, kind, req, ret, buf>>

Call ==
    /\ pc = "idle"
    /\ pc' = "wait"
    /\ req' \in Request
    /\ ret' = "none" /\ buf' = NoData
    /\ UNCHANGED <<drive, kind>>

Return(how, what) ==
    /\ pc' = "idle" /\ req' = Nothing
    /\ ret' = how /\ buf' = what

-----------------------------------------------------------------------------
(* ata_read_sectors and ata_write_sectors                                   *)

SlipErrorCleared ==
    /\ pc = "wait" /\ Polled("READY")
    /\ pc' = "low"
    /\ UNCHANGED <<drive, kind, req, ret, buf>>

\* ata_wait_ready: a drive that has an error to report is not used again.
WaitReady ==
    /\ pc = "wait" /\ Polled("READY")
    /\ IF "ERROR" \in Status
         THEN Return("failed", NoData)
         ELSE pc' = "low" /\ UNCHANGED <<req, ret, buf>>
    /\ UNCHANGED <<drive, kind>>

\* A drive at work does not let its registers be written.
Listens == Present /\ drv \in {"ready", "error"}

SetLow ==
    /\ pc = "low" /\ pc' = "high"
    /\ reg' = IF Listens THEN [reg EXCEPT !.low = req.lba.low] ELSE reg
    /\ UNCHANGED <<medium, drv, job, kind, req, ret, buf>>

SetHigh ==
    /\ pc = "high" /\ pc' = "command"
    /\ reg' = IF Listens THEN [reg EXCEPT !.high = req.lba.high] ELSE reg
    /\ UNCHANGED <<medium, drv, job, kind, req, ret, buf>>

\* The command is taken with the address the registers hold, or not at all.
Command ==
    /\ pc = "command" /\ pc' = "data"
    /\ IF Listens
         THEN drv' = "busy" /\ job' = [op |-> req.op, lba |-> reg]
         ELSE UNCHANGED <<drv, job>>
    /\ UNCHANGED <<medium, reg, kind, req, ret, buf>>

\* The drive offers or expects the words the driver is about to move.
Answers == Present /\ drv = "drq" /\ job.op = req.op

DataFails ==
    /\ pc = "data" /\ Polled("DATA_READY")
    /\ "ERROR" \in Status
    /\ Return("failed", NoData)
    /\ UNCHANGED <<drive, kind>>

ReadData ==
    /\ pc = "data" /\ Polled("DATA_READY")
    /\ "ERROR" \notin Status
    /\ req.op = "read"
    /\ Return("ok", IF Answers THEN medium[job.lba] ELSE Junk)
    /\ IF Answers THEN drv' = "ready" /\ job' = Nothing ELSE UNCHANGED <<drv, job>>
    /\ UNCHANGED <<medium, reg, kind>>

WriteData ==
    /\ pc = "data" /\ Polled("DATA_READY")
    /\ "ERROR" \notin Status
    /\ req.op = "write"
    /\ pc' = "flush"
    /\ IF Answers
         THEN /\ drv' = "busy"
              /\ job' = [op |-> "store", lba |-> job.lba, data |-> req.data]
         ELSE UNCHANGED <<drv, job>>
    /\ UNCHANGED <<medium, reg, kind, req, ret, buf>>

SlipNotAwaited ==
    /\ pc = "flush"
    /\ Return("ok", NoData)
    /\ UNCHANGED <<drive, kind>>

\* The last poll's result is thrown away.
WriteEnds ==
    /\ pc = "flush" /\ Polled("READY")
    /\ Return("ok", NoData)
    /\ UNCHANGED <<drive, kind>>

Poll == ata_init \/ WaitReady \/ DataFails \/ ReadData \/ WriteData \/ WriteEnds
Driver == Poll \/ SetLow \/ SetHigh \/ Command

-----------------------------------------------------------------------------
(* The drive                                                                *)

Respond ==
    /\ drv = "busy" /\ job.op \in {"read", "write"}
    /\ drv' \in {"drq", "error"}
    /\ UNCHANGED <<medium, reg, job, kind, pc, req, ret, buf>>

StoreSector ==
    /\ drv = "busy" /\ job.op = "store"
    /\ \/ /\ medium' = [medium EXCEPT ![job.lba] = job.data]
          /\ drv' = "ready"
       \/ drv' = "error" /\ UNCHANGED medium
    /\ job' = Nothing
    /\ UNCHANGED <<reg, kind, pc, req, ret, buf>>

Drive == Respond \/ StoreSector

\* Power goes away and comes back; a sector that was on its way may have been
\* written.
AtaPowerCycle ==
    /\ \/ UNCHANGED medium
       \/ drv = "busy" /\ job.op = "store"
          /\ medium' = [medium EXCEPT ![job.lba] = job.data]
    /\ drv' = "ready" /\ job' = Nothing
    /\ pc' = "init" /\ req' = Nothing /\ ret' = "none" /\ buf' = NoData
    /\ UNCHANGED <<kind, reg>>

AtaNext == Call \/ Driver \/ Drive \/ AtaPowerCycle

\* The processor runs on and the drive gets its work done; nobody has to call.
AtaSpec == AtaInit /\ [][AtaNext]_ata /\ WF_ata(Driver) /\ WF_ata(Drive)

-----------------------------------------------------------------------------
(* What has to hold                                                         *)

Sound == kind = "sound"

\* Where a sound drive is when the driver is at each of its steps: free with the
\* right address when the command comes, at work on that command while the driver
\* polls, and done, or in error, when the driver answers.
Handshake ==
    /\ pc \in {"init", "idle", "wait"} => drv \in {"ready", "error"}
    /\ pc \in {"low", "high", "command"} => drv = "ready"
    /\ pc \in {"high", "command"} => reg.low = req.lba.low
    /\ pc = "command" => reg.high = req.lba.high
    /\ pc = "data" =>
           drv = "error" \/ (drv # "ready" /\ job = [op |-> req.op, lba |-> req.lba])
    /\ pc = "flush" =>
           \/ drv = "busy" /\ job = [op |-> "store", lba |-> req.lba, data |-> req.data]
           \/ drv \in {"ready", "error"} /\ job = Nothing

\* Types; that driver and drive are in step is the part that can go wrong, since
\* nothing but the polls keeps them so (ata.c:36-122).
AtaTypeOK ==
    /\ medium \in [Lba -> Data]
    /\ kind \in Drives
    /\ drv \in {"ready", "busy", "drq", "error"}
    /\ reg \in Lba /\ job \in Job
    /\ pc \in {"init", "idle", "wait", "low", "high", "command", "data", "flush"}
    /\ IF pc \in {"init", "idle"} THEN req = Nothing ELSE req \in Request
    /\ pc = "flush" => req.op = "write"
    /\ ret \in {"none", "ok", "failed"}
    /\ buf \in Data \cup {Junk, NoData}
    /\ Sound => Handshake

T == INSTANCE Transfers WITH
         health <- IF drv # "error" THEN "good"
                   ELSE IF pc \in {"data", "flush"} THEN "failing" ELSE "bad",
         stored <- pc = "flush" /\ drv = "ready"

\* With a sound drive a transfer is what the file system takes it for: a read
\* that succeeds gives what is on the disk, a write that succeeds is on the disk
\* unless it is the one that fails at its last step, and from then on until the
\* next power-on nothing is written (ata.c:18-21, 36-122).
IsTransfers == (Sound => T!Init) /\ [][Sound => T!Next]_(T!vars)

\* Whatever drive there is, or none, every call comes back: "Timeout protection
\* for disk I/O" (FAT32_IMPLEMENTATION.md:308).
CallEnds == (pc # "idle") ~> (pc = "idle")
=============================================================================
