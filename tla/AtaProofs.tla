----------------------------- MODULE AtaProofs -----------------------------
(***************************************************************************)
(* Proofs about Ata, for every disk, every address and every drive.        *)
(***************************************************************************)
EXTENDS Ata, TLAPS

-----------------------------------------------------------------------------
(* Driver and drive stay in step                                            *)

LEMMA InitTyped == AtaInit => AtaTypeOK
  BY AtaAssumption DEF AtaInit, AtaTypeOK, Handshake, Sound, Job, Nothing, Request

\* What the status shows of a sound drive, and when a poll of it ends.
LEMMA SoundPolls ==
    ASSUME AtaTypeOK, Sound
    PROVE  /\ Polled("READY") <=> drv # "busy"
           /\ Polled("DATA_READY") <=> drv # "busy"
           /\ "ERROR" \in Status <=> drv = "error"
           /\ Answers <=> drv = "drq" /\ job.op = req.op
           /\ Listens <=> drv \in {"ready", "error"}
<1>1. drv \in {"ready", "busy", "drq", "error"}
  BY DEF AtaTypeOK
<1> QED
  BY <1>1 DEF Sound, Polled, Status, Answers, Listens, Present

\* What the driver has in hand while it is called.
LEMMA RequestShape ==
    ASSUME AtaTypeOK, pc \notin {"init", "idle"}
    PROVE  /\ req \in Request /\ req # Nothing /\ req.lba \in Lba
           /\ req.op \in {"read", "write"}
           /\ req.op = "write" => req.data \in Data
  BY DEF AtaTypeOK, Request, Nothing

LEMMA CallTyped == ASSUME AtaTypeOK, Call PROVE AtaTypeOK'
<1>1. Handshake' \/ ~Sound'
  BY DEF AtaTypeOK, Call, Handshake, drive, Sound
<1> QED
  BY <1>1 DEF AtaTypeOK, Call, drive

LEMMA InitCallTyped == ASSUME AtaTypeOK, ata_init PROVE AtaTypeOK'
<1>1. Sound => Handshake'
  BY DEF AtaTypeOK, ata_init, Handshake, drive
<1> QED
  BY <1>1 DEF AtaTypeOK, ata_init, drive, Sound, Nothing

LEMMA WaitReadyTyped == ASSUME AtaTypeOK, WaitReady PROVE AtaTypeOK'
<1>1. Sound => Handshake'
  BY SoundPolls DEF AtaTypeOK, WaitReady, Return, Handshake, drive
<1> QED
  BY <1>1 DEF AtaTypeOK, WaitReady, Return, drive, Sound

LEMMA SetLowTyped == ASSUME AtaTypeOK, SetLow PROVE AtaTypeOK'
<1>1. req.lba \in Lba /\ reg \in Lba
  BY RequestShape DEF SetLow, AtaTypeOK
<1>2. reg' \in Lba
  BY <1>1 DEF SetLow, Lba
<1>3. Sound => Handshake'
  BY <1>1, SoundPolls DEF AtaTypeOK, SetLow, Handshake, Lba
<1> QED
  BY <1>2, <1>3 DEF AtaTypeOK, SetLow, Sound

LEMMA SetHighTyped == ASSUME AtaTypeOK, SetHigh PROVE AtaTypeOK'
<1>1. req.lba \in Lba /\ reg \in Lba
  BY RequestShape DEF SetHigh, AtaTypeOK
<1>2. reg' \in Lba
  BY <1>1 DEF SetHigh, Lba
<1>3. Sound => Handshake'
  BY <1>1, SoundPolls DEF AtaTypeOK, SetHigh, Handshake, Lba
<1> QED
  BY <1>2, <1>3 DEF AtaTypeOK, SetHigh, Sound

LEMMA CommandTyped == ASSUME AtaTypeOK, Command PROVE AtaTypeOK'
<1>1. req.lba \in Lba /\ reg \in Lba /\ req.op \in {"read", "write"}
  BY RequestShape DEF Command, AtaTypeOK
<1>2. job' \in Job /\ drv' \in {"ready", "busy", "drq", "error"}
  BY <1>1 DEF Command, Job, AtaTypeOK
<1>3. Sound => reg = req.lba
  BY <1>1 DEF AtaTypeOK, Command, Handshake, Lba
<1>4. Sound => Handshake'
  BY <1>3, SoundPolls DEF AtaTypeOK, Command, Handshake
<1> QED
  BY <1>2, <1>4 DEF AtaTypeOK, Command, Sound

LEMMA DataTyped ==
    ASSUME AtaTypeOK, DataFails \/ ReadData \/ WriteEnds PROVE AtaTypeOK'
<1>1. Answers => job.lba \in Lba
  BY RequestShape DEF Answers, AtaTypeOK, Job, Nothing, Request, DataFails, ReadData,
         WriteEnds
<1>2. buf' \in Data \cup {Junk, NoData}
  BY <1>1 DEF DataFails, ReadData, WriteEnds, Return, AtaTypeOK
<1>3. job' \in Job /\ drv' \in {"ready", "busy", "drq", "error"}
  BY DEF DataFails, ReadData, WriteEnds, AtaTypeOK, Job, drive
<1>4. Sound => Handshake'
  BY SoundPolls DEF AtaTypeOK, DataFails, ReadData, WriteEnds, Return, Handshake, drive
<1> QED
  BY <1>2, <1>3, <1>4 DEF AtaTypeOK, DataFails, ReadData, WriteEnds, Return, drive, Sound

LEMMA WriteDataTyped == ASSUME AtaTypeOK, WriteData PROVE AtaTypeOK'
<1>1. req.data \in Data
  BY RequestShape DEF WriteData
<1>2. Answers => job.lba \in Lba
  BY RequestShape DEF Answers, AtaTypeOK, Job, Nothing, WriteData
<1>3. job' \in Job /\ drv' \in {"ready", "busy", "drq", "error"}
  BY <1>1, <1>2 DEF WriteData, AtaTypeOK, Job
<1>4. Sound => Handshake'
  BY SoundPolls DEF AtaTypeOK, WriteData, Handshake
<1> QED
  BY <1>3, <1>4 DEF AtaTypeOK, WriteData, Sound

LEMMA DriveTyped == ASSUME AtaTypeOK, Drive PROVE AtaTypeOK'
<1>1. medium' \in [Lba -> Data]
  BY DEF AtaTypeOK, Drive, Respond, StoreSector, Job, Nothing
<1>2. job' \in Job /\ drv' \in {"ready", "busy", "drq", "error"}
  BY DEF AtaTypeOK, Drive, Respond, StoreSector, Job
<1>3. Sound => Handshake'
  BY RequestShape DEF AtaTypeOK, Drive, Respond, StoreSector, Handshake, Nothing
<1> QED
  BY <1>1, <1>2, <1>3 DEF AtaTypeOK, Drive, Respond, StoreSector, Sound

LEMMA PowerTyped == ASSUME AtaTypeOK, AtaPowerCycle PROVE AtaTypeOK'
<1>1. medium' \in [Lba -> Data]
  BY DEF AtaTypeOK, AtaPowerCycle, Job, Nothing
<1>2. Handshake'
  BY DEF AtaPowerCycle, Handshake
<1> QED
  BY <1>1, <1>2 DEF AtaTypeOK, AtaPowerCycle, Job

LEMMA NextTyped == AtaTypeOK /\ [AtaNext]_ata => AtaTypeOK'
<1> SUFFICES ASSUME AtaTypeOK, [AtaNext]_ata PROVE AtaTypeOK'
  OBVIOUS
<1>1. CASE UNCHANGED ata
  BY <1>1 DEF AtaTypeOK, Handshake, Sound, ata
<1>2. CASE Call
  BY <1>2, CallTyped
<1>3. CASE ata_init \/ WaitReady
  BY <1>3, InitCallTyped, WaitReadyTyped
<1>4. CASE SetLow \/ SetHigh \/ Command
  BY <1>4, SetLowTyped, SetHighTyped, CommandTyped
<1>5. CASE DataFails \/ ReadData \/ WriteEnds
  BY <1>5, DataTyped
<1>6. CASE WriteData
  BY <1>6, WriteDataTyped
<1>7. CASE Drive \/ AtaPowerCycle
  BY <1>7, DriveTyped, PowerTyped
<1> QED
  BY <1>1, <1>2, <1>3, <1>4, <1>5, <1>6, <1>7 DEF AtaNext, Driver, Poll

\* A sound drive is free, and has the right address, whenever a command is sent,
\* and is at work on that command while it is polled (ata.c:36-122).
THEOREM TypeCorrect == AtaSpec => []AtaTypeOK
  BY InitTyped, NextTyped, PTL DEF AtaSpec

-----------------------------------------------------------------------------
(* A transfer is what the file system takes it for                          *)

Health == IF drv # "error" THEN "good"
          ELSE IF pc \in {"data", "flush"} THEN "failing" ELSE "bad"
Stored == pc = "flush" /\ drv = "ready"

LEMMA InitMaps == AtaInit => T!Init
  BY AtaAssumption DEF AtaInit, T!Init, T!Nothing, Nothing

\* The health the drive and the place of the driver stand for.
LEMMA HealthCases ==
    /\ T!Good <=> Health = "good" /\ req.op = "read" /\ T!Answer("ok", medium[req.lba])
    /\ T!Lost <=> Health = "failing" /\ req.op = "write" /\ T!Answer("ok", NoData)
    /\ T!Done <=> Stored /\ T!Answer("ok", NoData)
    /\ T!Refused <=> Health # "good" /\ T!Answer("failed", NoData)
  BY DEF T!Good, T!Lost, T!Done, T!Refused, Health, Stored

LEMMA AnswerMaps ==
    ASSUME NEW how, NEW what, req # Nothing, Return(how, what), UNCHANGED medium,
           pc # "init", drv' = "error" <=> drv = "error", drv = "error" => pc # "idle"
    PROVE  T!Answer(how, what)
<1>1. Stored' = FALSE
  BY DEF Return, Stored
<1>2. Health' = IF Health = "failing" THEN "bad" ELSE Health
  BY DEF Return, Health
<1> QED
  BY <1>1, <1>2 DEF T!Answer, T!Nothing, Nothing, Return, Health, Stored

LEMMA CallMaps == ASSUME AtaTypeOK, Sound, Call PROVE T!Ask
<1>1. req = Nothing
  BY DEF AtaTypeOK, Call
<1>2. Health' = Health /\ Stored' = Stored
  BY DEF Call, Health, Stored, drive
<1> QED
  BY <1>1, <1>2 DEF Call, drive, T!Ask, T!Nothing, T!Request, Nothing, Request,
         Health, Stored

\* Registers and polls that let the driver go on are invisible.
LEMMA StutterMaps ==
    ASSUME AtaTypeOK, Sound,
           \/ ata_init \/ SetLow \/ SetHigh \/ Command \/ WriteData
           \/ WaitReady /\ drv # "error"
           \/ Respond /\ drv' = "drq"
    PROVE  UNCHANGED T!vars
<1>1. Handshake
  BY DEF AtaTypeOK
<1>2. UNCHANGED <<medium, req, ret, buf>>
  BY SoundPolls DEF ata_init, SetLow, SetHigh, Command, WriteData, WaitReady, Respond,
         drive
<1>3. UNCHANGED Stored
  BY <1>1, SoundPolls DEF ata_init, SetLow, SetHigh, Command, WriteData, WaitReady,
         Respond, drive, Stored, Handshake
<1>4. UNCHANGED Health
  BY <1>1, SoundPolls DEF ata_init, SetLow, SetHigh, Command, WriteData, WaitReady,
         Respond, drive, Health, Handshake
<1> QED
  BY <1>2, <1>3, <1>4 DEF T!vars, Health, Stored

LEMMA RefusedMaps ==
    ASSUME AtaTypeOK, Sound, (WaitReady /\ drv = "error") \/ DataFails
    PROVE  T!Refused
<1>1. req # Nothing /\ drv = "error" /\ Return("failed", NoData) /\ UNCHANGED drive
  BY SoundPolls, RequestShape DEF WaitReady, DataFails
<1>2. pc \in {"wait", "data"}
  BY DEF WaitReady, DataFails
<1>3. T!Answer("failed", NoData)
  BY <1>1, <1>2, AnswerMaps DEF drive
<1> QED
  BY <1>1, <1>3, HealthCases DEF Health

LEMMA ReadMaps == ASSUME AtaTypeOK, Sound, ReadData PROVE T!Good
<1>1. req # Nothing /\ drv = "drq" /\ job.op = req.op /\ job.lba = req.lba
  BY SoundPolls, RequestShape DEF ReadData, AtaTypeOK, Handshake
<1>2. Return("ok", medium[req.lba]) /\ drv' = "ready" /\ UNCHANGED medium
  BY <1>1, SoundPolls DEF ReadData
<1>3. T!Answer("ok", medium[req.lba])
  BY <1>1, <1>2, AnswerMaps DEF ReadData
<1> QED
  BY <1>1, <1>3, HealthCases DEF ReadData, Health

LEMMA WriteEndsMaps ==
    ASSUME AtaTypeOK, Sound, WriteEnds PROVE T!Done \/ T!Lost
<1>1. drv \in {"ready", "error"} /\ req # Nothing /\ req.op = "write"
  BY SoundPolls, RequestShape DEF WriteEnds, AtaTypeOK, Handshake
<1>2. T!Answer("ok", NoData)
  BY <1>1, AnswerMaps DEF WriteEnds, drive
<1> QED
  BY <1>1, <1>2, HealthCases DEF WriteEnds, Health, Stored

LEMMA FailMaps ==
    ASSUME AtaTypeOK, Sound, Drive, drv' = "error" PROVE T!Fail
<1>1. pc \in {"data", "flush"} /\ drv = "busy" /\ req # Nothing
  BY RequestShape DEF Drive, Respond, StoreSector, AtaTypeOK, Handshake
<1>2. UNCHANGED <<medium, req, ret, buf, pc>>
  BY DEF Drive, Respond, StoreSector
<1> QED
  BY <1>1, <1>2 DEF T!Fail, T!Nothing, Nothing

LEMMA StoreMaps ==
    ASSUME AtaTypeOK, Sound, StoreSector, drv' # "error" PROVE T!Store
<1>1. pc \in {"data", "flush"} /\ drv = "busy"
  BY DEF StoreSector, AtaTypeOK, Handshake
<1>2. pc = "flush"
  BY <1>1, RequestShape DEF StoreSector, AtaTypeOK, Handshake
<1>3. job.lba = req.lba /\ job.data = req.data /\ req.op = "write"
  BY <1>1, <1>2 DEF AtaTypeOK, Handshake
<1> QED
  BY <1>1, <1>2, <1>3 DEF StoreSector, T!Store

LEMMA PowerMaps == ASSUME AtaTypeOK, Sound, AtaPowerCycle PROVE T!PowerCycle
<1>1. CASE UNCHANGED medium
  BY <1>1 DEF AtaPowerCycle, T!PowerCycle, T!Nothing, Nothing
<1>2. CASE ~UNCHANGED medium
  <2>1. drv = "busy" /\ job.op = "store"
        /\ medium' = [medium EXCEPT ![job.lba] = job.data]
    BY <1>2 DEF AtaPowerCycle
  <2>2. pc = "flush"
    BY <2>1, RequestShape DEF AtaTypeOK, Handshake
  <2>3. job.lba = req.lba /\ job.data = req.data /\ req.op = "write"
    BY <2>1, <2>2 DEF AtaTypeOK, Handshake
  <2> QED
    BY <2>1, <2>3 DEF AtaPowerCycle, T!PowerCycle, T!Nothing, Nothing
<1> QED
  BY <1>1, <1>2

LEMMA NextMaps ==
    AtaTypeOK /\ [AtaNext]_ata => [Sound => T!Next]_(T!vars)
<1> SUFFICES ASSUME AtaTypeOK, [AtaNext]_ata, Sound PROVE T!Next \/ UNCHANGED T!vars
  OBVIOUS
<1>1. CASE UNCHANGED ata
  BY <1>1 DEF ata, T!vars
<1>2. CASE Call
  BY <1>2, CallMaps DEF T!Next
<1>3. CASE ata_init \/ SetLow \/ SetHigh \/ Command \/ WriteData
  BY <1>3, StutterMaps
<1>4. CASE WaitReady
  BY <1>4, StutterMaps, RefusedMaps DEF T!Next
<1>5. CASE DataFails
  BY <1>5, RefusedMaps DEF T!Next
<1>6. CASE ReadData
  BY <1>6, ReadMaps DEF T!Next
<1>7. CASE WriteEnds
  BY <1>7, WriteEndsMaps DEF T!Next
<1>8. CASE Drive
  <2>1. CASE drv' = "error"
    BY <1>8, <2>1, FailMaps DEF T!Next
  <2>2. CASE drv' # "error" /\ StoreSector
    BY <2>2, StoreMaps DEF T!Next
  <2>3. CASE drv' # "error" /\ Respond
    BY <2>3, StutterMaps DEF Respond
  <2> QED
    BY <1>8, <2>1, <2>2, <2>3 DEF Drive
<1>9. CASE AtaPowerCycle
  BY <1>9, PowerMaps DEF T!Next
<1> QED
  BY <1>1, <1>2, <1>3, <1>4, <1>5, <1>6, <1>7, <1>8, <1>9 DEF AtaNext, Driver, Poll

\* With a sound drive the driver implements Transfers: what a read gives, what a
\* write leaves, and that nothing is written after an error until the next
\* power-on (ata.c:18-21, 36-122).
THEOREM TransfersImplemented == AtaSpec => IsTransfers
<1>1. AtaInit => (Sound => T!Init)
  BY InitMaps
<1>2. AtaTypeOK /\ [AtaNext]_ata => [Sound => T!Next]_(T!vars)
  BY NextMaps
<1> QED
  BY <1>1, <1>2, TypeCorrect, PTL DEF AtaSpec, IsTransfers
=============================================================================
