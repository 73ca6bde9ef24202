----------------------------- MODULE Transfers -----------------------------
(***************************************************************************)
(* What a disk promises the file system, one sector a transfer.            *)
(*                                                                         *)
(* A transfer is asked for and answered.  A read that is answered "ok"     *)
(* gives what is on the disk, a write that is answered "ok" is on the      *)
(* disk, and a transfer that is answered "failed" has left the disk as it  *)
(* was.  There is one way out: a write that fails after its data has been  *)
(* handed over may be answered "ok".  From the first failure on nothing    *)
(* is written and everything is refused, until the next power-on; so at    *)
(* most one write is lost without notice.                                  *)
(***************************************************************************)
CONSTANTS Lba, Data, NoData

VARIABLES
    medium,     \* the sectors
    health,     \* "good", "failing" in this transfer, "bad" since an earlier one
    stored,     \* the write under way is on the disk
    req,        \* the transfer under way, or Nothing
    ret,        \* how the last one was answered
    buf         \* and what it read

vars == <<medium, health, stored, req, ret, buf>>

Nothing  == [op |-> "none"]
Request  == [op : {"read"}, lba : Lba] \cup [op : {"write"}, lba : Lba, data : Data]

Init ==
    /\ medium \in [Lba -> Data]
    /\ health = "good" /\ stored = FALSE
    /\ req = Nothing /\ ret = "none" /\ buf = NoData

Ask ==
    /\ req = Nothing
    /\ req' \in Request
    /\ ret' = "none" /\ buf' = NoData
    /\ UNCHANGED <<medium, health, stored>>

Store ==
    /\ req.op = "write" /\ health = "good" /\ ~stored
    /\ medium' = [medium EXCEPT ![req.lba] = req.data]
    /\ stored' = TRUE
    /\ UNCHANGED <<health, req, ret, buf>>

Fail ==
    /\ req # Nothing /\ health = "good" /\ ~stored
    /\ health' = "failing"
    /\ UNCHANGED <<medium, stored, req, ret, buf>>

Answer(how, what) ==
    /\ req # Nothing
    /\ req' = Nothing /\ ret' = how /\ buf' = what
    /\ stored' = FALSE
    /\ health' = IF health = "failing" THEN "bad" ELSE health
    /\ UNCHANGED medium

Good == health = "good" /\ req.op = "read" /\ Answer("ok", medium[req.lba])
Done == stored /\ Answer("ok", NoData)
Lost == health = "failing" /\ req.op = "write" /\ Answer("ok", NoData)
Refused == health # "good" /\ Answer("failed", NoData)

\* A write that is cut off may or may not have reached the disk.
PowerCycle ==
    /\ \/ UNCHANGED medium
       \/ /\ req.op = "write" /\ health = "good"
          /\ medium' = [medium EXCEPT ![req.lba] = req.data]
    /\ health' = "good" /\ stored' = FALSE
    /\ req' = Nothing /\ ret' = "none" /\ buf' = NoData

Next == Ask \/ Store \/ Fail \/ Good \/ Done \/ Lost \/ Refused \/ PowerCycle

Spec == Init /\ [][Next]_vars
=============================================================================
