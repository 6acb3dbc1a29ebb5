-------------------------------- MODULE Disk --------------------------------
(***************************************************************************)
(* What a disk driver promises: sectors are read and written whole, one    *)
(* call at a time, and a call returns after the disk has served it.  The   *)
(* disk may fail a call; then a write leaves the sector as it was, and a   *)
(* read answers anything, for the driver has no way to say so.  Of a drive *)
(* that is not of a trusted kind nothing is promised.  IDE implements it.  *)
(***************************************************************************)
CONSTANTS Sector, Data

VARIABLES trusted,      \* is the drive of a kind the driver can handle?
          disk,         \* the contents of the sectors
          call,         \* the call in hand, or the last one
          stage,        \* "idle", "asked", "ok", "failed"
          answer        \* what the last read returned

dvars == <<trusted, disk, call, stage, answer>>

Calls == [op : {"read"}, sector : Sector] \cup [op : {"write"}, sector : Sector, data : Data]

DInit ==
  /\ trusted \in BOOLEAN
  /\ disk \in [Sector -> Data]
  /\ stage = "idle" /\ answer \in Data

DAsk ==
  /\ stage = "idle" /\ stage' = "asked"
  /\ call' \in Calls
  /\ UNCHANGED <<disk, answer>>

DServe ==
  /\ stage = "asked" /\ stage' = "ok"
  /\ disk' = IF call.op = "write" THEN [disk EXCEPT ![call.sector] = call.data] ELSE disk
  /\ UNCHANGED <<call, answer>>

DFail ==
  /\ stage = "asked" /\ stage' = "failed"
  /\ UNCHANGED <<disk, call, answer>>

DReturn ==
  /\ stage \in {"ok", "failed"} /\ stage' = "idle"
  /\ answer' \in IF call.op = "write" THEN {answer}
                 ELSE IF stage = "ok" THEN {disk[call.sector]} ELSE Data
  /\ UNCHANGED <<disk, call>>

DNext ==
  /\ trusted => DAsk \/ DServe \/ DFail \/ DReturn
  /\ UNCHANGED trusted

DSpec == DInit /\ [][DNext]_dvars
=============================================================================
