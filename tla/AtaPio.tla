------------------------------- MODULE AtaPio -------------------------------
(***************************************************************************)
(* The disk driver of kernel/disk/PIO.c: commands are written to the ports *)
(* of an ATA channel, and its status is polled until data can be moved.    *)
(*                                                                         *)
(* The driver gives up after a number of polls, but the drive does not     *)
(* know: it may answer later, with a command of another call under way.    *)
(* Every poll is a step, and so is every answer of a drive.                *)
(*                                                                         *)
(* The channels and drives are external.  A channel whose drive is busy    *)
(* ignores what is written to it; a command that it accepts ends a         *)
(* transfer that was waiting.  A command makes the drive busy before the   *)
(* status can be read: reading a port takes longer than the 400 ns a drive *)
(* has for that.                                                           *)
(***************************************************************************)
EXTENDS Integers, Sequences, SequencesExt, FiniteSetsExt

CONSTANTS
  BYTE,                 \* values of a byte
  POLLS,                \* polls before the driver gives up
  Machines,             \* what can be connected: of each drive its kind
                        \* ("disk", "packet", "none") and number of sectors
  Lbas, Counts,         \* what the callers ask for
  Values                \* what a sector can hold

ASSUME PollsAssumption == POLLS \in Nat \ {0} /\ BYTE \in Nat \ {0, 1}

(* Disks 0 and 1 are on the primary channel, 2 and 3 on the second.        *)
DiskNumbers == 0 .. 3
Ports == {"PRIMARY", "SECOND"}
DiskOf(p, drive) == IF p = "PRIMARY" THEN drive ELSE 2 + drive

(* A sector's number has 48 bits, a count of sectors 16.                   *)
WORD == BYTE * BYTE

ASSUME CallsAssumption ==
  /\ Lbas \subseteq 0 .. (WORD * WORD * WORD - 1)
  /\ Counts \subseteq 0 .. (WORD - 1)
  /\ Values \subseteq Nat /\ Values # {}

ASSUME DriveAssumption ==
  \A m \in Machines : \A d \in DiskNumbers :
    m[d].kind \in {"disk", "packet", "none"} /\ m[d].size \in Nat

VARIABLES
  chan,                 \* the channels: registers, status and command
  drives,               \* their kind, size, and what their sectors hold
  pc,                   \* where the driver is
  call,                 \* the call that runs, and history: whether the
                        \* channel was free when it began
  polls,                \* polls so far in the loop it is in
  i,                    \* sectors moved
  buf,                  \* the caller's memory
  ret                   \* the result

vars == <<chan, drives, pc, call, polls, i, buf, ret>>
driverVars == <<pc, call, polls, i, buf, ret>>

-----------------------------------------------------------------------------
(* Channels and drives (external)                                          *)

NoJob == [cmd |-> "none", lba |-> 0, left |-> 0]

(* A register that takes two bytes keeps the one written before.           *)
FreeChannel ==
  [drive |-> 0, bsy |-> FALSE, drq |-> FALSE, err |-> FALSE, job |-> NoJob,
   regs |-> [r \in {"SEC", "LBALO", "LBAMID", "LBAHI"} |-> << 0, 0 >>]]

KindAt(p) == drives[DiskOf(p, chan[p].drive)].kind

(* Nobody drives the lines of an empty channel; a drive that is not there  *)
(* next to one that is shows no bit.                                       *)
Status(p) ==
  IF \A d \in {0, 1} : drives[DiskOf(p, d)].kind = "none"
    THEN [bsy |-> TRUE, drq |-> TRUE, err |-> TRUE, zero |-> FALSE]
  ELSE IF KindAt(p) = "none"
    THEN [bsy |-> FALSE, drq |-> FALSE, err |-> FALSE, zero |-> TRUE]
    ELSE [bsy |-> chan[p].bsy, drq |-> chan[p].drq, err |-> chan[p].err,
          zero |-> FALSE]

(* The number that six registers hold                                      *)
LbaOf(regs) ==
  regs.LBALO[2] + BYTE * (regs.LBAMID[2] + BYTE * (regs.LBAHI[2]
  + BYTE * (regs.LBALO[1] + BYTE * (regs.LBAMID[1] + BYTE * regs.LBAHI[1]))))

(* The number of sectors that a register asks for                          *)
SectorsOf(sec) == LET n == sec[2] + BYTE * sec[1] IN IF n = 0 THEN WORD ELSE n

Accept(ch, p, cmd) ==
  IF drives[DiskOf(p, ch.drive)].kind = "none" THEN ch
  ELSE [ch EXCEPT !.bsy = TRUE, !.drq = FALSE, !.err = FALSE,
                  !.job = [cmd |-> cmd, lba |-> LbaOf(ch.regs),
                           left |-> IF cmd = "IDENTIFY" THEN 1
                                    ELSE SectorsOf(ch.regs.SEC)]]

(* A register after some bytes were written to it, one after the other     *)
Latched(old, bytes) ==
  LET all == old \o bytes IN << all[Len(all) - 1], all[Len(all)] >>

(* What is written to a channel: the drive, the other registers, at last   *)
(* the command                                                             *)
outbDrive(ch, w) == IF ch.bsy THEN ch ELSE [ch EXCEPT !.drive = w.drive]

outbRegisters(ch, w) ==
  IF ch.bsy THEN ch
  ELSE [ch EXCEPT !.regs = [r \in DOMAIN @ |-> Latched(@[r], w.bytes[r])]]

outbCommand(ch, p, w) == IF ch.bsy THEN ch ELSE Accept(ch, p, w.cmd)

(* A drive is done with what made it busy: data can be moved, it reports   *)
(* an error, or it reports nothing (a fault).  A packet drive answers with *)
(* an error and its signature.                                             *)
Answer(p) ==
  LET ch == chan[p]
      moves == /\ KindAt(p) = "disk"
               /\ \/ ch.job.cmd = "IDENTIFY"
                  \/ ch.job.left > 0 /\ ch.job.lba < drives[DiskOf(p, ch.drive)].size
  IN  /\ ch.bsy
      /\ \/ moves /\ chan' = [chan EXCEPT ![p].bsy = FALSE, ![p].drq = TRUE]
         \/ chan' = [chan EXCEPT ![p].bsy = FALSE]
         \/ /\ KindAt(p) = "disk"
            /\ chan' = [chan EXCEPT ![p].bsy = FALSE, ![p].err = TRUE]
         \/ /\ KindAt(p) = "packet"
            /\ chan' = [chan EXCEPT ![p].bsy = FALSE, ![p].err = TRUE,
                                    ![p].regs.LBAMID = << 0, 1 >>,
                                    ![p].regs.LBAHI = << 0, 1 >>]
      /\ UNCHANGED <<drives, driverVars>>

(* The data that is read, known by what it is; noise when there is none    *)
DataAt(p) ==
  LET ch == chan[p]
      d == DiskOf(p, ch.drive)
  IN  IF ~ch.drq THEN [of |-> "noise", disk |-> d, lba |-> 0, value |-> 0]
      ELSE IF ch.job.cmd = "IDENTIFY" THEN [of |-> "identity", disk |-> d, lba |-> 0, value |-> 0]
      ELSE [of |-> "sector", disk |-> d, lba |-> ch.job.lba, value |-> drives[d].data[ch.job.lba]]

(* A sector has been moved; the drive turns to the next one.               *)
Moved(ch) ==
  [ch EXCEPT !.drq = FALSE, !.bsy = (@ \/ ch.job.cmd = "WRITE" \/ ch.job.left > 1),
             !.job = IF ch.job.cmd = "WRITE" \/ ch.job.left > 1
                       THEN [ch.job EXCEPT !.lba = @ + 1, !.left = @ - 1] ELSE NoJob]

-----------------------------------------------------------------------------
(* The driver                                                              *)

NoCall == [fn |-> "none", disk |-> 0, lba |-> 0, count |-> 0, value |-> 0, free |-> TRUE]

Init ==
  /\ chan = [p \in Ports |-> FreeChannel]
  /\ \E m \in Machines :
       drives = [d \in DiskNumbers |->
                   [kind |-> m[d].kind, size |-> m[d].size,
                    data |-> [lba \in 0 .. (m[d].size - 1) |-> Min(Values)]]]
  /\ pc = "idle"
  /\ call = NoCall
  /\ polls = 0
  /\ i = 0
  /\ buf = << >>
  /\ ret = FALSE

PortOf(d) == IF d >= 2 THEN "SECOND" ELSE "PRIMARY"

port == PortOf(call.disk)

(* A number shifted to the right by a byte, and by k of them               *)
High(n) == n \div BYTE

Shifted(n, k) ==
  CASE k = 0 -> n [] k = 1 -> High(n) [] k = 2 -> High(High(n))
    [] k = 3 -> High(High(High(n))) [] k = 4 -> High(High(High(High(n))))
    [] k = 5 -> High(High(High(High(High(n)))))

Byte(n, k) == Shifted(n, k) % BYTE

(* The writes of a command: of each register the high byte goes first.     *)
CommandLowFirst(d, lba, count, cmd) ==
  [drive |-> d % 2, cmd |-> cmd,
   bytes |-> [SEC |-> << Byte(count, 0), Byte(count, 1) >>,
              LBALO |-> << Byte(lba, 0), Byte(lba, 3) >>,
              LBAMID |-> << Byte(lba, 1), Byte(lba, 4) >>,
              LBAHI |-> << Byte(lba, 2), Byte(lba, 5) >>]]

Command(d, lba, count, cmd) ==
  [drive |-> d % 2, cmd |-> cmd,
   bytes |-> [SEC |-> << Byte(count, 1), Byte(count, 0) >>,
              LBALO |-> << Byte(lba, 3), Byte(lba, 0) >>,
              LBAMID |-> << Byte(lba, 4), Byte(lba, 1) >>,
              LBAHI |-> << Byte(lba, 5), Byte(lba, 2) >>]]

Identify ==
  [drive |-> 0, cmd |-> "IDENTIFY",
   bytes |-> [r \in {"SEC", "LBALO", "LBAMID", "LBAHI"} |-> << 0 >>]]

(* A call begins.  disk_probe() does not look whether the channel is busy. *)
Begin(fn, d, lba, count, value) ==
  /\ pc = "idle"
  /\ call' = [fn |-> fn, disk |-> d, lba |-> lba, count |-> count, value |-> value,
              free |-> ~chan[PortOf(d)].bsy]
  /\ pc' = IF fn = "disk_probe" THEN "select" ELSE "ready"
  /\ polls' = 0
  /\ i' = 0
  /\ buf' = << >>
  /\ ret' = FALSE
  /\ UNCHANGED <<chan, drives>>

disk_probe == Begin("disk_probe", 0, 0, 1, Min(Values))
disk_read_sector(d, lba) == Begin("disk_read_sector", d, lba, 1, Min(Values))
readsectorpio(d, lba, n) == Begin("readsectorpio", d, lba, n, Min(Values))
writesectorpio(d, lba, n, v) == Begin("writesectorpio", d, lba, n, v)

(* readsectorpio() and writesectorpio() wait for ever.                     *)
GivesUp == call.fn \in {"disk_probe", "disk_read_sector"}

Return(result) == pc' = "idle" /\ ret' = result /\ polls' = 0

(* A poll that was not the one waited for                                  *)
PollAgainUncounted == UNCHANGED <<pc, ret, polls>>

PollAgain ==
  \/ ~GivesUp /\ UNCHANGED <<pc, ret, polls>>
  \/ GivesUp /\ polls + 1 < POLLS /\ polls' = polls + 1 /\ UNCHANGED <<pc, ret>>
  \/ GivesUp /\ polls + 1 >= POLLS /\ Return(FALSE)

ata_wait_not_busy(from, to) ==
  /\ pc = from
  /\ IF Status(port).bsy THEN PollAgain
     ELSE pc' = to /\ polls' = 0 /\ UNCHANGED ret
  /\ UNCHANGED <<chan, drives, call, i, buf>>

(* The functions that wait for ever do not look at the error bit.          *)
ata_wait_drq_or_idle ==
  /\ pc = "drq"
  /\ IF GivesUp /\ Status(port).err THEN Return(FALSE)
     ELSE IF ~Status(port).bsy THEN pc' = "move" /\ polls' = 0 /\ UNCHANGED ret
     ELSE PollAgain
  /\ UNCHANGED <<chan, drives, call, i, buf>>

ata_wait_drq ==
  /\ pc = "drq"
  /\ IF GivesUp /\ Status(port).err THEN Return(FALSE)
     ELSE IF Status(port).drq /\ (GivesUp => ~Status(port).bsy)
       THEN pc' = "move" /\ polls' = 0 /\ UNCHANGED ret
     ELSE PollAgain
  /\ UNCHANGED <<chan, drives, call, i, buf>>

(* All writes of a command are one step: the channel was seen not busy, and *)
(* does not become so by itself.  The loop over no sectors ends at once,   *)
(* but a drive takes a count of 0 for the greatest there is.               *)
IssueWriteLowFirst ==
  /\ pc = "issue"
  /\ LET w == IF call.fn = "writesectorpio"
                THEN CommandLowFirst(call.disk, call.lba, call.count, "WRITE")
                ELSE Command(call.disk, call.lba, call.count, "READ")
     IN  chan' = [chan EXCEPT ![port] =
                    outbCommand(outbRegisters(outbDrive(@, w), w), port, w)]
  /\ IF call.count = 0 THEN Return(TRUE) ELSE pc' = "busy" /\ UNCHANGED <<ret, polls>>
  /\ UNCHANGED <<drives, call, i, buf>>

Issue ==
  /\ pc = "issue"
  /\ LET w == Command(call.disk, call.lba, call.count,
                      IF call.fn = "writesectorpio" THEN "WRITE" ELSE "READ")
     IN  chan' = [chan EXCEPT ![port] =
                    outbCommand(outbRegisters(outbDrive(@, w), w), port, w)]
  /\ IF call.count = 0 THEN Return(TRUE) ELSE pc' = "busy" /\ UNCHANGED <<ret, polls>>
  /\ UNCHANGED <<drives, call, i, buf>>

(* disk_probe() does not wait first: a drive may answer between its writes. *)
ProbeWrites ==
  /\ \/ /\ pc = "select" /\ pc' = "clear"
        /\ chan' = [chan EXCEPT ![port] = outbDrive(@, Identify)]
     \/ /\ pc = "clear" /\ pc' = "identify"
        /\ chan' = [chan EXCEPT ![port] = outbRegisters(@, Identify)]
     \/ /\ pc = "identify" /\ pc' = "sense"
        /\ chan' = [chan EXCEPT ![port] = outbCommand(@, port, Identify)]
  /\ UNCHANGED <<drives, call, polls, i, buf, ret>>

(* disk_probe(): no drive shows itself by an empty status, a packet drive  *)
(* by its signature.                                                       *)
Sense ==
  /\ pc = "sense"
  /\ IF Status(port).zero THEN Return(FALSE) ELSE pc' = "busy" /\ UNCHANGED <<ret, polls>>
  /\ UNCHANGED <<chan, drives, call, i, buf>>

CheckSignature ==
  /\ pc = "signature"
  /\ IF chan[port].regs.LBAMID[2] # 0 \/ chan[port].regs.LBAHI[2] # 0
       THEN Return(FALSE)
       ELSE pc' = "drq" /\ UNCHANGED <<ret, polls>>
  /\ UNCHANGED <<chan, drives, call, i, buf>>

(* disk_probe() takes the number of sectors from what it has read; a disk  *)
(* without sectors is none.  A sector in place of an identity gives any    *)
(* number.                                                                 *)
ProbeResults(data) ==
  IF data.of = "identity" THEN {drives[data.disk].size # 0} ELSE BOOLEAN

(* The words of a sector are moved.  What a drive has been given counts as *)
(* stored: the driver does not look whether the drive could store it.      *)
StoreAt(d, lba, v) == drives' = [drives EXCEPT ![d].data[lba] = v]

MoveSector ==
  /\ pc = "move"
  /\ IF call.fn = "writesectorpio"
       THEN /\ StoreAt(DiskOf(port, chan[port].drive), chan[port].job.lba, call.value)
            /\ UNCHANGED buf
       ELSE buf' = Append(buf, DataAt(port)) /\ UNCHANGED drives
  /\ chan' = [chan EXCEPT ![port] = Moved(@)]
  /\ i' = i + 1
  /\ IF i + 1 < call.count
       THEN pc' = "busy" /\ UNCHANGED <<ret, polls>>
       ELSE \E result \in IF call.fn = "disk_probe" THEN ProbeResults(DataAt(port))
                          ELSE {TRUE} : Return(result)
  /\ UNCHANGED call

driver ==
  \/ ata_wait_not_busy("ready", "issue")
  \/ Issue
  \/ ProbeWrites
  \/ Sense
  \/ ata_wait_not_busy("busy", IF call.fn = "disk_probe" THEN "signature" ELSE "drq")
  \/ CheckSignature
  \/ ata_wait_drq
  \/ MoveSector

Next ==
  \/ disk_probe
  \/ \E d \in DiskNumbers, lba \in Lbas :
       \/ disk_read_sector(d, lba)
       \/ \E n \in Counts :
            \/ readsectorpio(d, lba, n)
            \/ \E v \in Values : writesectorpio(d, lba, n, v)
  \/ driver
  \/ \E p \in Ports : Answer(p)

Spec == Init /\ [][Next]_vars

(* The driver goes on; nothing is assumed of the drives.                   *)
FairSpec == Spec /\ WF_vars(driver)

-----------------------------------------------------------------------------
(* Properties                                                              *)

(* Every variable has its type; no loop polls more often than POLLS times, *)
(* and no more sectors are moved than were asked for.                      *)
TypeOK ==
  /\ \A p \in Ports :
       /\ chan[p].drive \in {0, 1}
       /\ chan[p].bsy \in BOOLEAN /\ chan[p].drq \in BOOLEAN /\ chan[p].err \in BOOLEAN
       /\ chan[p].job.cmd \in {"none", "READ", "WRITE", "IDENTIFY"}
       /\ chan[p].job.left \in Nat
       /\ \A r \in DOMAIN chan[p].regs : chan[p].regs[r] \in Seq(0 .. (BYTE - 1))
  /\ \A d \in DiskNumbers : \A lba \in DOMAIN drives[d].data : drives[d].data[lba] \in Values
  /\ pc \in {"idle", "ready", "issue", "select", "clear", "identify", "sense",
            "busy", "signature", "drq", "move"}
  /\ call.disk \in DiskNumbers /\ call.count \in Counts \cup {0, 1}
  /\ polls \in 0 .. (POLLS - 1)
  /\ i \in 0 .. call.count
  /\ Len(buf) <= call.count
  /\ ret \in BOOLEAN

Returned(fn) == pc = "idle" /\ call.fn = fn

(* A read that succeeds has delivered the sectors that were asked for, in  *)
(* order, of the disk that was asked for: never what a drive still had     *)
(* from an earlier call that gave up on it.  One that fails has not        *)
(* touched the caller's memory.                                            *)
ReadGivesTheSectors ==
  /\ (Returned("disk_read_sector") \/ Returned("readsectorpio")) /\ ret =>
       /\ Len(buf) = call.count
       /\ \A k \in 1 .. call.count :
            /\ buf[k].of = "sector" /\ buf[k].disk = call.disk
            /\ buf[k].lba = call.lba + k - 1
            /\ buf[k].value = drives[call.disk].data[call.lba + k - 1]
  /\ Returned("disk_read_sector") /\ ~ret => buf = << >>

(* Unless the channel was busy when it began, disk_probe() takes the size  *)
(* from the identity of the primary master, and succeeds only for a disk.  *)
ProbeIdentifiesTheMaster ==
  Returned("disk_probe") /\ ret /\ call.free =>
    buf[1].of = "identity" /\ buf[1].disk = 0 /\ drives[0].kind = "disk"

(* What a call delivers is what the drive it was asked about holds, and    *)
(* all variables keep their types.                                         *)
DeliversWhatTheDriveHolds == TypeOK /\ ReadGivesTheSectors /\ ProbeIdentifiesTheMaster

(* A sector changes only while writesectorpio() runs, inside the range it  *)
(* was asked to write; when it returns all of that range is written.       *)
WritesWhereAsked ==
  [][/\ \A d \in DiskNumbers : \A lba \in DOMAIN drives[d].data :
          drives'[d].data[lba] # drives[d].data[lba] =>
            /\ call.fn = "writesectorpio" /\ d = call.disk
            /\ lba \in call.lba .. (call.lba + call.count - 1)
     /\ pc # "idle" /\ Returned("writesectorpio")' /\ ret' =>
          \A k \in 0 .. (call.count - 1) :
            drives'[call.disk].data[call.lba + k] = call.value]_vars

(* Whatever the drives do or fail to do, disk_read_sector() and            *)
(* disk_probe() return.                                                    *)
BoundedCallsReturn == pc # "idle" /\ GivesUp ~> pc = "idle"

=============================================================================
