---------------------------- MODULE AtaPioProofs ----------------------------
(***************************************************************************)
(* Proofs about the disk driver, for every set of drives, every size of a  *)
(* byte and number of polls, and every order in which drives answer the    *)
(* call that runs or one that has given up: a read delivers the sectors    *)
(* that were asked for, a write changes no others.  That the calls with a  *)
(* limit return is left to TLC.                                            *)
(***************************************************************************)
EXTENDS AtaPio, SequenceTheorems, WellFoundedInduction, TLAPS

-----------------------------------------------------------------------------
(* A set of numbers that is not empty has a least number: a counterexample *)
(* to a claim about numbers may be taken least.                            *)
LEMMA Least ==
  ASSUME NEW T, T \subseteq Nat, T # {}
  PROVE  \E x \in T : \A y \in T : x <= y
  <1> DEFINE R == {pair \in Nat \X Nat : pair[1] < pair[2]}
  <1>1. IsWellFoundedOn(R, Nat)
    BY NatLessThanWellFounded, Zenon DEF OpToRel
  <1>2. \A x, y \in Nat : <<y, x>> \notin R => x <= y
    OBVIOUS
  <1> HIDE DEF R
  <1>3. PICK x \in T : \A y \in T : <<y, x>> \notin R
    BY <1>1, WFMin, Zenon
  <1>4. \A y \in T : x <= y
    BY <1>2, <1>3
  <1> QED BY <1>4

-----------------------------------------------------------------------------
ByteValues == 0 .. (BYTE - 1)

Registers == {"SEC", "LBALO", "LBAMID", "LBAHI"}

Commands == {"none", "READ", "WRITE", "IDENTIFY"}

Job == [cmd : Commands, lba : Nat, left : Nat]

Regs == {regs \in [Registers -> Seq(ByteValues)] : \A r \in Registers : Len(regs[r]) = 2}

Channel == [drive : {0, 1}, bsy : BOOLEAN, drq : BOOLEAN, err : BOOLEAN, job : Job,
            regs : Regs]

Kinds == {"disk", "packet", "none"}

Items == [of : {"noise", "identity", "sector"}, disk : DiskNumbers, lba : Nat, value : Nat]

Readers == {"disk_read_sector", "readsectorpio"}

Transfers == Readers \cup {"writesectorpio"}

Functions == Transfers \cup {"disk_probe", "none"}

-----------------------------------------------------------------------------
(* The inductive invariant, part by part                                   *)

DrivesInv ==
  /\ drives = [d \in DiskNumbers |-> [kind |-> drives[d].kind, size |-> drives[d].size,
                                     data |-> drives[d].data]]
  /\ \A d \in DiskNumbers : /\ drives[d].kind \in Kinds /\ drives[d].size \in Nat
                             /\ drives[d].data \in [0 .. (drives[d].size - 1) -> Values]

(* Only a drive that is there makes its channel busy, and one that waits   *)
(* to move data has data to move.                                          *)
ChannelOK(p, ch) ==
  /\ ch.bsy => drives[DiskOf(p, ch.drive)].kind # "none"
  /\ ch.drq => ~ch.bsy /\ ch.job.left > 0
  /\ ch.job.cmd = "IDENTIFY" => ch.job.left = 1

ChannelsInv ==
  /\ chan \in [Ports -> Channel]
  /\ \A p \in Ports : ChannelOK(p, chan[p])

(* The call that runs, or the last one that ran                            *)
CallInv ==
  /\ call \in [fn : Functions, disk : DiskNumbers, lba : Nat, count : Counts \cup {0, 1},
               value : Nat, free : BOOLEAN]
  /\ call.fn = "none" => pc = "idle" /\ ret = FALSE
  /\ call.fn \in {"disk_probe", "disk_read_sector"} => call.count = 1
  /\ call.fn = "disk_probe" => call.disk = 0
  /\ call.fn \in Transfers => call.lba \in Lbas /\ call.value \in Values

(* How far it is                                                           *)
PlaceInv ==
  /\ pc \in {"idle", "ready", "issue", "select", "clear", "identify", "sense",
             "busy", "signature", "drq", "move"}
  /\ polls \in 0 .. (POLLS - 1)
  /\ ret \in BOOLEAN
  /\ i \in 0 .. call.count
  /\ pc \in {"ready", "issue"} => call.fn \in Transfers /\ i = 0
  /\ pc \in {"select", "clear", "identify", "sense", "signature"} =>
       call.fn = "disk_probe" /\ i = 0
  /\ pc \in {"busy", "drq", "move"} => i < call.count
  /\ pc # "idle" => ret = FALSE
  /\ pc = "idle" /\ ret /\ call.fn \in Transfers => i = call.count
  /\ pc = "idle" /\ ~ret /\ call.fn = "disk_read_sector" => i = 0

(* Nothing is connected to a channel.                                      *)
Empty(p) == \A d \in {0, 1} : drives[DiskOf(p, d)].kind = "none"

(* A drive is about to move data that exists.                              *)
Offers(p) ==
  /\ KindAt(p) = "disk"
  /\ \/ chan[p].job.cmd = "IDENTIFY"
     \/ chan[p].job.lba < drives[DiskOf(p, chan[p].drive)].size

Commanded == {"sense", "busy", "signature", "drq", "move"}

(* What the channel of the call does is what the call has asked it for.    *)
(* After a call that gave up it may do something else until the new        *)
(* command; a probe that begins on a busy channel may never get through.   *)
ChannelServesCall ==
  /\ pc \in {"issue", "signature", "drq", "move"} => ~Empty(port)
  /\ pc = "issue" => ~chan[port].bsy
  /\ pc \in Commanded /\ chan[port].drq /\ KindAt(port) # "none" => Offers(port)
  /\ pc = "move" => chan[port].drq /\ KindAt(port) # "none"
  /\ call.fn \in Transfers /\ pc \in {"busy", "drq", "move"} =>
       /\ chan[port].drive = call.disk % 2
       /\ KindAt(port) # "none" =>
            chan[port].job = [cmd |-> IF call.fn = "writesectorpio" THEN "WRITE" ELSE "READ",
                              lba |-> call.lba + i, left |-> call.count - i]
  /\ call.fn = "disk_probe" /\ call.free =>
       /\ pc \in {"select", "clear", "identify"} => ~chan[port].bsy
       /\ pc \in {"clear", "identify"} \cup Commanded => chan[port].drive = 0
       /\ pc \in Commanded /\ KindAt(port) # "none" => chan[port].job.cmd = "IDENTIFY"

Sector(d, lba) == [of |-> "sector", disk |-> d, lba |-> lba, value |-> drives[d].data[lba]]

(* What has been moved so far                                              *)
DataInv ==
  /\ buf \in Seq(Items)
  /\ Len(buf) = IF call.fn = "writesectorpio" THEN 0 ELSE i
  /\ call.fn \in Readers =>
       \A n \in 1 .. Len(buf) : buf[n] = Sector(call.disk, call.lba + n - 1)
  /\ call.fn = "writesectorpio" =>
       \A n \in 0 .. (i - 1) : drives[call.disk].data[call.lba + n] = call.value
  /\ Returned("disk_probe") /\ ret /\ call.free =>
       buf[1].of = "identity" /\ buf[1].disk = 0 /\ drives[0].kind = "disk"

AtaInv ==
  DrivesInv /\ ChannelsInv /\ CallInv /\ PlaceInv /\ ChannelServesCall /\ DataInv

(* The registers after some writes, and the command that a drive accepts   *)
Written(regs, bytes) == [r \in DOMAIN regs |-> Latched(regs[r], bytes[r])]

JobOf(cmd, lba, left) == [cmd |-> cmd, lba |-> lba, left |-> left]

JobAccepted(cmd, regs) ==
  JobOf(cmd, LbaOf(regs), IF cmd = "IDENTIFY" THEN 1 ELSE SectorsOf(regs.SEC))

-----------------------------------------------------------------------------
(* Numbers as bytes                                                        *)

LEMMA Division ==
  ASSUME NEW n \in Nat
  PROVE  /\ High(n) \in Nat /\ n % BYTE \in ByteValues
         /\ n = (n % BYTE) + BYTE * (High(n))
  BY PollsAssumption DEF ByteValues, High

LEMMA QuotientFits ==
  ASSUME NEW n \in Nat, NEW m \in Nat, n < BYTE * m
  PROVE  High(n) < m
  <1>1. PICK q \in Nat, r \in Nat : q = High(n) /\ n = r + BYTE * q
    BY Division DEF ByteValues
  <1>2. ASSUME q >= m
        PROVE  FALSE
    <2>1. BYTE * q >= BYTE * m
      BY <1>2, PollsAssumption
    <2> QED BY <1>1, <2>1, PollsAssumption
  <1> QED BY <1>1, <1>2

(* The bytes of a number of 48 bits make it up again.                      *)
LEMMA SixBytes ==
  ASSUME NEW n \in 0 .. (WORD * WORD * WORD - 1)
  PROVE  /\ \A k \in 0 .. 5 : Byte(n, k) \in ByteValues
         /\ n = Byte(n, 0) + BYTE * (Byte(n, 1) + BYTE * (Byte(n, 2) + BYTE * (Byte(n, 3)
                  + BYTE * (Byte(n, 4) + BYTE * Byte(n, 5)))))
  <1>1. PICK q1 \in Nat, r0 \in ByteValues :
          q1 = High(n) /\ r0 = n % BYTE /\ n = r0 + BYTE * q1
    BY Division
  <1>2. PICK q2 \in Nat, r1 \in ByteValues :
          q2 = High(q1) /\ r1 = q1 % BYTE /\ q1 = r1 + BYTE * q2
    BY Division
  <1>3. PICK q3 \in Nat, r2 \in ByteValues :
          q3 = High(q2) /\ r2 = q2 % BYTE /\ q2 = r2 + BYTE * q3
    BY Division
  <1>4. PICK q4 \in Nat, r3 \in ByteValues :
          q4 = High(q3) /\ r3 = q3 % BYTE /\ q3 = r3 + BYTE * q4
    BY Division
  <1>5. PICK q5 \in Nat, r4 \in ByteValues :
          q5 = High(q4) /\ r4 = q4 % BYTE /\ q4 = r4 + BYTE * q5
    BY Division
  <1>6. q5 < BYTE
    <2>1. PICK m2, m3, m4, m5 : /\ m2 = BYTE * BYTE /\ m3 = BYTE * m2
                                /\ m4 = BYTE * m3 /\ m5 = BYTE * m4
      OBVIOUS
    <2>2. BYTE \in Nat /\ m2 \in Nat /\ m3 \in Nat /\ m4 \in Nat /\ m5 \in Nat
      BY <2>1, PollsAssumption
    <2>3. WORD * WORD * WORD = BYTE * m5
      BY <2>1, PollsAssumption DEF WORD
    <2>4. n < BYTE * m5
      <3>1. WORD * WORD * WORD \in Int
        BY <2>2, <2>3
      <3> QED BY <2>3, <3>1
    <2>5. q1 < m5
      BY <1>1, <2>2, <2>4, QuotientFits
    <2>6. q2 < m4
      BY <1>2, <2>1, <2>2, <2>5, QuotientFits
    <2>7. q3 < m3
      BY <1>3, <2>1, <2>2, <2>6, QuotientFits
    <2>8. q4 < m2
      BY <1>4, <2>1, <2>2, <2>7, QuotientFits
    <2> QED BY <1>5, <2>1, <2>2, <2>8, QuotientFits
  <1>7. q5 % BYTE = q5 /\ q5 \in ByteValues
    BY <1>6, PollsAssumption DEF ByteValues
  <1>8. /\ Byte(n, 0) = r0 /\ Byte(n, 1) = r1 /\ Byte(n, 2) = r2
        /\ Byte(n, 3) = r3 /\ Byte(n, 4) = r4 /\ Byte(n, 5) = q5
    <2>1. Shifted(n, 0) = n /\ Shifted(n, 1) = q1
      BY <1>1 DEF Shifted
    <2>2. Shifted(n, 2) = q2 /\ Shifted(n, 3) = q3
      <3>1. Shifted(n, 2) = High(High(n)) /\ Shifted(n, 3) = High(High(High(n)))
        BY DEF Shifted
      <3> QED BY <1>1, <1>2, <1>3, <3>1, Zenon
    <2>3. Shifted(n, 4) = q4 /\ Shifted(n, 5) = q5
      <3>1. /\ Shifted(n, 4) = High(High(High(High(n))))
            /\ Shifted(n, 5) = High(High(High(High(High(n)))))
        BY DEF Shifted
      <3> QED BY <1>1, <1>2, <1>3, <1>4, <1>5, <3>1, Zenon
    <2> QED BY <1>1, <1>2, <1>3, <1>4, <1>5, <1>7, <2>1, <2>2, <2>3, Zenon DEF Byte
  <1>9. n = r0 + BYTE * (r1 + BYTE * (r2 + BYTE * (r3 + BYTE * (r4 + BYTE * q5))))
    <2>1. q3 = r3 + BYTE * (r4 + BYTE * q5)
      BY <1>4, <1>5, Zenon
    <2>2. q2 = r2 + BYTE * (r3 + BYTE * (r4 + BYTE * q5))
      BY <1>3, <2>1, Zenon
    <2>3. q1 = r1 + BYTE * (r2 + BYTE * (r3 + BYTE * (r4 + BYTE * q5)))
      BY <1>2, <2>2, Zenon
    <2> QED BY <1>1, <2>3, Zenon
  <1>10. \A k \in 0 .. 5 : Byte(n, k) \in ByteValues
    <2> SUFFICES ASSUME NEW k \in 0 .. 5
                 PROVE  Byte(n, k) \in ByteValues
      OBVIOUS
    <2>1. k = 0 \/ k = 1 \/ k = 2 \/ k = 3 \/ k = 4 \/ k = 5
      OBVIOUS
    <2> QED BY <1>1, <1>2, <1>3, <1>4, <1>5, <1>7, <1>8, <2>1, Zenon
  <1> QED BY <1>8, <1>9, <1>10, Zenon

LEMMA TwoBytes ==
  ASSUME NEW n \in 0 .. (WORD - 1)
  PROVE  /\ Byte(n, 0) \in ByteValues /\ Byte(n, 1) \in ByteValues
         /\ n = Byte(n, 0) + BYTE * Byte(n, 1)
  <1>1. PICK q1 \in Nat, r0 \in ByteValues :
          q1 = High(n) /\ r0 = n % BYTE /\ n = r0 + BYTE * q1
    BY Division
  <1>2. q1 < BYTE
    <2>1. n < BYTE * BYTE
      BY PollsAssumption DEF WORD
    <2> QED BY <1>1, <2>1, PollsAssumption, QuotientFits
  <1>3. q1 % BYTE = q1 /\ q1 \in ByteValues
    BY <1>2, PollsAssumption DEF ByteValues
  <1>4. Byte(n, 0) = r0 /\ Byte(n, 1) = q1
    <2>1. Shifted(n, 0) = n /\ Shifted(n, 1) = q1
      BY <1>1 DEF Shifted
    <2> QED BY <1>1, <1>3, <2>1, Zenon DEF Byte
  <1> QED BY <1>1, <1>3, <1>4

(* A register keeps the last two bytes written to it.                      *)
LEMMA TwoAreLatched ==
  ASSUME NEW old \in Seq(ByteValues), Len(old) = 2, NEW x \in ByteValues, NEW y \in ByteValues
  PROVE  Latched(old, <<x, y>>) = <<x, y>>
  BY DEF Latched

LEMMA OneIsLatched ==
  ASSUME NEW old \in Seq(ByteValues), Len(old) = 2, NEW x \in ByteValues
  PROVE  Latched(old, <<x>>) = <<old[2], x>>
  <1>1. PICK all : all = old \o <<x>>
    OBVIOUS
  <1>2. PICK one : one = <<x>>
    OBVIOUS
  <1>3. one \in Seq(ByteValues) /\ Len(one) = 1 /\ one[1] = x /\ all = old \o one
    BY <1>1, <1>2
  <1>4. /\ Len(all) = Len(old) + Len(one)
        /\ \A k \in 1 .. (Len(old) + Len(one)) :
             all[k] = IF k <= Len(old) THEN old[k] ELSE one[k - Len(old)]
    BY <1>3, ConcatProperties
  <1>5. Len(all) = 3 /\ all[2] = old[2] /\ all[3] = x
    BY <1>3, <1>4
  <1> QED BY <1>1, <1>5 DEF Latched

(* After the writes of a command the registers hold its numbers.           *)
LEMMA RegistersHoldCommand ==
  ASSUME NEW regs \in Regs, NEW d, NEW cmd,
         NEW lba \in 0 .. (WORD * WORD * WORD - 1), NEW count \in 0 .. (WORD - 1),
         NEW new, new = Written(regs, Command(d, lba, count, cmd).bytes)
  PROVE  new \in Regs /\ LbaOf(new) = lba /\ (count # 0 => SectorsOf(new.SEC) = count)
  <1>1. /\ \A k \in 0 .. 5 : Byte(lba, k) \in ByteValues
        /\ Byte(count, 0) \in ByteValues /\ Byte(count, 1) \in ByteValues
    BY SixBytes, TwoBytes
  <1>2. DOMAIN regs = Registers /\ \A r \in Registers : regs[r] \in Seq(ByteValues) /\ Len(regs[r]) = 2
    BY DEF Regs
  <1>3. /\ new["SEC"] = << Byte(count, 1), Byte(count, 0) >>
        /\ new["LBALO"] = << Byte(lba, 3), Byte(lba, 0) >>
        /\ new["LBAMID"] = << Byte(lba, 4), Byte(lba, 1) >>
        /\ new["LBAHI"] = << Byte(lba, 5), Byte(lba, 2) >>
    BY <1>1, <1>2, TwoAreLatched DEF Command, Registers, Written
  <1>4. new \in Regs
    <2>1. \A r \in Registers : new[r] \in Seq(ByteValues) /\ Len(new[r]) = 2
      <3>1. \A x, y \in ByteValues : <<x, y>> \in Seq(ByteValues) /\ Len(<<x, y>>) = 2
        OBVIOUS
      <3>2. 0 \in 0 .. 5 /\ 1 \in 0 .. 5 /\ 2 \in 0 .. 5 /\ 3 \in 0 .. 5 /\ 4 \in 0 .. 5 /\ 5 \in 0 .. 5
        OBVIOUS
      <3>3. \A r \in Registers : \E x, y \in ByteValues : new[r] = <<x, y>>
        BY <1>1, <1>3, <3>2 DEF Registers
      <3> QED BY <3>1, <3>3, Zenon
    <2>2. new = [r \in Registers |-> new[r]]
      BY <1>2 DEF Written
    <2>3. new \in [Registers -> Seq(ByteValues)]
      BY <2>1, <2>2
    <2> QED BY <2>1, <2>3 DEF Regs
  <1>5. LbaOf(new) = lba
    <2>1. /\ new.SEC[1] = Byte(count, 1) /\ new.LBALO[1] = Byte(lba, 3) /\ new.LBALO[2] = Byte(lba, 0)
          /\ new.LBAMID[1] = Byte(lba, 4) /\ new.LBAMID[2] = Byte(lba, 1)
          /\ new.LBAHI[1] = Byte(lba, 5) /\ new.LBAHI[2] = Byte(lba, 2)
      BY <1>3
    <2>2. lba = Byte(lba, 0) + BYTE * (Byte(lba, 1) + BYTE * (Byte(lba, 2) + BYTE * (Byte(lba, 3)
                  + BYTE * (Byte(lba, 4) + BYTE * Byte(lba, 5)))))
      BY SixBytes
    <2> QED BY <2>1, <2>2, Zenon DEF LbaOf
  <1>6. ASSUME count # 0
        PROVE  SectorsOf(new.SEC) = count
    BY <1>3, <1>6, TwoBytes DEF SectorsOf
  <1> QED BY <1>4, <1>5, <1>6

LEMMA RegistersHoldIdentify ==
  ASSUME NEW regs \in Regs
  PROVE  Written(regs, Identify.bytes) \in Regs
  <1>1. DOMAIN regs = Registers /\ \A r \in Registers : regs[r] \in Seq(ByteValues) /\ Len(regs[r]) = 2
    BY DEF Regs
  <1>2. \A r \in Registers : Identify.bytes[r] = <<0>>
    BY DEF Identify, Registers
  <1>3. 0 \in ByteValues
    BY PollsAssumption DEF ByteValues
  <1>4. \A r \in Registers : Latched(regs[r], <<0>>) = <<regs[r][2], 0>>
    BY <1>1, <1>3, OneIsLatched
  <1>5. \A r \in Registers : regs[r][2] \in ByteValues
    BY <1>1
  <1>6. PICK new : new = Written(regs, Identify.bytes)
    OBVIOUS
  <1>7. \A r \in Registers : new[r] = <<regs[r][2], 0>>
    BY <1>1, <1>2, <1>4, <1>6 DEF Written
  <1>8. \A r \in Registers : new[r] \in Seq(ByteValues) /\ Len(new[r]) = 2
    <2>1. \A x, y \in ByteValues : <<x, y>> \in Seq(ByteValues) /\ Len(<<x, y>>) = 2
      OBVIOUS
    <2> QED BY <1>3, <1>5, <1>7, <2>1, Zenon
  <1>9. new \in [Registers -> Seq(ByteValues)]
    BY <1>1, <1>6, <1>8 DEF Written
  <1> QED BY <1>6, <1>8, <1>9 DEF Regs

-----------------------------------------------------------------------------
(* Channels and their drives                                               *)

LEMMA DisksOfPorts ==
  /\ \A d \in DiskNumbers :
       PortOf(d) \in Ports /\ d % 2 \in {0, 1} /\ DiskOf(PortOf(d), d % 2) = d
  /\ \A p \in Ports, drive \in {0, 1} : DiskOf(p, drive) \in DiskNumbers
  BY DEF DiskNumbers, PortOf, Ports, DiskOf

LEMMA LeastValue == Min(Values) \in Values
  <1>1. \E v \in Values : \A w \in Values : v <= w
    BY CallsAssumption, Least
  <1> QED BY <1>1 DEF Min

LEMMA CountIsNatural == CallInv => call.count \in Nat
  <1> SUFFICES ASSUME CallInv
               PROVE  call.count \in Nat
    OBVIOUS
  <1>1. PICK count \in Counts \cup {0, 1} : count = call.count
    BY DEF CallInv
  <1>2. count \in Nat
    BY CallsAssumption
  <1> QED BY <1>1, <1>2

LEMMA AtaStarts == Init => AtaInv
  <1> SUFFICES ASSUME Init
               PROVE  AtaInv
    OBVIOUS
  <1>1. DrivesInv
    <2>1. PICK m \in Machines :
            drives = [d \in DiskNumbers |->
                        [kind |-> m[d].kind, size |-> m[d].size,
                         data |-> [lba \in 0 .. (m[d].size - 1) |-> Min(Values)]]]
      BY DEF Init
    <2>2. \A d \in DiskNumbers : m[d].kind \in Kinds /\ m[d].size \in Nat
      BY <2>1, DriveAssumption DEF Kinds
    <2> QED BY <2>1, <2>2, LeastValue DEF DrivesInv
  <1>2. ChannelsInv
    <2>1. FreeChannel.regs \in Regs
      <3>1. PICK z : z = << 0, 0 >>
        OBVIOUS
      <3>2. z \in Seq(ByteValues) /\ Len(z) = 2
        BY <3>1, PollsAssumption DEF ByteValues
      <3>3. FreeChannel.regs = [r \in Registers |-> z]
        BY <3>1 DEF FreeChannel, Registers
      <3> QED BY <3>2, <3>3 DEF Regs
    <2>2. /\ FreeChannel \in Channel /\ ~FreeChannel.bsy /\ ~FreeChannel.drq
          /\ FreeChannel.job.cmd = "none"
      <3>1. FreeChannel = [drive |-> 0, bsy |-> FALSE, drq |-> FALSE, err |-> FALSE,
                           job |-> NoJob, regs |-> FreeChannel.regs]
        BY DEF FreeChannel
      <3>2. NoJob \in Job /\ NoJob.cmd = "none"
        BY DEF NoJob, Job, Commands
      <3>3. PICK regs \in Regs, job \in Job : regs = FreeChannel.regs /\ job = NoJob
        BY <2>1, <3>2
      <3>4. FreeChannel = [drive |-> 0, bsy |-> FALSE, drq |-> FALSE, err |-> FALSE,
                           job |-> job, regs |-> regs]
        BY <3>1, <3>3, Zenon
      <3> QED BY <3>2, <3>3, <3>4 DEF Channel
    <2> QED BY <2>2 DEF Init, ChannelsInv, ChannelOK
  <1>3. CallInv /\ PlaceInv
    <2>1. /\ call = [fn |-> "none", disk |-> 0, lba |-> 0, count |-> 0, value |-> 0, free |-> TRUE]
          /\ pc = "idle" /\ ret = FALSE /\ polls = 0 /\ i = 0
      BY DEF Init, NoCall
    <2>2. CallInv
      BY <2>1 DEF CallInv, Functions, Transfers, Readers, DiskNumbers
    <2>3. PlaceInv
      <3>1. call.fn = "none" /\ call.count = 0
        BY <2>1
      <3>2. polls \in 0 .. (POLLS - 1) /\ i \in 0 .. call.count
        BY <2>1, <3>1, PollsAssumption
      <3> QED BY <2>1, <3>1, <3>2 DEF PlaceInv, Transfers, Readers
    <2> QED BY <2>2, <2>3
  <1>4. ChannelServesCall
    BY DEF Init, ChannelServesCall, NoCall, Transfers, Readers, Commanded
  <1>5. DataInv
    <2>1. buf = << >> /\ call.fn = "none" /\ i = 0 /\ ret = FALSE
      BY DEF Init, NoCall
    <2>2. buf \in Seq(Items) /\ Len(buf) = 0
      BY <2>1
    <2> QED BY <2>1, <2>2 DEF DataInv, Readers, Returned
  <1> QED BY <1>1, <1>2, <1>3, <1>4, <1>5 DEF AtaInv

LEMMA OneChannelChanges ==
  ASSUME ChannelsInv, \A d \in DiskNumbers : drives'[d].kind = drives[d].kind,
         NEW p \in Ports, NEW ch \in Channel, ChannelOK(p, ch), chan' = [chan EXCEPT ![p] = ch]
  PROVE  /\ ChannelsInv' /\ chan'[p] = ch
         /\ \A q \in Ports : q # p => chan'[q] = chan[q]
  <1>1. chan \in [Ports -> Channel]
    BY DEF ChannelsInv
  <1>2. /\ chan' \in [Ports -> Channel] /\ chan'[p] = ch
        /\ \A q \in Ports : q # p => chan'[q] = chan[q]
    BY <1>1
  <1>3. \A q \in Ports : ChannelOK(q, chan'[q])
    BY <1>2 DEF ChannelsInv
  <1>4. \A q \in Ports : ChannelOK(q, chan[q])'
    <2> SUFFICES ASSUME NEW q \in Ports
                 PROVE  ChannelOK(q, chan[q])'
      OBVIOUS
    <2>1. chan'[q].drive \in {0, 1}
      BY <1>2 DEF Channel
    <2>2. DiskOf(q, chan'[q].drive) \in DiskNumbers
      BY <2>1, DisksOfPorts
    <2> QED BY <1>3, <2>2 DEF ChannelOK
  <1> QED BY <1>2, <1>4 DEF ChannelsInv

-----------------------------------------------------------------------------
(* Polling: the steps that only look at the channel                        *)

LEMMA StatusShows ==
  ASSUME ChannelsInv, NEW p \in Ports
  PROVE  /\ ~Status(p).bsy => ~Empty(p) /\ ~chan[p].bsy
         /\ ~Empty(p) /\ Status(p).drq => KindAt(p) # "none" /\ chan[p].drq
         /\ ~Empty(p) /\ KindAt(p) = "none" => Status(p).zero
         /\ Status(p).zero \in BOOLEAN
  <1>1. ChannelOK(p, chan[p])
    BY DEF ChannelsInv
  <1>2. CASE Empty(p)
    BY <1>2 DEF Status, Empty
  <1>3. CASE ~Empty(p) /\ KindAt(p) = "none"
    <2>1. Status(p) = [bsy |-> FALSE, drq |-> FALSE, err |-> FALSE, zero |-> TRUE]
      BY <1>3 DEF Status, Empty
    <2>2. ~chan[p].bsy
      BY <1>1, <1>3 DEF ChannelOK, KindAt
    <2> QED BY <1>3, <2>1, <2>2
  <1>4. CASE ~Empty(p) /\ KindAt(p) # "none"
    BY <1>4 DEF Status, Empty
  <1> QED BY <1>2, <1>3, <1>4

(* A call goes on, or gives up before it has moved anything.               *)
GoesOn ==
  \/ pc' = pc
  \/ pc' = "idle" /\ GivesUp
  \/ pc = "ready" /\ pc' = "issue" /\ ~Status(port).bsy
  \/ pc = "sense" /\ pc' = "busy"
  \/ /\ pc = "busy" /\ ~Status(port).bsy
     /\ pc' = IF call.fn = "disk_probe" THEN "signature" ELSE "drq"
  \/ pc = "signature" /\ pc' = "drq"
  \/ pc = "drq" /\ pc' = "move" /\ Status(port).drq

LEMMA CallGoesOn ==
  ASSUME AtaInv, UNCHANGED <<chan, drives, call, i, buf>>, pc # "idle", GoesOn, ret' = FALSE,
         polls' \in 0 .. (POLLS - 1)
  PROVE  AtaInv'
  <1>1. DrivesInv /\ ChannelsInv /\ CallInv /\ PlaceInv /\ ChannelServesCall /\ DataInv
    BY DEF AtaInv
  <1>2. DrivesInv' /\ ChannelsInv'
    BY <1>1 DEF DrivesInv, ChannelsInv, ChannelOK
  <1>3. CallInv'
    BY <1>1 DEF CallInv
  <1>4. port \in Ports /\ call.fn \in Functions
    BY <1>1, DisksOfPorts DEF CallInv, port
  <1>5. PlaceInv'
    <2>1. i \in 0 .. call.count /\ i' \in 0 .. call'.count
      BY <1>1 DEF PlaceInv
    <2>2. GivesUp => i = 0
      BY <1>1, <2>1 DEF CallInv, PlaceInv, GivesUp
    <2>3. CASE pc' = pc
      BY <1>1, <2>1, <2>3 DEF PlaceInv
    <2>4. CASE pc' = "idle" /\ GivesUp
      BY <1>1, <2>1, <2>2, <2>4 DEF PlaceInv
    <2>5. CASE pc = "ready" /\ pc' = "issue"
      BY <1>1, <2>1, <2>5 DEF PlaceInv
    <2>6. CASE pc = "sense" /\ pc' = "busy"
      <3>1. i' = 0 /\ call'.count = 1 /\ call'.fn = "disk_probe"
        BY <1>1, <2>6 DEF PlaceInv, CallInv
      <3>2. i' < call'.count
        BY <3>1
      <3> QED BY <2>1, <2>6, <3>1, <3>2, Zenon DEF PlaceInv
    <2>7. CASE pc = "busy" /\ pc' = IF call.fn = "disk_probe" THEN "signature" ELSE "drq"
      <3>1. CASE call.fn = "disk_probe"
        <4>1. i = 0 /\ call.count = 1
          BY <1>1, <2>1, <2>7, <3>1 DEF PlaceInv, CallInv
        <4> QED BY <1>1, <2>1, <2>7, <3>1, <4>1 DEF PlaceInv
      <3>2. CASE call.fn # "disk_probe"
        BY <1>1, <2>1, <2>7, <3>2 DEF PlaceInv
      <3> QED BY <3>1, <3>2
    <2>8. CASE pc = "signature" /\ pc' = "drq"
      <3>1. i' = 0 /\ call'.count = 1 /\ call'.fn = "disk_probe"
        BY <1>1, <2>8 DEF PlaceInv, CallInv
      <3>2. i' < call'.count
        BY <3>1
      <3> QED BY <2>1, <2>8, <3>1, <3>2, Zenon DEF PlaceInv
    <2>9. CASE pc = "drq" /\ pc' = "move"
      BY <1>1, <2>1, <2>9 DEF PlaceInv
    <2> QED BY <2>3, <2>4, <2>5, <2>6, <2>7, <2>8, <2>9 DEF GoesOn
  <1>6. ChannelServesCall'
    <2>1. /\ port' = port /\ KindAt(port)' = KindAt(port) /\ Empty(port)' = Empty(port)
          /\ Offers(port)' = Offers(port)
      BY DEF port, KindAt, Empty, Offers
    <2>2. /\ ~Status(port).bsy => ~Empty(port) /\ ~chan[port].bsy
          /\ ~Empty(port) /\ Status(port).drq => KindAt(port) # "none" /\ chan[port].drq
      BY <1>1, <1>4, StatusShows
    <2>3. CASE pc' = pc \/ pc' = "idle"
      BY <1>1, <2>1, <2>3 DEF ChannelServesCall, Commanded
    <2>4. CASE pc = "ready" /\ pc' = "issue" /\ ~Status(port).bsy
      <3>1. call.fn # "disk_probe"
        BY <1>1, <2>4 DEF PlaceInv, Transfers, Readers
      <3> QED BY <1>1, <2>1, <2>2, <2>4, <3>1 DEF ChannelServesCall, Commanded
    <2>5. CASE pc = "sense" /\ pc' = "busy"
      <3>1. call.fn = "disk_probe"
        BY <1>1, <2>5 DEF PlaceInv
      <3> QED BY <1>1, <2>1, <2>5, <3>1 DEF ChannelServesCall, Commanded, Transfers, Readers
    <2>6. CASE /\ pc = "busy" /\ ~Status(port).bsy
               /\ pc' = IF call.fn = "disk_probe" THEN "signature" ELSE "drq"
      <3>1. CASE call.fn = "disk_probe"
        BY <1>1, <2>1, <2>2, <2>6, <3>1 DEF ChannelServesCall, Commanded, Transfers, Readers
      <3>2. CASE call.fn # "disk_probe"
        BY <1>1, <2>1, <2>2, <2>6, <3>2 DEF ChannelServesCall, Commanded
      <3> QED BY <3>1, <3>2
    <2>7. CASE pc = "signature" /\ pc' = "drq"
      <3>1. call.fn = "disk_probe"
        BY <1>1, <2>7 DEF PlaceInv
      <3> QED BY <1>1, <2>1, <2>7, <3>1 DEF ChannelServesCall, Commanded, Transfers, Readers
    <2>8. CASE pc = "drq" /\ pc' = "move" /\ Status(port).drq
      BY <1>1, <2>1, <2>2, <2>8 DEF ChannelServesCall, Commanded
    <2> QED BY <2>3, <2>4, <2>5, <2>6, <2>7, <2>8 DEF GoesOn
  <1>7. DataInv'
    BY <1>1 DEF DataInv, Sector, Returned
  <1> QED BY <1>2, <1>3, <1>5, <1>6, <1>7 DEF AtaInv

LEMMA PollingCounts ==
  ASSUME PlaceInv, PollAgain, pc # "idle"
  PROVE  /\ pc' = pc \/ (pc' = "idle" /\ GivesUp)
         /\ ret' = FALSE /\ polls' \in 0 .. (POLLS - 1)
  BY PollsAssumption DEF PlaceInv, PollAgain, Return

LEMMA PollingKeeps ==
  ASSUME AtaInv,
         \/ ata_wait_not_busy("ready", "issue")
         \/ Sense
         \/ ata_wait_not_busy("busy", IF call.fn = "disk_probe" THEN "signature" ELSE "drq")
         \/ CheckSignature
         \/ ata_wait_drq
  PROVE  AtaInv'
  <1>1. UNCHANGED <<chan, drives, call, i, buf>> /\ pc # "idle"
    BY DEF ata_wait_not_busy, Sense, CheckSignature, ata_wait_drq
  <1>2. PlaceInv /\ CallInv
    BY DEF AtaInv
  <1>3. ret = FALSE /\ polls \in 0 .. (POLLS - 1) /\ 0 \in 0 .. (POLLS - 1)
    BY <1>1, <1>2, PollsAssumption DEF PlaceInv
  <1>4. GoesOn /\ ret' = FALSE /\ polls' \in 0 .. (POLLS - 1)
    <2>1. CASE ata_wait_not_busy("ready", "issue")
      BY <1>1, <1>2, <1>3, <2>1, PollingCounts DEF ata_wait_not_busy, GoesOn
    <2>2. CASE Sense
      <3>1. GivesUp
        BY <1>2, <2>2 DEF Sense, PlaceInv, GivesUp
      <3> QED BY <1>3, <2>2, <3>1 DEF Sense, GoesOn, Return
    <2>3. CASE ata_wait_not_busy("busy", IF call.fn = "disk_probe" THEN "signature" ELSE "drq")
      BY <1>1, <1>2, <1>3, <2>3, PollingCounts DEF ata_wait_not_busy, GoesOn
    <2>4. CASE CheckSignature
      <3>1. GivesUp
        BY <1>2, <2>4 DEF CheckSignature, PlaceInv, GivesUp
      <3> QED BY <1>3, <2>4, <3>1 DEF CheckSignature, GoesOn, Return
    <2>5. CASE ata_wait_drq
      BY <1>1, <1>2, <1>3, <2>5, PollingCounts DEF ata_wait_drq, GoesOn, Return
    <2> QED BY <2>1, <2>2, <2>3, <2>4, <2>5
  <1> QED BY <1>1, <1>4, CallGoesOn

-----------------------------------------------------------------------------
(* Drives answer                                                           *)

LEMMA WhatAnswers ==
  ASSUME AtaInv, NEW p \in Ports, Answer(p)
  PROVE  /\ chan[p].bsy
         /\ \E ch \in Channel :
              /\ chan' = [chan EXCEPT ![p] = ch]
              /\ ~ch.bsy /\ ch.drive = chan[p].drive /\ ch.job = chan[p].job
              /\ ch.drq => Offers(p) /\ (ch.job.cmd = "IDENTIFY" \/ ch.job.left > 0)
  <1>1. chan \in [Ports -> Channel] /\ ChannelOK(p, chan[p])
    BY DEF AtaInv, ChannelsInv
  <1>2. PICK ch0 \in Channel : ch0 = chan[p]
    BY <1>1
  <1>3. ch0.bsy /\ ~ch0.drq
    BY <1>1, <1>2 DEF Answer, ChannelOK, Channel
  <1>4. CASE /\ Offers(p) /\ (ch0.job.cmd = "IDENTIFY" \/ ch0.job.left > 0)
             /\ chan' = [chan EXCEPT ![p].bsy = FALSE, ![p].drq = TRUE]
    <2>1. PICK ch : ch = [ch0 EXCEPT !.bsy = FALSE, !.drq = TRUE]
      OBVIOUS
    <2>2. chan' = [chan EXCEPT ![p] = ch]
      BY <1>1, <1>2, <1>4, <2>1
    <2>3. ch \in Channel /\ ~ch.bsy /\ ch.drive = ch0.drive /\ ch.job = ch0.job
      BY <2>1 DEF Channel
    <2> QED BY <1>2, <1>3, <1>4, <2>2, <2>3
  <1>5. CASE chan' = [chan EXCEPT ![p].bsy = FALSE]
    <2>1. PICK ch : ch = [ch0 EXCEPT !.bsy = FALSE]
      OBVIOUS
    <2>2. chan' = [chan EXCEPT ![p] = ch]
      BY <1>1, <1>2, <1>5, <2>1
    <2>3. ch \in Channel /\ ~ch.bsy /\ ~ch.drq /\ ch.drive = ch0.drive /\ ch.job = ch0.job
      BY <1>3, <2>1 DEF Channel
    <2> QED BY <1>2, <1>3, <2>2, <2>3
  <1>6. CASE chan' = [chan EXCEPT ![p].bsy = FALSE, ![p].err = TRUE]
    <2>1. PICK ch : ch = [ch0 EXCEPT !.bsy = FALSE, !.err = TRUE]
      OBVIOUS
    <2>2. chan' = [chan EXCEPT ![p] = ch]
      BY <1>1, <1>2, <1>6, <2>1
    <2>3. ch \in Channel /\ ~ch.bsy /\ ~ch.drq /\ ch.drive = ch0.drive /\ ch.job = ch0.job
      BY <1>3, <2>1 DEF Channel
    <2> QED BY <1>2, <1>3, <2>2, <2>3
  <1>7. CASE chan' = [chan EXCEPT ![p].bsy = FALSE, ![p].err = TRUE,
                                  ![p].regs.LBAMID = << 0, 1 >>, ![p].regs.LBAHI = << 0, 1 >>]
    <2>1. PICK z : z = << 0, 1 >>
      OBVIOUS
    <2>2. z \in Seq(ByteValues) /\ Len(z) = 2
      BY <2>1, PollsAssumption DEF ByteValues
    <2>3. PICK regs : regs = [ch0.regs EXCEPT !.LBAMID = z, !.LBAHI = z]
      OBVIOUS
    <2>4. ch0.regs \in Regs /\ regs \in Regs
      <3>1. ch0.regs \in Regs
        BY DEF Channel
      <3> QED BY <2>2, <2>3, <3>1 DEF Regs
    <2>5. PICK ch : ch = [ch0 EXCEPT !.bsy = FALSE, !.err = TRUE, !.regs = regs]
      OBVIOUS
    <2>6. chan' = [chan EXCEPT ![p] = ch]
      BY <1>1, <1>2, <1>7, <2>1, <2>3, <2>5 DEF Channel
    <2>7. ch \in Channel /\ ~ch.bsy /\ ~ch.drq /\ ch.drive = ch0.drive /\ ch.job = ch0.job
      BY <1>3, <2>4, <2>5 DEF Channel
    <2> QED BY <1>2, <1>3, <2>6, <2>7
  <1> QED BY <1>1, <1>2, <1>4, <1>5, <1>6, <1>7 DEF Answer, Offers

LEMMA AnswerKeeps ==
  ASSUME AtaInv, NEW p \in Ports, Answer(p)
  PROVE  AtaInv'
  <1>1. DrivesInv /\ ChannelsInv /\ CallInv /\ PlaceInv /\ ChannelServesCall /\ DataInv
    BY DEF AtaInv
  <1>2. UNCHANGED <<drives, pc, call, polls, i, buf, ret>>
    BY DEF Answer, driverVars
  <1>3. PICK ch \in Channel :
          /\ chan' = [chan EXCEPT ![p] = ch]
          /\ ~ch.bsy /\ ch.drive = chan[p].drive /\ ch.job = chan[p].job
          /\ ch.drq => Offers(p) /\ (ch.job.cmd = "IDENTIFY" \/ ch.job.left > 0)
    BY WhatAnswers
  <1>4. ChannelOK(p, ch)
    <2>1. ch.job.cmd = "IDENTIFY" => ch.job.left = 1
      BY <1>1, <1>3 DEF ChannelsInv, ChannelOK
    <2> QED BY <1>3, <2>1 DEF ChannelOK
  <1>5. /\ ChannelsInv' /\ chan'[p] = ch
        /\ \A q \in Ports : q # p => chan'[q] = chan[q]
    BY <1>1, <1>2, <1>3, <1>4, OneChannelChanges
  <1>6. DrivesInv' /\ CallInv' /\ PlaceInv' /\ DataInv'
    <2>1. DrivesInv'
      BY <1>1, <1>2 DEF DrivesInv
    <2>2. CallInv' /\ PlaceInv'
      BY <1>1, <1>2 DEF CallInv, PlaceInv
    <2>3. DataInv'
      BY <1>1, <1>2 DEF DataInv, Sector, Returned
    <2> QED BY <2>1, <2>2, <2>3
  <1>7. port \in Ports /\ port' = port /\ Empty(port)' = Empty(port)
    BY <1>1, <1>2, DisksOfPorts DEF CallInv, port, Empty
  <1>8. /\ chan'[port].drive = chan[port].drive /\ chan'[port].job = chan[port].job
        /\ ~chan[port].bsy => chan'[port] = chan[port]
        /\ chan'[port].bsy => chan[port].bsy
        /\ chan'[port].drq => chan[port].drq \/ Offers(port)
        /\ chan[port].drq => chan'[port].drq
    <2>1. chan[p].bsy /\ (chan[p].drq => ~chan[p].bsy)
      BY <1>1, WhatAnswers DEF ChannelsInv, ChannelOK
    <2>2. CASE port = p
      BY <1>3, <1>5, <2>1, <2>2
    <2>3. CASE port # p
      BY <1>5, <1>7, <2>3
    <2> QED BY <2>2, <2>3
  <1>9. KindAt(port)' = KindAt(port) /\ Offers(port)' = Offers(port)
    BY <1>2, <1>7, <1>8 DEF KindAt, Offers
  <1>10. ChannelServesCall'
    <2>1. /\ pc \in Commanded /\ chan'[port].drq /\ KindAt(port) # "none" => Offers(port)
          /\ pc = "move" => chan'[port].drq /\ KindAt(port) # "none"
      BY <1>1, <1>8 DEF ChannelServesCall
    <2> QED BY <1>1, <1>2, <1>7, <1>8, <1>9, <2>1 DEF ChannelServesCall
  <1> QED BY <1>5, <1>6, <1>10 DEF AtaInv

-----------------------------------------------------------------------------
(* A call begins                                                           *)

LEMMA BeginKeeps ==
  ASSUME AtaInv, NEW fn \in Transfers \cup {"disk_probe"}, NEW d \in DiskNumbers,
         NEW lba \in Nat, NEW count \in Counts \cup {1}, NEW value \in Values,
         fn \in Transfers => lba \in Lbas,
         fn \in {"disk_probe", "disk_read_sector"} => count = 1,
         fn = "disk_probe" => d = 0,
         Begin(fn, d, lba, count, value)
  PROVE  AtaInv'
  <1>1. DrivesInv /\ ChannelsInv
    BY DEF AtaInv
  <1>2. DrivesInv' /\ ChannelsInv'
    BY <1>1 DEF Begin, DrivesInv, ChannelsInv, ChannelOK
  <1>3. PICK free \in BOOLEAN : free = ~chan[PortOf(d)].bsy
    OBVIOUS
  <1>4. call' = [fn |-> fn, disk |-> d, lba |-> lba, count |-> count, value |-> value,
                 free |-> free]
    BY <1>3 DEF Begin
  <1>5. value \in Nat /\ count \in Nat
    BY CallsAssumption
  <1>6. CallInv'
    <2>1. fn \in Functions /\ fn # "none"
      BY DEF Functions, Transfers, Readers
    <2>2. /\ call'.fn = fn /\ call'.disk = d /\ call'.lba = lba /\ call'.count = count
          /\ call'.value = value
      BY <1>4
    <2>3. call' \in [fn : Functions, disk : DiskNumbers, lba : Nat, count : Counts \cup {0, 1},
                     value : Nat, free : BOOLEAN]
      BY <1>4, <1>5, <2>1
    <2> QED BY <2>1, <2>2, <2>3 DEF CallInv
  <1>7. pc' = (IF fn = "disk_probe" THEN "select" ELSE "ready") /\ polls' = 0 /\ i' = 0 /\ ret' = FALSE
    BY DEF Begin
  <1>8. PlaceInv'
    <2>1. polls' \in 0 .. (POLLS - 1) /\ i' \in 0 .. call'.count
      BY <1>4, <1>5, <1>7, PollsAssumption
    <2>2. call'.fn = fn
      BY <1>4
    <2> QED BY <1>7, <2>1, <2>2 DEF PlaceInv
  <1>9. ChannelServesCall'
    <2>1. call'.fn = fn /\ call'.free = free /\ port' = PortOf(d)
      BY <1>4 DEF port
    <2>2. free => ~chan'[port'].bsy
      BY <1>3, <2>1 DEF Begin
    <2> QED BY <1>7, <2>1, <2>2 DEF ChannelServesCall, Commanded
  <1>10. DataInv'
    <2>1. buf' \in Seq(Items) /\ Len(buf') = 0 /\ call'.fn = fn
      BY <1>4 DEF Begin
    <2> QED BY <1>7, <2>1 DEF DataInv, Returned
  <1> QED BY <1>2, <1>6, <1>8, <1>9, <1>10 DEF AtaInv

-----------------------------------------------------------------------------
(* Commands are written                                                    *)

LEMMA RegistersAreNumbers ==
  ASSUME NEW regs \in Regs
  PROVE  LbaOf(regs) \in Nat /\ SectorsOf(regs.SEC) \in Nat
  <1>1. \A r \in Registers : regs[r][1] \in ByteValues /\ regs[r][2] \in ByteValues
    BY DEF Regs
  <1>2. PICK z1 \in Nat, z2 \in Nat : z1 = regs.SEC[1] /\ z2 = regs.SEC[2]
    BY <1>1 DEF Registers, ByteValues
  <1>3. SectorsOf(regs.SEC) \in Nat
    BY <1>2, PollsAssumption DEF SectorsOf, WORD
  <1>4. PICK a1 \in Nat, a2 \in Nat, b1 \in Nat, b2 \in Nat, c1 \in Nat, c2 \in Nat :
          /\ a1 = regs.LBALO[1] /\ a2 = regs.LBALO[2] /\ b1 = regs.LBAMID[1]
          /\ b2 = regs.LBAMID[2] /\ c1 = regs.LBAHI[1] /\ c2 = regs.LBAHI[2]
    <2>1. \A r \in Registers : regs[r][1] \in Nat /\ regs[r][2] \in Nat
      BY <1>1 DEF ByteValues
    <2>2. "LBALO" \in Registers /\ "LBAMID" \in Registers /\ "LBAHI" \in Registers
      BY DEF Registers
    <2>3. /\ regs.LBALO[1] \in Nat /\ regs.LBALO[2] \in Nat /\ regs.LBAMID[1] \in Nat
          /\ regs.LBAMID[2] \in Nat /\ regs.LBAHI[1] \in Nat /\ regs.LBAHI[2] \in Nat
      BY <2>1, <2>2
    <2> QED BY <2>3, Zenon
  <1>5. \A x, y \in Nat : x + BYTE * y \in Nat
    BY PollsAssumption
  <1>6. a2 + BYTE * (b2 + BYTE * (c2 + BYTE * (a1 + BYTE * (b1 + BYTE * c1)))) \in Nat
    BY <1>4, <1>5, Zenon
  <1> QED BY <1>3, <1>4, <1>6, Zenon DEF LbaOf

LEMMA DriveAccepts ==
  ASSUME NEW p \in Ports, NEW ch \in Channel, ~ch.bsy, ChannelOK(p, ch),
         NEW cmd \in {"READ", "WRITE", "IDENTIFY"}, NEW new, new = Accept(ch, p, cmd)
  PROVE  /\ new \in Channel /\ ChannelOK(p, new) /\ new.drive = ch.drive
         /\ drives[DiskOf(p, ch.drive)].kind = "none" => new = ch
         /\ drives[DiskOf(p, ch.drive)].kind # "none" =>
              /\ ~new.drq
              /\ new.job = JobAccepted(cmd, ch.regs)
  <1>1. CASE drives[DiskOf(p, ch.drive)].kind = "none"
    BY <1>1 DEF Accept
  <1>2. CASE drives[DiskOf(p, ch.drive)].kind # "none"
    <2>1. ch.regs \in Regs
      BY DEF Channel
    <2>2. PICK job : job = JobAccepted(cmd, ch.regs)
      OBVIOUS
    <2>3. job \in Job /\ (job.cmd = "IDENTIFY" => job.left = 1)
      BY <2>1, <2>2, RegistersAreNumbers DEF Job, Commands, JobAccepted, JobOf
    <2>4. new = [ch EXCEPT !.bsy = TRUE, !.drq = FALSE, !.err = FALSE, !.job = job]
      BY <1>2, <2>2 DEF Accept, JobAccepted, JobOf
    <2>5. /\ new \in Channel /\ new.drive = ch.drive /\ ~new.drq /\ new.job = job
      BY <2>3, <2>4 DEF Channel
    <2>6. ChannelOK(p, new)
      BY <1>2, <2>3, <2>5 DEF ChannelOK
    <2> QED BY <1>2, <2>2, <2>5, <2>6
  <1> QED BY <1>1, <1>2

LEMMA CommandIsWritten ==
  ASSUME NEW d \in DiskNumbers, NEW ch \in Channel, ~ch.bsy, ChannelOK(PortOf(d), ch),
         NEW lba \in 0 .. (WORD * WORD * WORD - 1), NEW count \in 0 .. (WORD - 1),
         NEW cmd \in {"READ", "WRITE"}, NEW w, w = Command(d, lba, count, cmd),
         NEW new, new = outbCommand(outbRegisters(outbDrive(ch, w), w), PortOf(d), w)
  PROVE  /\ new \in Channel /\ ChannelOK(PortOf(d), new) /\ new.drive = d % 2
         /\ drives[d].kind # "none" =>
              /\ ~new.drq
              /\ count # 0 => new.job = JobOf(cmd, lba, count)
  <1>1. w.drive = d % 2 /\ w.cmd = cmd /\ d % 2 \in {0, 1} /\ PortOf(d) \in Ports
        /\ DiskOf(PortOf(d), d % 2) = d
    BY DisksOfPorts DEF Command
  <1>2. PICK ch1 : ch1 = [ch EXCEPT !.drive = w.drive]
    OBVIOUS
  <1>3. /\ ch1 \in Channel /\ ~ch1.bsy /\ ch1.drive = d % 2 /\ ch1.job = ch.job
        /\ ch1.drq = ch.drq
    BY <1>1, <1>2 DEF Channel
  <1>4. outbDrive(ch, w) = ch1
    BY <1>2 DEF outbDrive
  <1>5. PICK old \in Regs : old = ch1.regs
    BY <1>3 DEF Channel
  <1>6. PICK regs : /\ regs = Written(old, Command(d, lba, count, cmd).bytes)
                    /\ regs \in Regs /\ LbaOf(regs) = lba
                    /\ count # 0 => SectorsOf(regs.SEC) = count
    BY <1>5, RegistersHoldCommand
  <1>7. PICK ch2 : ch2 = [ch1 EXCEPT !.regs = regs]
    OBVIOUS
  <1>8. /\ ch2 \in Channel /\ ~ch2.bsy /\ ch2.drive = d % 2 /\ ch2.job = ch.job
        /\ ch2.drq = ch.drq /\ ch2.regs = regs
    BY <1>3, <1>6, <1>7 DEF Channel
  <1>9. outbRegisters(ch1, w) = ch2
    BY <1>3, <1>5, <1>6, <1>7 DEF outbRegisters, Channel, Written
  <1>10. new = Accept(ch2, PortOf(d), cmd)
    BY <1>1, <1>4, <1>8, <1>9 DEF outbCommand
  <1>11. ChannelOK(PortOf(d), ch2)
    BY <1>8 DEF ChannelOK
  <1>12. cmd \in {"READ", "WRITE", "IDENTIFY"} /\ cmd # "IDENTIFY"
    OBVIOUS
  <1>13. PICK p \in Ports : p = PortOf(d)
    BY <1>1
  <1>14. new = Accept(ch2, p, cmd) /\ ChannelOK(p, ch2) /\ DiskOf(p, ch2.drive) = d
    BY <1>1, <1>8, <1>10, <1>11, <1>13
  <1>15. /\ new \in Channel /\ ChannelOK(p, new) /\ new.drive = ch2.drive
         /\ drives[DiskOf(p, ch2.drive)].kind # "none" =>
              ~new.drq /\ new.job = JobAccepted(cmd, ch2.regs)
    BY <1>8, <1>12, <1>14, DriveAccepts
  <1>16. count # 0 => JobAccepted(cmd, ch2.regs) = JobOf(cmd, lba, count)
    BY <1>6, <1>8, <1>12 DEF JobAccepted
  <1> QED BY <1>8, <1>13, <1>14, <1>15, <1>16

LEMMA IssueKeeps ==
  ASSUME AtaInv, Issue
  PROVE  AtaInv'
  <1>1. DrivesInv /\ ChannelsInv /\ CallInv /\ PlaceInv /\ ChannelServesCall /\ DataInv
    BY DEF AtaInv
  <1>2. UNCHANGED <<drives, call, i, buf>> /\ pc = "issue" /\ ret = FALSE /\ i = 0
    BY <1>1 DEF Issue, PlaceInv
  <1>3. /\ call.fn \in Transfers /\ ~chan[port].bsy /\ call.disk \in DiskNumbers
        /\ call.count \in Counts \cup {0, 1} /\ call.lba \in Lbas
    BY <1>1, <1>2 DEF PlaceInv, ChannelServesCall, CallInv
  <1>4. PICK d \in DiskNumbers, p \in Ports, lba \in 0 .. (WORD * WORD * WORD - 1),
             count \in 0 .. (WORD - 1), cmd \in {"READ", "WRITE"} :
          /\ d = call.disk /\ p = port /\ p = PortOf(d) /\ lba = call.lba /\ count = call.count
          /\ cmd = IF call.fn = "writesectorpio" THEN "WRITE" ELSE "READ"
    <2>1. WORD \in Nat /\ WORD >= 2
      BY PollsAssumption DEF WORD
    <2>2. call.count \in 0 .. (WORD - 1)
      <3>1. 0 \in 0 .. (WORD - 1) /\ 1 \in 0 .. (WORD - 1)
        BY <2>1
      <3> QED BY <1>3, <3>1, CallsAssumption
    <2>3. call.lba \in 0 .. (WORD * WORD * WORD - 1)
      BY <1>3, CallsAssumption, Zenon
    <2>4. port = PortOf(call.disk) /\ port \in Ports
      BY <1>3, DisksOfPorts DEF port
    <2> QED BY <1>3, <2>2, <2>3, <2>4
  <1>5. PICK ch \in Channel, w \in {Command(d, lba, count, cmd)} : ch = chan[p]
    BY <1>1 DEF ChannelsInv
  <1>6. PICK new : new = outbCommand(outbRegisters(outbDrive(ch, w), w), PortOf(d), w)
    OBVIOUS
  <1>7. chan' = [chan EXCEPT ![p] = new]
    BY <1>1, <1>4, <1>5, <1>6 DEF Issue, ChannelsInv
  <1>8. ~ch.bsy /\ ChannelOK(PortOf(d), ch)
    BY <1>1, <1>3, <1>4, <1>5 DEF ChannelsInv
  <1>9. /\ new \in Channel /\ ChannelOK(PortOf(d), new) /\ new.drive = d % 2
        /\ drives[d].kind # "none" =>
             /\ ~new.drq
             /\ count # 0 => new.job = JobOf(cmd, lba, count)
    BY <1>5, <1>6, <1>8, CommandIsWritten
  <1>10. ChannelsInv' /\ chan'[p] = new
    BY <1>1, <1>2, <1>4, <1>7, <1>9, OneChannelChanges
  <1>11. DrivesInv' /\ CallInv'
    BY <1>1, <1>2, <1>3 DEF DrivesInv, CallInv, Transfers, Readers
  <1>12. /\ count = 0 => pc' = "idle" /\ ret' = TRUE /\ polls' = 0
         /\ count # 0 => pc' = "busy" /\ ret' = FALSE /\ polls' = polls
    BY <1>2, <1>4 DEF Issue, Return
  <1>13. PlaceInv'
    <2>1. polls' \in 0 .. (POLLS - 1) /\ call'.count = count /\ i' = 0 /\ call'.fn = call.fn
      BY <1>1, <1>2, <1>4, <1>12, PollsAssumption DEF PlaceInv
    <2>2. CASE count = 0
      <3>1. i' \in 0 .. call'.count /\ i' = call'.count
        BY <2>1, <2>2
      <3> QED BY <1>12, <2>1, <2>2, <3>1 DEF PlaceInv
    <2>3. CASE count # 0
      <3>1. i' \in 0 .. call'.count /\ i' < call'.count
        BY <2>1, <2>3
      <3> QED BY <1>12, <2>1, <2>3, <3>1, Zenon DEF PlaceInv
    <2> QED BY <2>2, <2>3
  <1>14. ChannelServesCall'
    <2>1. CASE count = 0
      BY <1>12, <2>1 DEF ChannelServesCall, Commanded
    <2>2. CASE count # 0
      <3>1. port' = p /\ DiskOf(p, chan'[p].drive) = d
        BY <1>2, <1>4, <1>9, <1>10, DisksOfPorts DEF port
      <3>2. KindAt(port)' = drives[d].kind
        BY <1>2, <3>1 DEF KindAt
      <3>3. call.fn # "disk_probe"
        BY <1>3 DEF Transfers, Readers
      <3>4. lba = lba + 0 /\ count = count - 0
        OBVIOUS
      <3>5. chan'[port'].drive = call'.disk % 2
        BY <1>2, <1>4, <1>9, <1>10, <3>1
      <3>6. KindAt(port)' # "none" => /\ ~chan'[port'].drq
                                      /\ chan'[port'].job = [cmd |-> cmd, lba |-> call'.lba + i',
                                                             left |-> call'.count - i']
        BY <1>2, <1>4, <1>9, <1>10, <2>2, <3>1, <3>2, <3>4 DEF JobOf
      <3>7. cmd = IF call'.fn = "writesectorpio" THEN "WRITE" ELSE "READ"
        BY <1>2, <1>4
      <3> QED BY <1>2, <1>12, <2>2, <3>3, <3>5, <3>6, <3>7 DEF ChannelServesCall, Commanded
    <2> QED BY <2>1, <2>2
  <1>15. DataInv'
    <2>1. call.fn # "disk_probe"
      BY <1>3 DEF Transfers, Readers
    <2> QED BY <1>1, <1>2, <2>1 DEF DataInv, Sector, Returned
  <1> QED BY <1>10, <1>11, <1>13, <1>14, <1>15 DEF AtaInv

(* What disk_probe() writes reaches the channel unless that is busy.       *)
LEMMA ProbeWritesChannel ==
  ASSUME AtaInv, ProbeWrites
  PROVE  \E ch \in Channel :
           /\ chan' = [chan EXCEPT ![port] = ch] /\ ChannelOK(port, ch)
           /\ chan[port].bsy => ch = chan[port]
           /\ ~chan[port].bsy => ch.drive = IF pc = "select" THEN 0 ELSE chan[port].drive
           /\ pc # "identify" => ch.bsy = chan[port].bsy
           /\ ~chan[port].bsy /\ pc = "identify"
                /\ drives[DiskOf(port, ch.drive)].kind # "none" => ~ch.drq /\ ch.job.cmd = "IDENTIFY"
  <1>1. ChannelsInv /\ CallInv
    BY DEF AtaInv
  <1>2. PICK p \in Ports : p = port
    BY <1>1, DisksOfPorts DEF CallInv, port
  <1>3. PICK old \in Channel : old = chan[p] /\ ChannelOK(p, old)
    BY <1>1 DEF ChannelsInv
  <1>4. Identify.drive = 0 /\ Identify.cmd = "IDENTIFY"
    BY DEF Identify
  <1>5. CASE old.bsy
    <2>1. chan' = [chan EXCEPT ![p] = old]
      BY <1>1, <1>2, <1>3, <1>5
         DEF ProbeWrites, outbDrive, outbRegisters, outbCommand, ChannelsInv
    <2> QED BY <1>2, <1>3, <1>5, <2>1
  <1>6. CASE ~old.bsy /\ pc = "select"
    <2>1. PICK ch : ch = [old EXCEPT !.drive = 0]
      OBVIOUS
    <2>2. chan' = [chan EXCEPT ![p] = ch]
      BY <1>1, <1>2, <1>3, <1>4, <1>6, <2>1 DEF ProbeWrites, outbDrive, ChannelsInv
    <2>3. /\ ch \in Channel /\ ~ch.bsy /\ ch.drive = 0 /\ ch.drq = old.drq /\ ch.job = old.job
      BY <1>6, <2>1 DEF Channel
    <2>4. ChannelOK(p, ch)
      BY <1>3, <2>3 DEF ChannelOK
    <2>5. /\ pc # "identify" /\ ~chan[port].bsy /\ ch.bsy = chan[port].bsy
          /\ chan' = [chan EXCEPT ![port] = ch] /\ ChannelOK(port, ch)
      BY <1>2, <1>3, <1>6, <2>2, <2>3, <2>4 DEF Channel
    <2> QED BY <1>6, <2>3, <2>5
  <1>7. CASE ~old.bsy /\ pc = "clear"
    <2>1. PICK regs \in Regs : regs = Written(old.regs, Identify.bytes)
      BY RegistersHoldIdentify DEF Channel
    <2>2. PICK ch : ch = [old EXCEPT !.regs = regs]
      OBVIOUS
    <2>3. chan' = [chan EXCEPT ![p] = ch]
      BY <1>1, <1>2, <1>3, <1>7, <2>1, <2>2 DEF ProbeWrites, outbRegisters, ChannelsInv, Written
    <2>4. /\ ch \in Channel /\ ~ch.bsy /\ ch.drive = old.drive /\ ch.drq = old.drq
          /\ ch.job = old.job
      BY <1>7, <2>1, <2>2 DEF Channel
    <2>5. ChannelOK(p, ch)
      BY <1>3, <2>4 DEF ChannelOK
    <2>6. /\ pc \notin {"identify", "select"} /\ ~chan[port].bsy /\ ch.bsy = chan[port].bsy
          /\ chan' = [chan EXCEPT ![port] = ch] /\ ChannelOK(port, ch)
          /\ ch.drive = chan[port].drive
      BY <1>2, <1>3, <1>7, <2>3, <2>4, <2>5 DEF Channel
    <2> QED BY <2>4, <2>6
  <1>8. CASE ~old.bsy /\ pc = "identify"
    <2>1. PICK cmd \in {"READ", "WRITE", "IDENTIFY"} : cmd = "IDENTIFY"
      OBVIOUS
    <2>2. PICK ch : ch = Accept(old, p, cmd)
      OBVIOUS
    <2>3. chan' = [chan EXCEPT ![p] = ch]
      BY <1>1, <1>2, <1>3, <1>4, <1>8, <2>1, <2>2 DEF ProbeWrites, outbCommand, ChannelsInv
    <2>4. /\ ch \in Channel /\ ChannelOK(p, ch) /\ ch.drive = old.drive
          /\ drives[DiskOf(p, old.drive)].kind # "none" =>
               ~ch.drq /\ ch.job = JobAccepted(cmd, old.regs)
      BY <1>3, <1>8, <2>2, DriveAccepts
    <2>5. JobAccepted(cmd, old.regs).cmd = "IDENTIFY"
      BY <2>1 DEF JobAccepted, JobOf
    <2> QED BY <1>2, <1>3, <1>8, <2>3, <2>4, <2>5
  <1> QED BY <1>3, <1>5, <1>6, <1>7, <1>8 DEF ProbeWrites

LEMMA ProbeWritesKeeps ==
  ASSUME AtaInv, ProbeWrites
  PROVE  AtaInv'
  <1>1. DrivesInv /\ ChannelsInv /\ CallInv /\ PlaceInv /\ ChannelServesCall /\ DataInv
    BY DEF AtaInv
  <1>2. UNCHANGED <<drives, call, polls, i, buf, ret>>
    BY DEF ProbeWrites
  <1>3. /\ \/ pc = "select" /\ pc' = "clear"
           \/ pc = "clear" /\ pc' = "identify"
           \/ pc = "identify" /\ pc' = "sense"
        /\ call.fn = "disk_probe" /\ i = 0 /\ call.count = 1
    BY <1>1 DEF ProbeWrites, PlaceInv, CallInv
  <1>4. port \in Ports /\ port' = port
    BY <1>1, <1>2, DisksOfPorts DEF CallInv, port
  <1>5. PICK ch \in Channel :
          /\ chan' = [chan EXCEPT ![port] = ch] /\ ChannelOK(port, ch)
          /\ chan[port].bsy => ch = chan[port]
          /\ ~chan[port].bsy => ch.drive = IF pc = "select" THEN 0 ELSE chan[port].drive
          /\ pc # "identify" => ch.bsy = chan[port].bsy
          /\ ~chan[port].bsy /\ pc = "identify"
               /\ drives[DiskOf(port, ch.drive)].kind # "none" => ~ch.drq /\ ch.job.cmd = "IDENTIFY"
    BY ProbeWritesChannel
  <1>6. ChannelsInv' /\ chan'[port] = ch
    BY <1>1, <1>2, <1>4, <1>5, OneChannelChanges
  <1>7. DrivesInv' /\ CallInv'
    BY <1>1, <1>2, <1>3 DEF DrivesInv, CallInv
  <1>8. PlaceInv'
    BY <1>1, <1>2, <1>3 DEF PlaceInv
  <1>9. DataInv'
    BY <1>1, <1>2, <1>3 DEF DataInv, Sector, Returned, Readers
  <1>10. ChannelServesCall'
    <2>1. KindAt(port)' = drives[DiskOf(port, ch.drive)].kind
      BY <1>2, <1>4, <1>6 DEF KindAt
    <2>2. pc' \in Commanded => pc = "identify"
      BY <1>3 DEF Commanded
    <2>3. pc' \in Commanded /\ ch.drq => KindAt(port)' = "none"
      BY <1>1, <1>4, <1>5, <2>1, <2>2 DEF ChannelsInv, ChannelOK
    <2>4. call.free => /\ ~chan[port].bsy
                       /\ pc # "select" => chan[port].drive = 0
      BY <1>1, <1>3 DEF ChannelServesCall
    <2>5. call.free => /\ pc # "identify" => ~ch.bsy
                       /\ ch.drive = 0
                       /\ pc = "identify" /\ KindAt(port)' # "none" => ch.job.cmd = "IDENTIFY"
      BY <1>3, <1>5, <2>1, <2>4
    <2>6. pc' \notin {"issue", "signature", "drq", "move", "busy"} /\ call'.fn \notin Transfers
      BY <1>2, <1>3 DEF Transfers, Readers
    <2>7. pc' \in {"clear", "identify"} => pc # "identify"
      BY <1>3
    <2> QED BY <1>2, <1>3, <1>4, <1>6, <2>2, <2>3, <2>5, <2>6, <2>7 DEF ChannelServesCall
  <1> QED BY <1>6, <1>7, <1>8, <1>9, <1>10 DEF AtaInv

-----------------------------------------------------------------------------
(* A sector is moved                                                       *)

(* The drive that moves is a disk and has the sector that it moves.        *)
LEMMA DriveMoves ==
  ASSUME AtaInv, MoveSector
  PROVE  \E ch \in Channel, d \in DiskNumbers :
           /\ port \in Ports /\ ch = chan[port] /\ d = DiskOf(port, ch.drive)
           /\ ch.drq /\ ~ch.bsy /\ ch.job.left > 0 /\ drives[d].kind = "disk"
           /\ ch.job.cmd = "IDENTIFY" => ch.job.left = 1
           /\ ch.job.cmd = "IDENTIFY" \/ ch.job.lba < drives[d].size
           /\ call.fn \in Transfers =>
                /\ d = call.disk
                /\ ch.job = [cmd |-> IF call.fn = "writesectorpio" THEN "WRITE" ELSE "READ",
                             lba |-> call.lba + i, left |-> call.count - i]
           /\ call.fn = "disk_probe" /\ call.free => d = 0 /\ ch.job.cmd = "IDENTIFY"
  <1>1. ChannelsInv /\ CallInv /\ ChannelServesCall /\ pc = "move"
    BY DEF AtaInv, MoveSector
  <1>2. PICK p \in Ports : p = port /\ p = PortOf(call.disk) /\ call.disk \in DiskNumbers
    BY <1>1, DisksOfPorts DEF CallInv, port
  <1>3. PICK ch \in Channel : ch = chan[p] /\ ChannelOK(p, ch) /\ ch.drive \in {0, 1}
    BY <1>1 DEF ChannelsInv, Channel
  <1>4. PICK d \in DiskNumbers : d = DiskOf(p, ch.drive)
    BY <1>3, DisksOfPorts
  <1>5. ch.drq /\ KindAt(port) # "none" /\ Offers(port) /\ KindAt(port) = drives[d].kind
    BY <1>1, <1>2, <1>3, <1>4 DEF ChannelServesCall, Commanded, KindAt
  <1>6. drives[d].kind = "disk" /\ (ch.job.cmd = "IDENTIFY" \/ ch.job.lba < drives[d].size)
    BY <1>2, <1>3, <1>4, <1>5 DEF Offers
  <1>7. ~ch.bsy /\ ch.job.left > 0 /\ (ch.job.cmd = "IDENTIFY" => ch.job.left = 1)
    BY <1>3, <1>5 DEF ChannelOK
  <1>8. call.fn \in Transfers =>
          /\ d = call.disk
          /\ ch.job = [cmd |-> IF call.fn = "writesectorpio" THEN "WRITE" ELSE "READ",
                       lba |-> call.lba + i, left |-> call.count - i]
    BY <1>1, <1>2, <1>3, <1>4, <1>5, DisksOfPorts DEF ChannelServesCall
  <1>9. call.fn = "disk_probe" /\ call.free => d = 0 /\ ch.job.cmd = "IDENTIFY"
    <2>1. call.fn = "disk_probe" /\ call.free => ch.drive = 0 /\ ch.job.cmd = "IDENTIFY"
      BY <1>1, <1>2, <1>3, <1>5 DEF ChannelServesCall, Commanded
    <2>2. call.fn = "disk_probe" => p = "PRIMARY"
      BY <1>1, <1>2 DEF CallInv, PortOf
    <2> QED BY <1>4, <2>1, <2>2 DEF DiskOf
  <1> QED BY <1>2, <1>3, <1>4, <1>5, <1>6, <1>7, <1>8, <1>9

LEMMA ChannelMoves ==
  ASSUME NEW ch \in Channel, NEW p \in Ports, ~ch.bsy, ch.job.left > 0,
         ch.job.cmd = "IDENTIFY" => ch.job.left = 1,
         drives[DiskOf(p, ch.drive)].kind = "disk"
  PROVE  /\ Moved(ch) \in Channel /\ ChannelOK(p, Moved(ch)) /\ ~Moved(ch).drq
         /\ Moved(ch).drive = ch.drive
         /\ ch.job.left > 1 =>
              Moved(ch).job = [cmd |-> ch.job.cmd, lba |-> ch.job.lba + 1, left |-> ch.job.left - 1]
  <1>1. PICK job : job = IF ch.job.cmd = "WRITE" \/ ch.job.left > 1
                           THEN [ch.job EXCEPT !.lba = @ + 1, !.left = @ - 1] ELSE NoJob
    OBVIOUS
  <1>2. PICK old \in Job : old = ch.job
    BY DEF Channel
  <1>3. NoJob \in Job /\ NoJob.cmd = "none"
    BY DEF NoJob, Job, Commands
  <1>4. [old EXCEPT !.lba = @ + 1, !.left = @ - 1]
          = [cmd |-> old.cmd, lba |-> old.lba + 1, left |-> old.left - 1]
    <2>1. PICK mid : mid = [old EXCEPT !.lba = @ + 1]
      OBVIOUS
    <2>2. mid = [cmd |-> old.cmd, lba |-> old.lba + 1, left |-> old.left]
      BY <2>1 DEF Job
    <2>3. [mid EXCEPT !.left = old.left - 1]
            = [cmd |-> old.cmd, lba |-> old.lba + 1, left |-> old.left - 1]
      BY <2>2
    <2> QED BY <2>1, <2>3
  <1>5. /\ old.cmd \in Commands /\ old.lba \in Nat /\ old.left \in Nat /\ old.left > 0
        /\ old.cmd = "IDENTIFY" => old.left = 1
    BY <1>2 DEF Job
  <1>6. job \in Job /\ job.cmd # "IDENTIFY"
    <2>1. CASE old.cmd = "WRITE" \/ old.left > 1
      <3>1. job = [cmd |-> old.cmd, lba |-> old.lba + 1, left |-> old.left - 1]
        BY <1>1, <1>2, <1>4, <2>1
      <3>2. old.lba + 1 \in Nat /\ old.left - 1 \in Nat /\ old.cmd # "IDENTIFY"
        BY <1>5, <2>1
      <3> QED BY <1>5, <3>1, <3>2 DEF Job
    <2>2. CASE ~(old.cmd = "WRITE" \/ old.left > 1)
      BY <1>1, <1>2, <1>3, <2>2
    <2> QED BY <2>1, <2>2
  <1>7. PICK bsy \in BOOLEAN : bsy = (ch.bsy \/ ch.job.cmd = "WRITE" \/ ch.job.left > 1)
    OBVIOUS
  <1>8. Moved(ch) = [ch EXCEPT !.drq = FALSE, !.bsy = bsy, !.job = job]
    BY <1>1, <1>7 DEF Moved, Channel
  <1>9. /\ Moved(ch) \in Channel /\ ~Moved(ch).drq /\ Moved(ch).drive = ch.drive
        /\ Moved(ch).job = job
    BY <1>6, <1>8 DEF Channel
  <1>10. ChannelOK(p, Moved(ch))
    BY <1>6, <1>9 DEF ChannelOK
  <1>11. ch.job.left > 1 =>
           Moved(ch).job = [cmd |-> ch.job.cmd, lba |-> ch.job.lba + 1, left |-> ch.job.left - 1]
    BY <1>1, <1>2, <1>4, <1>9
  <1> QED BY <1>9, <1>10, <1>11

(* One sector of a disk that has it is stored, and no other changes.       *)
LEMMA SectorStored ==
  ASSUME DrivesInv, NEW d \in DiskNumbers, NEW lba \in Nat, lba < drives[d].size,
         NEW v \in Values, StoreAt(d, lba, v)
  PROVE  /\ DrivesInv'
         /\ \A e \in DiskNumbers : drives'[e].kind = drives[e].kind /\ drives'[e].size = drives[e].size
         /\ \A e \in DiskNumbers : \A n \in 0 .. (drives[e].size - 1) :
              drives'[e].data[n] = IF e = d /\ n = lba THEN v ELSE drives[e].data[n]
  <1>1. PICK data : data = [drives[d].data EXCEPT ![lba] = v]
    OBVIOUS
  <1>2. drives[d].size \in Nat /\ lba \in 0 .. (drives[d].size - 1)
    BY DEF DrivesInv
  <1>3. /\ data \in [0 .. (drives[d].size - 1) -> Values]
        /\ \A n \in 0 .. (drives[d].size - 1) :
             data[n] = IF n = lba THEN v ELSE drives[d].data[n]
    BY <1>1, <1>2 DEF DrivesInv
  <1>4. drives[d] = [kind |-> drives[d].kind, size |-> drives[d].size, data |-> drives[d].data]
    BY DEF DrivesInv
  <1>5. PICK new : new = [kind |-> drives[d].kind, size |-> drives[d].size, data |-> data]
    OBVIOUS
  <1>6. drives' = [drives EXCEPT ![d] = new]
    <2>1. new = [drives[d] EXCEPT !.data = data]
      BY <1>4, <1>5
    <2>2. drives' = [drives EXCEPT ![d] = [drives[d] EXCEPT !.data = data]]
      BY <1>1 DEF StoreAt, DrivesInv
    <2> QED BY <2>1, <2>2, Zenon
  <1>7. \A e \in DiskNumbers : drives'[e] = IF e = d THEN new ELSE drives[e]
    BY <1>6 DEF DrivesInv
  <1>8. DOMAIN drives' = DiskNumbers /\ drives' = [e \in DiskNumbers |-> drives'[e]]
    BY <1>6 DEF DrivesInv
  <1>9. \A e \in DiskNumbers :
          /\ drives'[e] = [kind |-> drives'[e].kind, size |-> drives'[e].size,
                           data |-> drives'[e].data]
          /\ drives'[e].kind = drives[e].kind /\ drives'[e].size = drives[e].size
          /\ drives'[e].data = IF e = d THEN data ELSE drives[e].data
    <2> SUFFICES ASSUME NEW e \in DiskNumbers
                 PROVE  /\ drives'[e] = [kind |-> drives'[e].kind, size |-> drives'[e].size,
                                         data |-> drives'[e].data]
                        /\ drives'[e].kind = drives[e].kind /\ drives'[e].size = drives[e].size
                        /\ drives'[e].data = IF e = d THEN data ELSE drives[e].data
      OBVIOUS
    <2>1. CASE e = d
      BY <1>5, <1>7, <2>1
    <2>2. CASE e # d
      <3>1. drives[e] = [kind |-> drives[e].kind, size |-> drives[e].size, data |-> drives[e].data]
        BY DEF DrivesInv
      <3> QED BY <1>7, <2>2, <3>1
    <2> QED BY <2>1, <2>2
  <1>10. DrivesInv'
    <2>1. drives' = [e \in DiskNumbers |-> [kind |-> drives'[e].kind, size |-> drives'[e].size,
                                           data |-> drives'[e].data]]
      BY <1>8, <1>9
    <2>2. \A e \in DiskNumbers :
            /\ drives'[e].kind \in Kinds /\ drives'[e].size \in Nat
            /\ drives'[e].data \in [0 .. (drives'[e].size - 1) -> Values]
      BY <1>3, <1>9 DEF DrivesInv
    <2> QED BY <2>1, <2>2 DEF DrivesInv
  <1> QED BY <1>3, <1>9, <1>10

LEMMA DataIsItem ==
  ASSUME NEW p \in Ports, NEW d \in DiskNumbers, DrivesInv,
         d = DiskOf(p, chan[p].drive), chan[p].drq, chan[p].job.lba \in Nat,
         chan[p].job.cmd = "IDENTIFY" \/ chan[p].job.lba < drives[d].size
  PROVE  /\ DataAt(p) \in Items
         /\ chan[p].job.cmd # "IDENTIFY" => DataAt(p) = Sector(d, chan[p].job.lba)
         /\ chan[p].job.cmd = "IDENTIFY" => DataAt(p).of = "identity" /\ DataAt(p).disk = d
  <1>1. CASE chan[p].job.cmd = "IDENTIFY"
    BY <1>1 DEF DataAt, Items
  <1>2. CASE chan[p].job.cmd # "IDENTIFY"
    <2>1. DataAt(p) = Sector(d, chan[p].job.lba)
      BY <1>2 DEF DataAt, Sector
    <2>2. drives[d].data[chan[p].job.lba] \in Nat
      <3>1. chan[p].job.lba \in 0 .. (drives[d].size - 1)
        BY <1>2 DEF DrivesInv
      <3> QED BY <3>1, CallsAssumption DEF DrivesInv
    <2> QED BY <1>2, <2>1, <2>2 DEF Sector, Items
  <1> QED BY <1>1, <1>2

(* What a sector leaves behind: the caller's memory, or the disk           *)
LEMMA MoveKeepsData ==
  ASSUME AtaInv, MoveSector
  PROVE  /\ DrivesInv' /\ DataInv'
         /\ \A d \in DiskNumbers : drives'[d].kind = drives[d].kind
         /\ call.fn # "writesectorpio" => drives' = drives
  <1>1. DrivesInv /\ CallInv /\ PlaceInv /\ DataInv
    BY DEF AtaInv
  <1>2. PICK ch \in Channel, d \in DiskNumbers :
          /\ port \in Ports /\ ch = chan[port] /\ d = DiskOf(port, ch.drive)
          /\ ch.drq /\ ~ch.bsy /\ ch.job.left > 0 /\ drives[d].kind = "disk"
          /\ ch.job.cmd = "IDENTIFY" => ch.job.left = 1
          /\ ch.job.cmd = "IDENTIFY" \/ ch.job.lba < drives[d].size
          /\ call.fn \in Transfers =>
               /\ d = call.disk
               /\ ch.job = [cmd |-> IF call.fn = "writesectorpio" THEN "WRITE" ELSE "READ",
                            lba |-> call.lba + i, left |-> call.count - i]
          /\ call.fn = "disk_probe" /\ call.free => d = 0 /\ ch.job.cmd = "IDENTIFY"
    BY DriveMoves
  <1>3. call' = call /\ i' = i + 1 /\ i \in 0 .. call.count /\ i < call.count /\ pc = "move"
    BY <1>1 DEF MoveSector, PlaceInv
  <1>4. i \in Nat /\ call.lba \in Nat /\ ch.job.lba \in Nat /\ call.disk \in DiskNumbers
    BY <1>1, <1>3 DEF CallInv, Channel, Job
  <1>5. CASE call.fn = "writesectorpio"
    <2>1. /\ ch.job.lba = call.lba + i /\ ch.job.cmd = "WRITE" /\ d = call.disk
          /\ call.value \in Values
      BY <1>1, <1>2, <1>5 DEF Transfers, CallInv
    <2>2. PICK lba \in Nat, v \in Values : lba = call.lba + i /\ v = call.value
      BY <1>4, <2>1
    <2>3. lba < drives[d].size /\ StoreAt(d, lba, v) /\ buf' = buf
      BY <1>2, <1>5, <2>1, <2>2 DEF MoveSector
    <2>4. /\ DrivesInv'
          /\ \A e \in DiskNumbers : drives'[e].kind = drives[e].kind /\ drives'[e].size = drives[e].size
          /\ \A e \in DiskNumbers : \A n \in 0 .. (drives[e].size - 1) :
               drives'[e].data[n] = IF e = d /\ n = lba THEN v ELSE drives[e].data[n]
      BY <1>1, <2>3, SectorStored
    <2>5. \A n \in 0 .. i : drives'[call.disk].data[call.lba + n] = call.value
      <3> SUFFICES ASSUME NEW n \in 0 .. i
                   PROVE  drives'[call.disk].data[call.lba + n] = call.value
        OBVIOUS
      <3>1. call.lba + n \in 0 .. (drives[d].size - 1)
        BY <1>1, <1>4, <2>2, <2>3 DEF DrivesInv
      <3>2. CASE n = i
        BY <2>1, <2>2, <2>4, <3>1, <3>2
      <3>3. CASE n # i
        <4>1. n \in 0 .. (i - 1) /\ call.lba + n # lba
          BY <1>4, <2>2, <3>3
        <4>2. drives[call.disk].data[call.lba + n] = call.value
          BY <1>1, <1>5, <4>1 DEF DataInv
        <4> QED BY <2>1, <2>4, <3>1, <4>1, <4>2
      <3> QED BY <3>2, <3>3
    <2>6. DataInv'
      <3>1. buf' \in Seq(Items) /\ Len(buf') = 0
        BY <1>1, <1>5, <2>3 DEF DataInv
      <3>2. i' - 1 = i
        BY <1>3, <1>4
      <3>3. call'.fn = "writesectorpio"
        BY <1>3, <1>5
      <3>4. \A n \in 0 .. (i' - 1) : drives'[call'.disk].data[call'.lba + n] = call'.value
        BY <1>3, <2>5, <3>2
      <3> QED BY <3>1, <3>3, <3>4 DEF DataInv, Readers, Returned
    <2> QED BY <1>5, <2>4, <2>6
  <1>6. CASE call.fn # "writesectorpio"
    <2>1. PICK item : item = DataAt(port)
      OBVIOUS
    <2>2. /\ item \in Items
          /\ ch.job.cmd # "IDENTIFY" => item = Sector(d, ch.job.lba)
          /\ ch.job.cmd = "IDENTIFY" => item.of = "identity" /\ item.disk = d
      BY <1>1, <1>2, <1>4, <2>1, DataIsItem
    <2>3. buf' = Append(buf, item) /\ drives' = drives
      BY <1>6, <2>1 DEF MoveSector
    <2>4. buf \in Seq(Items) /\ Len(buf) = i
      BY <1>1, <1>6 DEF DataInv
    <2>5. /\ buf' \in Seq(Items) /\ Len(buf') = i + 1 /\ buf'[i + 1] = item
          /\ \A n \in 1 .. i : buf'[n] = buf[n]
      BY <2>2, <2>3, <2>4, AppendProperties
    <2>6. call.fn \in Readers =>
            \A n \in 1 .. (i + 1) : buf'[n] = Sector(call.disk, call.lba + n - 1)
      <3> SUFFICES ASSUME call.fn \in Readers, NEW n \in 1 .. (i + 1)
                   PROVE  buf'[n] = Sector(call.disk, call.lba + n - 1)
        OBVIOUS
      <3>1. CASE n = i + 1
        <4>1. ch.job.cmd # "IDENTIFY" /\ ch.job.lba = call.lba + i /\ d = call.disk
          BY <1>2, <1>6 DEF Transfers
        <4>2. call.lba + n - 1 = call.lba + i
          BY <1>4, <3>1
        <4> QED BY <2>2, <2>5, <3>1, <4>1, <4>2
      <3>2. CASE n # i + 1
        <4>1. n \in 1 .. i /\ n \in 1 .. Len(buf)
          BY <1>4, <2>4, <3>2
        <4> QED BY <1>1, <2>5, <4>1 DEF DataInv
      <3> QED BY <3>1, <3>2
    <2>7. call.fn = "disk_probe" /\ call.free =>
            buf'[1].of = "identity" /\ buf'[1].disk = 0 /\ drives[0].kind = "disk"
      <3>1. call.fn = "disk_probe" => i = 0
        BY <1>1, <1>3 DEF CallInv
      <3> QED BY <1>2, <2>2, <2>5, <3>1
    <2>8. DataInv'
      <3>1. buf' \in Seq(Items) /\ Len(buf') = i'
        BY <1>3, <2>5
      <3>2. call'.fn # "writesectorpio"
        BY <1>3, <1>6
      <3>3. call'.fn \in Readers =>
              \A n \in 1 .. Len(buf') :
                buf'[n] = [of |-> "sector", disk |-> call'.disk, lba |-> call'.lba + n - 1,
                           value |-> drives'[call'.disk].data[call'.lba + n - 1]]
        BY <1>3, <2>3, <2>5, <2>6, <3>1 DEF Sector
      <3>4. call'.fn = "disk_probe" /\ call'.free =>
              buf'[1].of = "identity" /\ buf'[1].disk = 0 /\ drives'[0].kind = "disk"
        BY <1>3, <2>3, <2>7
      <3> QED BY <3>1, <3>2, <3>3, <3>4 DEF DataInv, Returned, Sector
    <2>9. DrivesInv'
      BY <1>1, <2>3 DEF DrivesInv
    <2> QED BY <2>3, <2>8, <2>9
  <1> QED BY <1>5, <1>6

LEMMA MoveSectorKeeps ==
  ASSUME AtaInv, MoveSector
  PROVE  AtaInv'
  <1>1. DrivesInv /\ ChannelsInv /\ CallInv /\ PlaceInv
    BY DEF AtaInv
  <1>2. DrivesInv' /\ DataInv' /\ \A d \in DiskNumbers : drives'[d].kind = drives[d].kind
    BY MoveKeepsData
  <1>3. PICK ch \in Channel, d \in DiskNumbers :
          /\ port \in Ports /\ ch = chan[port] /\ d = DiskOf(port, ch.drive)
          /\ ch.drq /\ ~ch.bsy /\ ch.job.left > 0 /\ drives[d].kind = "disk"
          /\ ch.job.cmd = "IDENTIFY" => ch.job.left = 1
          /\ ch.job.cmd = "IDENTIFY" \/ ch.job.lba < drives[d].size
          /\ call.fn \in Transfers =>
               /\ d = call.disk
               /\ ch.job = [cmd |-> IF call.fn = "writesectorpio" THEN "WRITE" ELSE "READ",
                            lba |-> call.lba + i, left |-> call.count - i]
          /\ call.fn = "disk_probe" /\ call.free => d = 0 /\ ch.job.cmd = "IDENTIFY"
    BY DriveMoves
  <1>4. /\ call' = call /\ i' = i + 1 /\ i \in 0 .. call.count /\ i < call.count /\ pc = "move"
        /\ ret = FALSE /\ polls \in 0 .. (POLLS - 1)
    BY <1>1 DEF MoveSector, PlaceInv
  <1>5. i \in Nat /\ call.lba \in Nat /\ call.count \in Nat
    BY <1>1, <1>4, CountIsNatural DEF CallInv
  <1>6. PICK p \in Ports, new \in {Moved(ch)} : p = port
    BY <1>3
  <1>7. chan' = [chan EXCEPT ![p] = new]
    BY <1>1, <1>3, <1>6 DEF MoveSector, ChannelsInv
  <1>8. /\ new \in Channel /\ ChannelOK(p, new) /\ ~new.drq /\ new.drive = ch.drive
        /\ ch.job.left > 1 =>
             new.job = [cmd |-> ch.job.cmd, lba |-> ch.job.lba + 1, left |-> ch.job.left - 1]
    BY <1>3, <1>6, ChannelMoves
  <1>9. ChannelsInv' /\ chan'[p] = new
    BY <1>1, <1>2, <1>7, <1>8, OneChannelChanges
  <1>10. /\ i + 1 < call.count => pc' = "busy" /\ ret' = ret /\ polls' = polls
         /\ ~(i + 1 < call.count) =>
              /\ pc' = "idle" /\ polls' = 0 /\ ret' \in BOOLEAN
              /\ call.fn # "disk_probe" => ret' = TRUE
    BY DEF MoveSector, Return, ProbeResults
  <1>11. CallInv'
    <2>1. call.fn # "none"
      BY <1>1, <1>4 DEF CallInv
    <2> QED BY <1>1, <1>4, <2>1 DEF CallInv
  <1>12. PlaceInv'
    <2>1. i' \in 0 .. call'.count
      BY <1>4, <1>5
    <2>2. CASE i + 1 < call.count
      <3>1. i' < call'.count
        BY <1>4, <2>2
      <3>2. polls' \in 0 .. (POLLS - 1) /\ pc' = "busy" /\ ret' = FALSE
        BY <1>4, <1>10, <2>2
      <3> QED BY <2>1, <3>1, <3>2, Zenon DEF PlaceInv
    <2>3. CASE ~(i + 1 < call.count)
      <3>1. i' = call'.count
        BY <1>4, <1>5, <2>3
      <3>2. polls' \in 0 .. (POLLS - 1) /\ pc' = "idle" /\ ret' \in BOOLEAN
        BY <1>10, <2>3, PollsAssumption
      <3>3. call'.fn = "disk_read_sector" => ret' = TRUE
        BY <1>4, <1>10, <2>3
      <3> QED BY <2>1, <3>1, <3>2, <3>3 DEF PlaceInv
    <2> QED BY <2>2, <2>3
  <1>13. ChannelServesCall'
    <2>1. CASE i + 1 < call.count
      <3>1. call.fn # "disk_probe"
        BY <1>1, <1>4, <2>1 DEF CallInv
      <3>2. /\ port' = p /\ chan'[port'] = new /\ ~new.drq
        BY <1>4, <1>6, <1>8, <1>9 DEF port
      <3>3. call.fn \in Transfers =>
              /\ new.drive = call.disk % 2
              /\ new.job = [cmd |-> IF call.fn = "writesectorpio" THEN "WRITE" ELSE "READ",
                            lba |-> call.lba + (i + 1), left |-> call.count - (i + 1)]
        <4> SUFFICES ASSUME call.fn \in Transfers
                     PROVE  /\ new.drive = call.disk % 2
                            /\ new.job = [cmd |-> IF call.fn = "writesectorpio" THEN "WRITE"
                                                  ELSE "READ",
                                          lba |-> call.lba + (i + 1),
                                          left |-> call.count - (i + 1)]
          OBVIOUS
        <4>1. ch.drive = call.disk % 2
          BY <1>3, <1>4 DEF AtaInv, ChannelServesCall
        <4>2. /\ ch.job.cmd = (IF call.fn = "writesectorpio" THEN "WRITE" ELSE "READ")
              /\ ch.job.lba = call.lba + i /\ ch.job.left = call.count - i
          BY <1>3
        <4>3. ch.job.left > 1 /\ ch.job.lba + 1 = call.lba + (i + 1)
              /\ ch.job.left - 1 = call.count - (i + 1)
          BY <1>5, <2>1, <4>2
        <4> QED BY <1>8, <4>1, <4>2, <4>3
      <3>4. pc' = "busy"
        BY <1>10, <2>1
      <3> QED BY <1>4, <3>1, <3>2, <3>3, <3>4 DEF ChannelServesCall, Commanded
    <2>2. CASE ~(i + 1 < call.count)
      BY <1>10, <2>2 DEF ChannelServesCall, Commanded
    <2> QED BY <2>1, <2>2
  <1> QED BY <1>2, <1>9, <1>11, <1>12, <1>13 DEF AtaInv

-----------------------------------------------------------------------------
(* Every step keeps the invariant.                                         *)

LEMMA AtaPreserved == AtaInv /\ [Next]_vars => AtaInv'
  <1> SUFFICES ASSUME AtaInv, [Next]_vars
               PROVE  AtaInv'
    OBVIOUS
  <1>1. Min(Values) \in Values /\ \A lba \in Lbas : lba \in Nat
    BY LeastValue, CallsAssumption
  <1>2. CASE disk_probe
    <2>1. 0 \in Nat /\ 0 \in DiskNumbers /\ "disk_probe" \notin Transfers
      BY DEF DiskNumbers, Transfers, Readers
    <2> QED BY <1>1, <1>2, <2>1, BeginKeeps DEF disk_probe
  <1>3. ASSUME NEW d \in DiskNumbers, NEW lba \in Lbas, disk_read_sector(d, lba)
        PROVE  AtaInv'
    <2>1. "disk_read_sector" \in Transfers
      BY DEF Transfers, Readers
    <2> QED BY <1>1, <1>3, <2>1, BeginKeeps DEF disk_read_sector
  <1>4. ASSUME NEW d \in DiskNumbers, NEW lba \in Lbas, NEW n \in Counts, readsectorpio(d, lba, n)
        PROVE  AtaInv'
    <2>1. "readsectorpio" \in Transfers
      BY DEF Transfers, Readers
    <2> QED BY <1>1, <1>4, <2>1, BeginKeeps DEF readsectorpio
  <1>5. ASSUME NEW d \in DiskNumbers, NEW lba \in Lbas, NEW n \in Counts, NEW v \in Values,
               writesectorpio(d, lba, n, v)
        PROVE  AtaInv'
    <2>1. "writesectorpio" \in Transfers
      BY DEF Transfers, Readers
    <2> QED BY <1>1, <1>5, <2>1, BeginKeeps DEF writesectorpio
  <1>6. CASE driver
    BY <1>6, PollingKeeps, IssueKeeps, ProbeWritesKeeps, MoveSectorKeeps DEF driver
  <1>7. ASSUME NEW p \in Ports, Answer(p)
        PROVE  AtaInv'
    BY <1>7, AnswerKeeps
  <1>8. CASE UNCHANGED vars
    <2>1. UNCHANGED <<chan, drives, pc, call, polls, i, buf, ret>>
      BY <1>8 DEF vars
    <2>2. DrivesInv' /\ ChannelsInv' /\ CallInv' /\ PlaceInv'
      BY <2>1 DEF AtaInv, DrivesInv, ChannelsInv, ChannelOK, CallInv, PlaceInv
    <2>3. ChannelServesCall'
      BY <2>1 DEF AtaInv, ChannelServesCall, port, KindAt, Empty, Offers
    <2>4. DataInv'
      BY <2>1 DEF AtaInv, DataInv, Sector, Returned
    <2> QED BY <2>2, <2>3, <2>4 DEF AtaInv
  <1> QED BY <1>2, <1>3, <1>4, <1>5, <1>6, <1>7, <1>8 DEF Next

LEMMA TypesAreKept == AtaInv => TypeOK
  <1> SUFFICES ASSUME AtaInv
               PROVE  TypeOK
    OBVIOUS
  <1>1. DrivesInv /\ ChannelsInv /\ CallInv /\ PlaceInv /\ DataInv
    BY DEF AtaInv
  <1>2. ASSUME NEW p \in Ports
        PROVE  /\ chan[p].drive \in {0, 1}
               /\ chan[p].bsy \in BOOLEAN /\ chan[p].drq \in BOOLEAN /\ chan[p].err \in BOOLEAN
               /\ chan[p].job.cmd \in {"none", "READ", "WRITE", "IDENTIFY"}
               /\ chan[p].job.left \in Nat
               /\ \A r \in DOMAIN chan[p].regs : chan[p].regs[r] \in Seq(0 .. (BYTE - 1))
    <2>1. PICK ch \in Channel : ch = chan[p]
      BY <1>1 DEF ChannelsInv
    <2>2. ch.job \in Job /\ ch.regs \in Regs
      BY DEF Channel
    <2> QED BY <2>1, <2>2 DEF Channel, Job, Commands, Regs, ByteValues
  <1>3. \A d \in DiskNumbers : \A lba \in DOMAIN drives[d].data : drives[d].data[lba] \in Values
    BY <1>1 DEF DrivesInv
  <1>4. call.disk \in DiskNumbers /\ call.count \in Counts \cup {0, 1}
    BY <1>1 DEF CallInv
  <1>5. Len(buf) <= call.count
    BY <1>1, CountIsNatural DEF DataInv, PlaceInv
  <1> QED BY <1>1, <1>2, <1>3, <1>4, <1>5 DEF TypeOK, PlaceInv

LEMMA InvariantGives == AtaInv => DeliversWhatTheDriveHolds
  <1> SUFFICES ASSUME AtaInv
               PROVE  DeliversWhatTheDriveHolds
    OBVIOUS
  <1>1. CallInv /\ PlaceInv /\ DataInv
    BY DEF AtaInv
  <1>2. ReadGivesTheSectors
    <2>1. ASSUME Returned("disk_read_sector") \/ Returned("readsectorpio"), ret
          PROVE  /\ Len(buf) = call.count
                 /\ \A k \in 1 .. call.count : buf[k] = Sector(call.disk, call.lba + k - 1)
      <3>1. call.fn \in Readers /\ call.fn \in Transfers /\ call.fn # "writesectorpio"
        BY <2>1 DEF Returned, Readers, Transfers
      <3>2. Len(buf) = i /\ i = call.count
        BY <1>1, <2>1, <3>1 DEF DataInv, PlaceInv, Returned
      <3> QED BY <1>1, <3>1, <3>2 DEF DataInv
    <2>2. ASSUME Returned("disk_read_sector"), ~ret
          PROVE  buf = << >>
      <3>1. Len(buf) = 0 /\ buf \in Seq(Items)
        BY <1>1, <2>2 DEF DataInv, PlaceInv, Returned
      <3> QED BY <3>1
    <2>3. \A d, lba : LET item == Sector(d, lba)
                      IN  /\ item.of = "sector" /\ item.disk = d /\ item.lba = lba
                          /\ item.value = drives[d].data[lba]
      BY DEF Sector
    <2> QED BY <2>1, <2>2, <2>3 DEF ReadGivesTheSectors
  <1>3. ProbeIdentifiesTheMaster
    BY <1>1 DEF DataInv, ProbeIdentifiesTheMaster
  <1> QED BY <1>2, <1>3, TypesAreKept DEF DeliversWhatTheDriveHolds

(* What a step may do to the disks: WritesWhereAsked, of one step          *)
WriteStep ==
  /\ \A d \in DiskNumbers : \A lba \in DOMAIN drives[d].data :
       drives'[d].data[lba] # drives[d].data[lba] =>
         /\ call.fn = "writesectorpio" /\ d = call.disk
         /\ lba \in call.lba .. (call.lba + call.count - 1)
  /\ pc # "idle" /\ Returned("writesectorpio")' /\ ret' =>
       \A k \in 0 .. (call.count - 1) :
         drives'[call.disk].data[call.lba + k] = call.value

LEMMA StepsWriteWhereAsked == AtaInv /\ AtaInv' /\ [Next]_vars => [WriteStep]_vars
  <1> SUFFICES ASSUME AtaInv, AtaInv', Next
               PROVE  WriteStep
    BY DEF WriteStep
  <1>1. ASSUME NEW d \in DiskNumbers, NEW lba \in DOMAIN drives[d].data,
               drives'[d].data[lba] # drives[d].data[lba]
        PROVE  /\ call.fn = "writesectorpio" /\ d = call.disk
               /\ lba \in call.lba .. (call.lba + call.count - 1)
    <2>1. MoveSector /\ call.fn = "writesectorpio"
      BY <1>1 DEF Next, driver, disk_probe, disk_read_sector, readsectorpio, writesectorpio, Begin,
                  Answer, ata_wait_not_busy, Issue, ProbeWrites, Sense, CheckSignature,
                  ata_wait_drq, MoveSector
    <2>2. PICK ch \in Channel, e \in DiskNumbers :
            /\ ch = chan[port] /\ e = DiskOf(port, ch.drive)
            /\ call.fn \in Transfers =>
                 /\ e = call.disk
                 /\ ch.job = [cmd |-> IF call.fn = "writesectorpio" THEN "WRITE" ELSE "READ",
                              lba |-> call.lba + i, left |-> call.count - i]
            /\ ch.job.cmd = "IDENTIFY" \/ ch.job.lba < drives[e].size
      BY <2>1, DriveMoves
    <2>3. /\ e = call.disk /\ ch.job.lba = call.lba + i /\ call.lba + i < drives[e].size
      BY <2>1, <2>2 DEF Transfers
    <2>4. i \in 0 .. call.count /\ i < call.count /\ call.lba \in Nat
      BY <2>1 DEF AtaInv, PlaceInv, CallInv, MoveSector
    <2>5. PICK n \in Nat, v \in Values : n = call.lba + i /\ v = call.value
      BY <2>1, <2>4 DEF AtaInv, CallInv, Transfers
    <2>6. StoreAt(e, n, v)
      BY <2>1, <2>2, <2>3, <2>5 DEF MoveSector
    <2>7. DrivesInv /\ n < drives[e].size
      BY <2>3, <2>5 DEF AtaInv
    <2>8. \A f \in DiskNumbers : \A m \in 0 .. (drives[f].size - 1) :
            drives'[f].data[m] = IF f = e /\ m = n THEN v ELSE drives[f].data[m]
      BY <2>6, <2>7, SectorStored
    <2>9. lba \in 0 .. (drives[d].size - 1)
      BY <2>7 DEF DrivesInv
    <2>10. d = e /\ lba = n
      BY <1>1, <2>8, <2>9
    <2>11. call.count \in Nat /\ call.lba + i \in call.lba .. (call.lba + call.count - 1)
      BY <2>4, CountIsNatural DEF AtaInv
    <2> QED BY <2>1, <2>3, <2>5, <2>10, <2>11
  <1>2. ASSUME pc # "idle", Returned("writesectorpio")', ret'
        PROVE  \A k \in 0 .. (call.count - 1) :
                 drives'[call.disk].data[call.lba + k] = call.value
    <2>1. call' = call
      BY <1>2 DEF Next, driver, disk_probe, disk_read_sector, readsectorpio, writesectorpio, Begin,
                  Answer, driverVars, ata_wait_not_busy, Issue, ProbeWrites, Sense, CheckSignature,
                  ata_wait_drq, MoveSector
    <2>2. i' = call.count
      BY <1>2, <2>1 DEF AtaInv, PlaceInv, Returned, Transfers
    <2>3. \A k \in 0 .. (i' - 1) : drives'[call'.disk].data[call'.lba + k] = call'.value
      BY <1>2 DEF AtaInv, DataInv, Returned
    <2> QED BY <2>1, <2>2, <2>3
  <1> QED BY <1>1, <1>2 DEF WriteStep

-----------------------------------------------------------------------------
(* What a read delivers are the sectors it asked for, of the drive it      *)
(* asked, whatever drives still answer to calls that have given up; a read *)
(* that fails leaves the caller's memory alone; disk_probe() identifies    *)
(* the primary master; and every variable keeps its type.                  *)
THEOREM WhatIsDeliveredIsHeld == Spec => []DeliversWhatTheDriveHolds
  <1>1. Spec => []AtaInv
    BY AtaStarts, AtaPreserved, PTL DEF Spec
  <1> QED BY <1>1, InvariantGives, PTL

(* Sectors change only inside the range that a running writesectorpio()    *)
(* was asked to write, and when it returns all of that range is written.   *)
THEOREM OnlyTheRangeIsWritten == Spec => WritesWhereAsked
  <1>1. Spec => []AtaInv
    BY AtaStarts, AtaPreserved, PTL DEF Spec
  <1>2. Spec => [][WriteStep]_vars
    BY <1>1, StepsWriteWhereAsked, PTL DEF Spec
  <1>3. [][WriteStep]_vars => WritesWhereAsked
    BY PTL DEF WriteStep, WritesWhereAsked
  <1> QED BY <1>2, <1>3, PTL

=============================================================================
