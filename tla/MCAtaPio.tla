------------------------------ MODULE MCAtaPio ------------------------------
(* Bytes of one bit, so that numbers above 7 use the high registers.  Two  *)
(* disks share a channel, one of them ending with the first sector that is *)
(* asked for, and the other channel is empty; or a disk is a slave, as is  *)
(* a packet drive on the other channel; or there is one drive, a disk on   *)
(* the second channel or a packet drive.                                   *)
EXTENDS AtaPio

Drive(kind, size) == [kind |-> kind, size |-> size]

None == Drive("none", 0)
Packet == Drive("packet", 0)

MCMachines ==
  { [d \in DiskNumbers |-> << Drive("disk", 10), Drive("disk", 9), None, None >>[d + 1]],
    [d \in DiskNumbers |-> << None, Drive("disk", 9), None, Packet >>[d + 1]],
    [d \in DiskNumbers |-> << None, None, Drive("disk", 9), None >>[d + 1]],
    [d \in DiskNumbers |-> << Packet, None, None, None >>[d + 1]] }

=============================================================================
