---------------------------- MODULE MCGateChild -----------------------------
(* Eight hosts.  Linux: a local root, one on an overlay over a local disk   *)
(* and over NFS, an attempt that lands on NFS, a device with two types.     *)
(* macOS: a local volume and one that is not.  Windows: a network share.    *)
EXTENDS GateChild

Mount(dev, fs) == [dev |-> dev, fs |-> fs, upper |-> NoDevice, local |-> TRUE]
Layer(dev, upper) == [Mount(dev, Overlay) EXCEPT !.upper = upper]

HostOf(os, table, root, attempt, unc) ==
  [os |-> os, table |-> table, dev |-> [root |-> root, attempt |-> attempt], unc |-> unc]
Linux(table, root, attempt) == HostOf("linux", table, root, attempt, FALSE)

Disks == {Mount(1, "ext4"), Mount(2, "nfs"), Layer(3, 1), Layer(4, 2)}

MCHosts ==
  { Linux(Disks, 1, 1), Linux(Disks, 3, 3), Linux(Disks, 4, 4),
    Linux(Disks, 1, 2), Linux(Disks \cup {Mount(1, "nfs")}, 1, 1),
    HostOf("macos", {[Mount(1, "apfs") EXCEPT !.local = FALSE], Mount(2, "apfs")}, 2, 2, FALSE),
    HostOf("macos", {[Mount(1, "apfs") EXCEPT !.local = FALSE], Mount(2, "apfs")}, 1, 1, FALSE),
    HostOf("windows", NoTable, 1, 1, TRUE) }
=============================================================================
