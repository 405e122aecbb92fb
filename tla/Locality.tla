------------------------------ MODULE Locality -------------------------------
(***************************************************************************)
(* Whether a path is on a local file system: what the probe of each OS      *)
(* measures (harness-sandbox/src/locality.rs) and what is decided over it   *)
(* (harness-policy/src/locality.rs).                                        *)
(*                                                                          *)
(* A host is [os, table, dev, unc]: the mount table is a set of mounts, or  *)
(* Unreadable, dev gives the device of each path, or NoDevice.  One type    *)
(* stands for the local ones of each OS.  The parsing of the table is left  *)
(* out: a table that does not parse is Unreadable.                          *)
(***************************************************************************)
EXTENDS Naturals, FiniteSets

LinuxLocal   == {"ext4"}           \* ext2/3/4, xfs, btrfs, tmpfs, zfs, f2fs
MacLocal     == {"apfs", "hfs"}
WindowsLocal == {"NTFS", "ReFS"}
Overlay      == "overlay"
NoDevice     == 0
NoUpper      == "no-upper"
NoTable      == {}                 \* unreadable, malformed or empty: all refused

QueryFailed == [of |-> "failed"]
Unmeasured  == [of |-> "unmeasured"]
OnLinux(fs, upper) == [of |-> "linux", fs |-> fs, upper |-> upper]
OnMac(fs, local)   == [of |-> "macos", fs |-> fs, local |-> local]
OnWindows(fs, drive, unc) == [of |-> "windows", fs |-> fs, drive |-> drive, unc |-> unc]

\* classify: an allowlist; a failed query or none at all is a refusal.
Admitted(query) ==
  \/ /\ query.of = "linux"
     /\ \/ query.fs \in LinuxLocal
        \/ query.fs = Overlay /\ query.upper \in LinuxLocal
  \/ query.of = "macos" /\ query.local /\ query.fs \in MacLocal
  \/ query.of = "windows" /\ ~query.unc /\ query.drive = "fixed" /\ query.fs \in WindowsLocal

-----------------------------------------------------------------------------
\* The types mounted with a device; bind mounts must agree on one.
TypesOf(table, dev) == {m.fs : m \in {mount \in table : mount.dev = dev}}
\* mutant: mounts of one device need not agree
SomeType(table, dev) == TypesOf(table, dev) # {}
AgreedType(table, dev) == Cardinality(TypesOf(table, dev)) = 1
TypeOfDevice(table, dev) == CHOOSE fs \in TypesOf(table, dev) : TRUE

\* upperdir of the first mount found, resolved to a device and that to a type
UpperOf(table, dev) ==
  LET upper == (CHOOSE mount \in table : mount.dev = dev).upper
  IN  IF AgreedType(table, upper) THEN TypeOfDevice(table, upper) ELSE NoUpper

LinuxMeasure(table, dev) ==
  IF ~AgreedType(table, dev) THEN QueryFailed
  ELSE LET fs == TypeOfDevice(table, dev)
       IN  OnLinux(fs, IF fs = Overlay THEN UpperOf(table, dev) ELSE NoUpper)

\* Only local mounts are asked for their device.
MacMeasure(table, dev) ==
  LET candidates == {m \in table : m.local /\ m.fs \in MacLocal /\ m.dev = dev}
  IN  IF candidates = {} THEN QueryFailed ELSE OnMac((CHOOSE m \in candidates : TRUE).fs, TRUE)

Probe(host, path) ==
  CASE host.os \in {"linux", "macos"} /\ host.dev[path] = NoDevice -> QueryFailed
    [] host.os = "linux" /\ host.dev[path] # NoDevice -> LinuxMeasure(host.table, host.dev[path])
    [] host.os = "macos" /\ host.dev[path] # NoDevice -> MacMeasure(host.table, host.dev[path])
    [] host.os = "windows" -> IF host.unc THEN OnWindows("", "unknown", TRUE) ELSE Unmeasured
    [] OTHER -> Unmeasured

\* check
IsLocal(host, path) == Admitted(Probe(host, path))

-----------------------------------------------------------------------------
(***************************************************************************)
(* What is the case, whatever a probe finds: a mount of the path's device,  *)
(* or of the device below its overlay, is none of the local ones, or the    *)
(* path is on a share.                                                      *)
(***************************************************************************)
RemoteDevice(table, dev) ==
  \E mount \in table : mount.dev = dev /\ mount.fs \notin LinuxLocal \cup {Overlay}

IsRemote(host, path) ==
  LET dev == host.dev[path]
  IN  \/ /\ host.os = "linux"
         /\ \/ RemoteDevice(host.table, dev)
            \/ \E mount \in host.table :
                 mount.dev = dev /\ mount.fs = Overlay /\ RemoteDevice(host.table, mount.upper)
      \/ host.os = "macos" /\ \A mount \in host.table : mount.dev = dev => ~mount.local
      \/ host.os = "windows" /\ host.unc

\* An overlay has one upper layer, wherever it is mounted.
HostIs(host) ==
  /\ IsFiniteSet(host.table)
  /\ \A m, n \in host.table : m.dev = n.dev /\ m.fs = Overlay /\ n.fs = Overlay => m.upper = n.upper
=============================================================================
