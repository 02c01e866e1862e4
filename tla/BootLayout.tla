---------------------------- MODULE BootLayout ----------------------------
(***************************************************************************)
(* Where `vmtainer boot` puts things in guest memory, in KiB: the real-    *)
(* mode area, the kernel at 1 MiB, the initrd at the top of RAM, and the   *)
(* E820 map the guest kernel is given.                                     *)
(***************************************************************************)
EXTENDS Integers

\* A range of guest memory [at, at + len).
Region(at, len) == [at |-> at, len |-> len]
Overlap(r, s) == r.at < s.at + s.len /\ s.at < r.at + r.len
Within(r, s) == s.at <= r.at /\ r.at + r.len <= s.at + s.len

EBDA == 639
VGA == 640
BIOS == 960
Kernel == 1024

\* setup_bios(): interrupt table and BIOS data area, EBDA, video ROM, BIOS.
BiosRegions == {Region(0, 2), Region(EBDA, 1), Region(768, 32), Region(BIOS, 64)}

\* setup_e820(): the entries of type RAM and the reserved ones.
E820Ram(ram) == {Region(0, EBDA), Region(Kernel, ram - Kernel)}
E820Reserved == {Region(EBDA, VGA - EBDA), Region(BIOS, 64)}

\* load_bzimage(): setup code, command line, protected-mode kernel.
SetupRegion(setup) == Region(64, setup)
CmdlineRegion == Region(128, 4)
KernelRegion(kernel) == Region(Kernel, kernel)

\* Mutant: aligned up.
InitrdAtUp(ram, initrd) == ((ram - initrd + 1023) \div 1024) * 1024

\* load_initrd(): as high as it fits, aligned down to 1 MiB.
InitrdAt(ram, initrd) == ((ram - initrd) \div 1024) * 1024
InitrdRegion(ram, initrd) == Region(InitrdAt(ram, initrd), initrd)

Loaded(ram, setup, kernel, initrd) ==
  <<SetupRegion(setup), CmdlineRegion, KernelRegion(kernel), InitrdRegion(ram, initrd)>>
=============================================================================
