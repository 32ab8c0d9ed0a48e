----------------------------- MODULE Installer -----------------------------
(***************************************************************************)
(* The installer (src/user/installer/installer.c), the process that the    *)
(* kernel starts when it finds no file system or is told to: it selects    *)
(* and formats the first device by itself, then takes commands.  Reading   *)
(* and splitting of the lines is the shell's (module Shell).  Commands     *)
(* that only print, or fail without effect, have no action; formatting     *)
(* writes nothing to the disk.                                             *)
(***************************************************************************)
EXTENDS Startup

CONSTANT Directories     \* how many directories the installation makes (9)

TARGET == <<"target">>

ASSUME InstallerAssumption == Directories \in Nat /\ TARGET \in Targets

VARIABLES
  installer,        \* "off"; in "confirm" (y/n), "prompt" or "install"; "complete"
  target_device,
  dirs              \* directories still to be made by installer_cmd_install

installerVars == <<installer, target_device, dirs>>
systemVars    == <<startupVars, installerVars>>

SystemInit ==
  /\ StartupInit
  /\ installer = "off" /\ target_device = NULL /\ dirs = 0

\* installer_init, and the two commands that installer_run gives itself.
installer_main ==
  /\ process = "installer" /\ installer = "off"
  /\ IF num_block_devices > 0
     THEN installer' = "confirm" /\ target_device' = active_block_devices[1]
     ELSE installer' = "prompt" /\ UNCHANGED target_device
  /\ UNCHANGED <<startupVars, dirs>> /\ ~wild

\* The question of the format command has been answered, either way.
Confirm ==
  /\ installer = "confirm" /\ installer' = "prompt"
  /\ UNCHANGED <<startupVars, target_device, dirs>> /\ ~wild

installer_cmd_format ==
  /\ installer = "prompt" /\ target_device # NULL
  /\ installer' = "confirm"
  /\ UNCHANGED <<startupVars, target_device, dirs>> /\ ~wild

\* A valid number may be followed by anything: a name of more than 63 characters is
\* copied over what is behind its place.
installer_cmd_select_device ==
  /\ installer = "prompt"
  /\ \E i \in DOMAIN active_block_devices : target_device' = active_block_devices[i]
  /\ StaysTame \/ RunsWild
  /\ UNCHANGED <<mountVars, deviceVars, openVars, bootVars, installer, dirs>>

\* The first step of installer_cmd_install; the device it names is not looked at.
MountTarget ==
  /\ installer = "prompt" /\ target_device # NULL
  /\ \/ Mount(TARGET, "ext4") /\ installer' = "install" /\ dirs' = Directories
     \/ MountBlankDisk(TARGET) /\ UNCHANGED <<installer, dirs>>
  /\ UNCHANGED <<bootVars, target_device>>

\* Mutant: the installer insists on its directories.
make_until_found ==
  /\ installer = "install" /\ dirs > 0
  /\ dirs' = dirs - 1
  /\ vfs_mkdir(TARGET \o <<"boot">>)
  /\ UNCHANGED <<bootVars, installer, target_device>>

\* The results are ignored; without memory for the parent's inode nothing happens.
MakeDirectory ==
  /\ installer = "install" /\ dirs > 0
  /\ dirs' = dirs - 1
  /\ vfs_mkdir(TARGET \o <<"boot">>) \/ (~wild /\ UNCHANGED vfsVars)
  /\ UNCHANGED <<bootVars, installer, target_device>>

\* The end of installer_cmd_install, and with it of the installer.
FinishInstall ==
  /\ installer = "install" /\ dirs = 0
  /\ installer' = "complete"
  /\ Umount(TARGET)
  /\ UNCHANGED <<bootVars, target_device, dirs>>

installer_cmd_install == MountTarget \/ MakeDirectory \/ FinishInstall

installer_run ==
  installer_main \/ Confirm \/ installer_cmd_format \/ installer_cmd_select_device
    \/ installer_cmd_install

KernelStep == kernel_main /\ UNCHANGED installerVars

SystemNext == KernelStep \/ installer_run

\* The kernel goes on by itself, and so does a command that has been given; whether
\* the user answers or gives a command is up to him.
SystemSpec ==
  /\ SystemInit /\ [][SystemNext]_systemVars
  /\ WF_systemVars(KernelStep)
  /\ WF_systemVars(MakeDirectory \/ FinishInstall)

-----------------------------------------------------------------------------
(* What the installer promises.                                            *)

SystemTypeOK ==
  /\ StartupTypeOK
  /\ installer \in {"off", "confirm", "prompt", "install", "complete"}
  /\ target_device \in DeviceAddr \cup {NULL}
  /\ dirs \in 0 .. Directories

\* Whenever the installer waits for the user or is done, the mounts are those that
\* start-up left: the root file system survives every attempt to install over it,
\* and the target is not left mounted, whichever directories could not be made.
MountsRestored ==
  installer # "install" /\ boot = "running" =>
    /\ mount_points = <<[path |-> <<"dev">>, fs |-> "devfs"]>> \o
         (IF system_hardware_status = 1 THEN <<[path |-> << >>, fs |-> "ext4"]>> ELSE << >>)
    /\ ext4_fs_data = IF system_hardware_status = 1 THEN << << >> >> ELSE << >>

\* Whatever hardware it finds and whichever allocation fails, the kernel gets to
\* its first process, and an installation that has begun ends, unless control is
\* lost on the way.
KernelProgress ==
  /\ <>(boot = "running" \/ wild)
  /\ installer = "install" ~> (installer = "complete" \/ wild)
=============================================================================
