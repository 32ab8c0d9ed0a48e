------------------------------ MODULE Startup ------------------------------
(***************************************************************************)
(* How the kernel comes up (src/kernel/kernel.c): the PCI scan that makes  *)
(* a block device of every Intel function (src/kernel/pic.c), the file     *)
(* layer of Vfs, the drive, the root file system, the keyboard with its    *)
(* driver manager (src/driver/driver.c), and the first process.            *)
(*                                                                         *)
(* Interrupts are off until activate, the last call before init_user_mode, *)
(* and there is no process before that has created one, so nothing that is *)
(* modelled here interleaves with kernel_main; what varies is the hardware *)
(* and which allocation fails.  Functions of other vendors leave           *)
(* everything as it was.  `boot' is the step that comes next.              *)
(***************************************************************************)
EXTENDS Vfs

CONSTANTS
  MAX_BLOCK_DEVICES, MAX_DRIVER_SIZE,
  MaxFunctions,          \* bound: Intel functions on the PCI bus
  Lines                  \* interrupt lines that functions report; 255: none

KEYBOARD_LINE == 1

ASSUME StartupAssumption ==
  /\ {MAX_BLOCK_DEVICES, MAX_DRIVER_SIZE, MaxFunctions} \subseteq Nat
  /\ Len(DiskNames) = MAX_BLOCK_DEVICES + 1
  /\ Lines \subseteq 0 .. 255
  /\ MAX_FILESYSTEMS > 1 /\ MAX_MOUNT_POINTS > 1 /\ MAX_DEVICES > 1
  /\ {<< >>, <<"dev">>} \subseteq Targets

VARIABLES
  boot,                  \* the next step of kernel_main
  functions,             \* Intel functions not yet scanned
  block_devices,         \* the BlockDevice structures allocated
  handlers,              \* of the interrupt manager, for the lines in use
  drivers,               \* of the driver manager
  system_hardware_status,
  process                \* the process init_user_mode has created

bootVars    == <<boot, functions, block_devices, handlers, drivers,
                 system_hardware_status, process>>
startupVars == <<vfsVars, bootVars>>

StartupInit ==
  /\ VfsInit
  /\ boot = "select_drivers"
  /\ functions \in 0 .. MaxFunctions
  /\ block_devices = {}
  /\ handlers = [l \in {n \in Lines : n < 16} \cup {KEYBOARD_LINE} |-> "none"]
  /\ drivers = << >>
  /\ system_hardware_status = 0
  /\ process = "none"

-----------------------------------------------------------------------------
(* The PCI scan.                                                           *)

\* A free line of the two controllers gets the handler of block devices, if there is
\* memory for it; other lines, 255 for none among them, get nothing.
RegisterBlockHandler(line) ==
  \/ line < 16 /\ handlers[line] = "none"
     /\ handlers' = [handlers EXCEPT ![line] = "block"]
  \/ UNCHANGED handlers

\* Mutant: the last slot is not told from a full table.
room_in_full_table == num_block_devices <= MAX_BLOCK_DEVICES

RoomForDevice == num_block_devices < MAX_BLOCK_DEVICES

\* The device registers itself with devfs before its driver exists; without a
\* driver, or without room among the active devices, it is freed again.
set_8086_device(line) ==
  \E d \in DeviceAddr \ block_devices :
    /\ block_device_initialize(d)
    /\ \/ UNCHANGED <<block_devices, active_block_devices, handlers>>
       \/ /\ RegisterBlockHandler(line)
          /\ IF RoomForDevice
             THEN /\ active_block_devices' = Append(active_block_devices, d)
                  /\ block_devices' = block_devices \cup {d}
             ELSE UNCHANGED <<active_block_devices, block_devices>>

\* One Intel function.  The driver manager gets none of their drivers.
select_drivers ==
  /\ boot = "select_drivers" /\ functions > 0
  /\ functions' = functions - 1
  /\ \/ \E line \in Lines : set_8086_device(line)
     \/ UNCHANGED <<deviceVars, block_devices, handlers>>
  /\ UNCHANGED <<mountVars, openVars, boot, drivers, system_hardware_status, process>>
  /\ StaysTame

-----------------------------------------------------------------------------
(* The file layer.                                                         *)

\* Mutant: the devices the scan has registered are kept.
init_keeps_devices == UNCHANGED devices

\* devfs_init forgets what was registered before it.
ClearDevices == devices' = << >>

\* vfs_init finds its tables as they are in a fresh kernel.
InitFileLayer ==
  /\ boot = "select_drivers" /\ functions = 0
  /\ boot' = "devfs_mount"
  /\ ClearDevices
  /\ UNCHANGED <<mountVars, openVars, active_block_devices, functions, block_devices,
                 handlers, drivers, system_hardware_status, process>>
  /\ StaysTame

MountDevfs ==
  /\ boot = "devfs_mount" /\ boot' = "ext4_init"
  /\ devfs_mount(<<"dev">>)
  /\ UNCHANGED <<functions, block_devices, handlers, drivers, system_hardware_status, process>>

InitExt4 ==
  /\ boot = "ext4_init" /\ boot' = "drive"
  /\ ext4_init
  /\ UNCHANGED <<functions, block_devices, handlers, drivers, system_hardware_status, process>>

\* No drive, or no memory for its structure.
NoDrive ==
  /\ boot = "drive" /\ boot' = "keyboard"
  /\ system_hardware_status' = 0
  /\ UNCHANGED <<vfsVars, functions, block_devices, handlers, drivers, process>>
  /\ ~wild

\* kernel_main does not look whether there is room for one more device.
UseDrive ==
  /\ boot = "drive" /\ boot' = "root"
  /\ \E d \in DeviceAddr \ block_devices :
       /\ block_device_initialize(d)
       /\ block_devices' = block_devices \cup {d}
       /\ \/ /\ num_block_devices < MAX_BLOCK_DEVICES
             /\ active_block_devices' = Append(active_block_devices, d)
             /\ StaysTame
          \/ /\ num_block_devices = MAX_BLOCK_DEVICES
             /\ UNCHANGED active_block_devices
             /\ RunsWild
  /\ UNCHANGED <<mountVars, openVars, functions, handlers, drivers,
                 system_hardware_status, process>>

\* vfs_mount("/dev/hda0", "/", "ext4"); ext4 takes the first active device,
\* whatever the name says.  Without memory for it the disk counts as unformatted.
MountRoot ==
  /\ boot = "root" /\ boot' = "keyboard"
  /\ \/ Mount(<< >>, "ext4") /\ system_hardware_status' = 1
     \/ ~wild /\ UNCHANGED vfsVars /\ system_hardware_status' = 2
     \/ MountBlankDisk(<< >>) /\ UNCHANGED system_hardware_status
  /\ UNCHANGED <<functions, block_devices, handlers, drivers, process>>

-----------------------------------------------------------------------------
(* Keyboard and first process.                                             *)

append_driver(driver) ==
  drivers' = IF Len(drivers) < MAX_DRIVER_SIZE THEN Append(drivers, driver) ELSE drivers

\* Mutant: the keyboard respects a handler that is there.
handler_if_free ==
  handlers' = [handlers EXCEPT ![KEYBOARD_LINE] = IF @ = "none" THEN "keyboard" ELSE @]

\* The keyboard takes its line from whoever has it.
KeyboardHandler == handlers' = [handlers EXCEPT ![KEYBOARD_LINE] = "keyboard"]

AddKeyboard ==
  /\ boot = "keyboard" /\ boot' = "user_mode"
  /\ \/ /\ create_keyboard_driver
        /\ KeyboardHandler
        /\ append_driver("keyboard")
     \/ ~wild /\ UNCHANGED <<vfsVars, handlers, drivers>>
  /\ UNCHANGED <<functions, block_devices, system_hardware_status, process>>

\* The flag is whatever the memory at 0x9000 holds.
init_user_mode ==
  /\ boot = "user_mode" /\ boot' = "running"
  /\ \E flag \in BOOLEAN, created \in BOOLEAN :
       process' = IF ~created THEN "none"
                  ELSE IF flag \/ system_hardware_status = 2 THEN "installer" ELSE "shell"
  /\ UNCHANGED <<vfsVars, functions, block_devices, handlers, drivers, system_hardware_status>>
  /\ ~wild

kernel_main ==
  \/ select_drivers \/ InitFileLayer \/ MountDevfs \/ InitExt4
  \/ NoDrive \/ UseDrive \/ MountRoot \/ AddKeyboard \/ init_user_mode

-----------------------------------------------------------------------------
(* What start-up promises.                                                 *)

StartupTypeOK ==
  /\ VfsTypeOK
  /\ boot \in {"select_drivers", "devfs_mount", "ext4_init", "drive", "root", "keyboard",
               "user_mode", "running"}
  /\ functions \in 0 .. MaxFunctions
  /\ block_devices \subseteq DeviceAddr
  /\ num_block_devices <= MAX_BLOCK_DEVICES
  /\ \A l \in DOMAIN handlers : handlers[l] \in {"none", "block", "keyboard"}
  /\ drivers \in Seq({"keyboard"})
  /\ system_hardware_status \in 0 .. 2
  /\ process \in {"none", "shell", "installer"}

\* Once the file layer is up nothing points to a device that was freed: neither an
\* active device nor a node of devfs, although the scan leaves nodes of freed devices
\* behind and later devices are given the same name and the same memory.
DevicesLive ==
  /\ ToSet(active_block_devices) \subseteq block_devices
  /\ IsInjective(active_block_devices)
  /\ boot # "select_drivers" =>
       \A i \in DOMAIN devices :
         devices[i].type = "BLOCK_DEVICE" => devices[i].device_data \in block_devices

\* When the keyboard has a driver, key presses reach it whatever lines the PCI
\* functions have claimed before, and devfs lists it however many devices they have
\* registered.
KeyboardWired ==
  drivers # << >> =>
    /\ handlers[KEYBOARD_LINE] = "keyboard"
    /\ find_device_by_name("keyboard") # {}
=============================================================================
