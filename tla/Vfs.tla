--------------------------------- MODULE Vfs ---------------------------------
(***************************************************************************)
(* The file layer: mount table, path lookup, inodes and descriptors        *)
(* (src/fs/vfs.c), the device registry (src/fs/devfs.c) and what ext4 adds *)
(* to a mounted tree and an open file (src/fs/ext4.c).  The system calls   *)
(* run with interrupts off and one call is one step.                       *)
(*                                                                         *)
(* A path is the sequence of its names; "/" is the empty sequence.  Inodes *)
(* and tables of operations live at heap addresses that are used again     *)
(* after a free.  A call through a pointer that is not (or no longer) a    *)
(* table of operations may do anything: it sets `wild', and the model      *)
(* claims nothing from there on.  A call that fails and leaves everything  *)
(* as it was has no action.  File offsets and what is on the disk are not  *)
(* modelled.                                                               *)
(***************************************************************************)
EXTENDS Integers, Sequences, FiniteSets, SequencesExt

CONSTANTS
  Paths,                 \* the paths callers use
  Targets,               \* the paths callers mount on
  InodeAddr, OpsAddr,    \* heap addresses of Inode and FileOperations
  DeviceAddr,            \* heap addresses of BlockDevice
  DiskNames,             \* "hda%d" of 0, 1, ..., as a sequence
  NULL,
  MAX_FILE_DESCRIPTORS, MAX_MOUNT_POINTS, MAX_FILESYSTEMS, MAX_DEVICES

ASSUME VfsAssumption ==
  /\ {MAX_FILE_DESCRIPTORS, MAX_MOUNT_POINTS, MAX_FILESYSTEMS, MAX_DEVICES} \subseteq Nat \ {0}
  /\ NULL \notin InodeAddr \cup OpsAddr \cup DeviceAddr
  /\ DiskNames \in Seq(STRING) /\ IsInjective(DiskNames)
  /\ Paths \cup Targets \subseteq Seq(STRING)

VARIABLES
  registered_filesystems,
  mount_points,          \* [path, fs], in the order of the array
  devfs_mount_point,     \* <<target of devfs_mount>>, or << >> for NULL
  ext4_fs_data,          \* <<target ext4 is mounted on>>, or << >> for NULL
  devices,               \* [name, type, device_data], in the order of the array
  active_block_devices,
  inodes,                \* the Inode at each address; ref_count 0: not allocated
  operations,            \* the table of operations at each address
  file_descriptors,
  wild

mountVars == <<registered_filesystems, mount_points, devfs_mount_point, ext4_fs_data>>
deviceVars == <<devices, active_block_devices>>
openVars   == <<inodes, operations, file_descriptors>>
vfsVars    == <<mountVars, deviceVars, openVars, wild>>

Fd == 0 .. MAX_FILE_DESCRIPTORS - 1
DeviceName     == {"keyboard"} \cup ToSet(DiskNames)
FileSystemName == {"ext4", "devfs"}
DeviceType     == {"BLOCK_DEVICE", "CHAR_DEVICE"}
Inode == [type: {"REGULAR", "DIRECTORY"}, ref_count: Nat, private_data: OpsAddr \cup {NULL}]
DeviceNode == [name: DeviceName, type: DeviceType, device_data: DeviceAddr \cup {NULL}]
FileDescriptor == [inode: InodeAddr \cup {NULL}, ops: OpsAddr \cup {NULL}, ref_count: {0, 1}]

VfsTypeOK ==
  /\ registered_filesystems \in Seq(FileSystemName)
  /\ Len(registered_filesystems) <= MAX_FILESYSTEMS
  /\ mount_points \in Seq([path: Targets, fs: FileSystemName])
  /\ Len(mount_points) <= MAX_MOUNT_POINTS
  /\ devices \in Seq(DeviceNode)
  /\ Len(devices) <= MAX_DEVICES
  /\ {devfs_mount_point, ext4_fs_data} \subseteq {<< >>} \cup {<<t>> : t \in Targets}
  /\ active_block_devices \in Seq(DeviceAddr)
  /\ inodes \in [InodeAddr -> Inode]
  /\ operations \in [OpsAddr -> {"file", "dir", "free"}]
  /\ file_descriptors \in [Fd -> FileDescriptor]
  /\ wild \in BOOLEAN

num_block_devices == Len(active_block_devices)

NoInode      == [type |-> "REGULAR", ref_count |-> 0, private_data |-> NULL]
NoDescriptor == [inode |-> NULL, ops |-> NULL, ref_count |-> 0]

vfs_init ==
  /\ registered_filesystems = << >> /\ mount_points = << >>
  /\ inodes = [a \in InodeAddr |-> NoInode]
  /\ operations = [a \in OpsAddr |-> "free"]
  /\ file_descriptors = [fd \in Fd |-> NoDescriptor]

devfs_init == devices = << >> /\ devfs_mount_point = << >>

\* How a call ends: in the code of the kernel, or anywhere.
StaysTame == ~wild /\ wild' = FALSE
RunsWild  == ~wild /\ wild' = TRUE

VfsInit == vfs_init /\ devfs_init /\ ext4_fs_data = << >> /\ active_block_devices = << >> /\ wild = FALSE

-----------------------------------------------------------------------------
(* Mount table.                                                            *)

vfs_register_filesystem(fs) ==
  /\ Len(registered_filesystems) < MAX_FILESYSTEMS
  /\ fs \notin ToSet(registered_filesystems)
  /\ registered_filesystems' = Append(registered_filesystems, fs)

\* Mutant: ext4 mounts again over a mounted file system.
mount_over(fs, target) ==
  IF fs = "ext4" THEN num_block_devices > 0 /\ ext4_fs_data' = <<target>>
  ELSE UNCHANGED ext4_fs_data

\* The mount function of file system fs succeeds, with its effect on ext4.
FsMount(fs, target) ==
  IF fs = "ext4"
  THEN ext4_fs_data = << >> /\ num_block_devices > 0 /\ ext4_fs_data' = <<target>>
  ELSE UNCHANGED ext4_fs_data

\* The checks vfs_mount makes on its table.
MountRoom(target) ==
  /\ Len(mount_points) < MAX_MOUNT_POINTS
  /\ \A i \in DOMAIN mount_points : mount_points[i].path # target

vfs_mount(target, fs) ==
  /\ MountRoom(target)
  /\ FsMount(fs, target)
  /\ mount_points' = Append(mount_points, [path |-> target, fs |-> fs])

\* Mutant: ext4 keeps its data.
umount_keeps_data(fs, target) ==
  /\ fs = "ext4" => ext4_fs_data = <<target>>
  /\ UNCHANGED ext4_fs_data

\* The umount function of file system fs succeeds.
FsUmount(fs, target) ==
  IF fs = "ext4" THEN ext4_fs_data = <<target>> /\ ext4_fs_data' = << >>
  ELSE UNCHANGED ext4_fs_data

vfs_umount(target) ==
  \E i \in DOMAIN mount_points :
    /\ mount_points[i].path = target
    /\ FsUmount(mount_points[i].fs, target)
    /\ mount_points' = RemoveAt(mount_points, i)

\* Without memory for the copy of its path a mount point holds NULL, and every later
\* walk through the table compares the memory at address 0 with a path.
Mount(target, fs) ==
  /\ fs \in ToSet(registered_filesystems)
  /\ vfs_mount(target, fs)
  /\ StaysTame \/ RunsWild
  /\ UNCHANGED <<registered_filesystems, devfs_mount_point, deviceVars, openVars>>

\* ext4_mount divides by the size of the block groups it has read: on a blank disk,
\* where it is 0, the caller repeats the divide exception for ever.
MountBlankDisk(target) ==
  /\ "ext4" \in ToSet(registered_filesystems)
  /\ MountRoom(target) /\ ext4_fs_data = << >> /\ num_block_devices > 0
  /\ RunsWild
  /\ UNCHANGED <<mountVars, deviceVars, openVars>>

Umount(target) ==
  /\ vfs_umount(target)
  /\ UNCHANGED <<registered_filesystems, devfs_mount_point, deviceVars, openVars>> /\ StaysTame

ext4_init ==
  /\ vfs_register_filesystem("ext4")
  /\ UNCHANGED <<mount_points, devfs_mount_point, ext4_fs_data, deviceVars, openVars>> /\ StaysTame

\* devfs stays registered when its mount fails.
devfs_mount(target) ==
  /\ vfs_register_filesystem("devfs")
  /\ \/ /\ vfs_mount(target, "devfs")
        /\ devfs_mount_point' \in {<< >>, <<target>>}   \* << >>: no memory for it
        /\ StaysTame \/ RunsWild
     \/ /\ ~MountRoom(target) /\ StaysTame
        /\ UNCHANGED <<mount_points, ext4_fs_data, devfs_mount_point>>
  /\ UNCHANGED <<deviceVars, openVars>>

\* vfs_umount goes by the path, whatever is mounted there by now.
devfs_umount ==
  /\ devfs_mount_point # << >>
  /\ vfs_umount(devfs_mount_point[1])
  /\ devfs_mount_point' = << >>
  /\ UNCHANGED <<registered_filesystems, deviceVars, openVars>> /\ StaysTame

-----------------------------------------------------------------------------
(* Devices.                                                                *)

find_device_by_name(name) == {i \in DOMAIN devices : devices[i].name = name}

CanRegister(name) == Len(devices) < MAX_DEVICES /\ find_device_by_name(name) = {}

\* A device that cannot be registered is left out; no caller minds.
devfs_register_device(name, type, data) ==
  \/ /\ CanRegister(name)
     /\ devices' = Append(devices, [name |-> name, type |-> type, device_data |-> data])
  \/ ~CanRegister(name) /\ UNCHANGED devices

devfs_unregister_device(name) ==
  /\ \E i \in find_device_by_name(name) : devices' = RemoveAt(devices, i)
  /\ UNCHANGED <<active_block_devices, mountVars, openVars>> /\ StaysTame

\* The name of the device at d is made of the number of block devices so far.
block_device_initialize(d) ==
  devfs_register_device(DiskNames[num_block_devices + 1], "BLOCK_DEVICE", d)

\* kernel_main initialises the drive and counts it, registered or not.
AddDrive ==
  /\ num_block_devices < Len(DiskNames)
  /\ \E d \in DeviceAddr \ ToSet(active_block_devices) :
       /\ block_device_initialize(d)
       /\ active_block_devices' = Append(active_block_devices, d)
  /\ UNCHANGED <<mountVars, openVars>> /\ StaysTame

create_keyboard_driver ==
  /\ devfs_register_device("keyboard", "CHAR_DEVICE", NULL)
  /\ UNCHANGED <<active_block_devices, mountVars, openVars>> /\ StaysTame

-----------------------------------------------------------------------------
(* Path lookup.                                                            *)

\* The mount path, closed by a slash, is the start of the path.  "/dev" itself
\* does not start with "/dev/".
Covers(mount, path) == mount = << >> \/ IsStrictPrefix(mount, path)

\* Mutant: the first mount point that covers the path is taken.
first_match(path) ==
  LET best[n \in 0 .. Len(mount_points)] ==
        IF n = 0 THEN 0
        ELSE IF best[n - 1] = 0 /\ Covers(mount_points[n].path, path) THEN n ELSE best[n - 1]
  IN  best

\* The loop over the mount points: the best of the first n, 0 when none of them
\* covers the path.
best_match(path) ==
  LET best[n \in 0 .. Len(mount_points)] ==
        IF n = 0 THEN 0
        ELSE LET b == best[n - 1]
             IN  IF /\ Covers(mount_points[n].path, path)
                    /\ b = 0 \/ Len(mount_points[n].path) > Len(mount_points[b].path)
                 THEN n ELSE b
  IN  best

\* The file system of a path and the path in it.  Without a match the code cuts
\* the path at the length of the first mount point, wherever that falls.
vfs_find_mount_point(path) ==
  LET best == best_match(path)[Len(mount_points)]
  IN  IF mount_points = << >> THEN {}
      ELSE IF best # 0
      THEN {[fs |-> mount_points[best].fs,
             rel |-> SubSeq(path, Len(mount_points[best].path) + 1, Len(path))]}
      ELSE {[fs |-> mount_points[1].fs, rel |-> r] : r \in Paths \cup {<< >>}}

\* What get_inode of the file system makes of the rest of the path: ext4 takes
\* every path but "/" for a regular file.
KindOf(r) ==
  CASE r.fs = "ext4" -> IF ext4_fs_data = << >> THEN "none"
                        ELSE IF r.rel = << >> THEN "DIRECTORY" ELSE "REGULAR"
    [] r.fs = "devfs" -> IF \E i \in DOMAIN devices : r.rel = <<devices[i].name>>
                         THEN "device" ELSE "none"

-----------------------------------------------------------------------------
(* Inodes and descriptors.                                                 *)

FreeInode == {a \in InodeAddr : inodes[a].ref_count = 0}
FreeOps   == {o \in OpsAddr : operations[o] = "free"}

\* The inode at a and the table at o that ext4_find_inode allocates.
vfs_create_inode(a, kind, o) ==
  [inodes EXCEPT ![a] = [type |-> kind, ref_count |-> 1, private_data |-> o]]

ext4_find_inode(kind, o) ==
  [operations EXCEPT ![o] = IF kind = "REGULAR" THEN "file" ELSE "dir"]

\* Mutant: the last reference does not free the inode.
destroy_keeps_last(nodes, a) ==
  [nodes EXCEPT ![a].ref_count = IF @ > 1 THEN @ - 1 ELSE @]

vfs_destroy_inode(nodes, a) ==
  IF nodes[a].ref_count > 1 THEN [nodes EXCEPT ![a].ref_count = @ - 1]
  ELSE [nodes EXCEPT ![a] = NoInode]

UnusedFd == {fd \in Fd : file_descriptors[fd].ref_count = 0}

allocate_file_descriptor(a, o) ==
  \E fd \in UnusedFd :
    /\ \A other \in UnusedFd : fd <= other
    /\ file_descriptors' = [file_descriptors EXCEPT
         ![fd] = [inode |-> a, ops |-> o, ref_count |-> 1]]

\* vfs_open of a file or directory of ext4.  Its open function (files only) can
\* fail for want of memory: then the inode goes and its table stays behind, as
\* that of a directory does when no descriptor is left.  A file's open function reads
\* the inode of the disk into places smaller than a block, and may run wild.
vfs_open(path) ==
  \E r \in vfs_find_mount_point(path), a \in FreeInode, o \in FreeOps :
    LET kind == KindOf(r)
        made == vfs_create_inode(a, kind, o)
        ops  == ext4_find_inode(kind, o)
    IN  /\ kind \in {"REGULAR", "DIRECTORY"}
        /\ \/ /\ allocate_file_descriptor(a, o)
              /\ inodes' = made /\ operations' = ops /\ StaysTame
           \/ /\ kind = "REGULAR"
              /\ inodes' = vfs_destroy_inode(made, a) /\ operations' = ops
              /\ UNCHANGED file_descriptors /\ StaysTame
           \/ /\ UnusedFd = {}
              /\ inodes' = vfs_destroy_inode(made, a)
              /\ operations' = IF kind = "REGULAR" THEN operations ELSE ops
              /\ UNCHANGED file_descriptors /\ StaysTame
           \/ kind = "REGULAR" /\ RunsWild /\ UNCHANGED openVars
        /\ UNCHANGED <<mountVars, deviceVars>>

\* vfs_open of a device: the open function is read from the place where
\* devfs_get_inode has put the pointer to the device.
OpenDevice(path) ==
  /\ \E r \in vfs_find_mount_point(path) : KindOf(r) = "device" /\ FreeInode # {}
  /\ RunsWild
  /\ UNCHANGED <<mountVars, deviceVars, openVars>>

\* Mutant: the close function frees the descriptor's table instead of the
\* inode's private data.
close_frees_ops(fd) ==
  LET d == file_descriptors[fd]
  IN  /\ d.ref_count > 0 /\ operations[d.ops] # "free"
      /\ operations' = IF operations[d.ops] = "file"
                       THEN [operations EXCEPT ![d.ops] = "free"] ELSE operations
      /\ inodes' = vfs_destroy_inode(inodes, d.inode)
      /\ file_descriptors' = [file_descriptors EXCEPT
           ![fd] = [@ EXCEPT !.inode = NULL, !.ops = NULL, !.ref_count = 0]]
      /\ UNCHANGED <<mountVars, deviceVars>> /\ StaysTame

\* The close function of a file frees the private data of the inode; a
\* directory's table has none.
vfs_close(fd) ==
  LET d    == file_descriptors[fd]
      data == inodes[d.inode].private_data
  IN  /\ d.ref_count > 0 /\ operations[d.ops] # "free"
      /\ operations' = IF operations[d.ops] = "file" /\ data # NULL
                       THEN [operations EXCEPT ![data] = "free"] ELSE operations
      /\ inodes' = vfs_destroy_inode(inodes, d.inode)
      /\ file_descriptors' = [file_descriptors EXCEPT
           ![fd] = [@ EXCEPT !.inode = NULL, !.ops = NULL, !.ref_count = 0]]
      /\ UNCHANGED <<mountVars, deviceVars>> /\ StaysTame

\* ext4_file_read takes the table of operations for the inode on the disk: the
\* kernel may run off instead of returning some bytes.
vfs_read(fd) ==
  /\ file_descriptors[fd].ref_count > 0 /\ operations[file_descriptors[fd].ops] = "file"
  /\ RunsWild
  /\ UNCHANGED <<mountVars, deviceVars, openVars>>

\* vfs_opendir.  A path that is not a directory loses its inode and leaves its
\* table behind.  ext4_dir_opendir fails for want of memory, with the same
\* effect, or frees the table the descriptor is about to keep; when no
\* descriptor is left, closedir is then called through the freed table.  It too
\* reads the inode of the disk into places smaller than a block.
vfs_opendir(path) ==
  \E r \in vfs_find_mount_point(path), a \in FreeInode, o \in FreeOps :
    LET kind == KindOf(r)
        made == vfs_create_inode(a, kind, o)
    IN  /\ kind \in {"REGULAR", "DIRECTORY"}
        /\ \/ /\ inodes' = vfs_destroy_inode(made, a)
              /\ operations' = ext4_find_inode(kind, o)
              /\ UNCHANGED <<file_descriptors>> /\ StaysTame
           \/ /\ kind = "DIRECTORY"
              /\ allocate_file_descriptor(a, o)
              /\ inodes' = [made EXCEPT ![a].private_data = NULL]
              /\ UNCHANGED <<operations>> /\ StaysTame
           \/ kind = "DIRECTORY" /\ RunsWild /\ UNCHANGED openVars
        /\ UNCHANGED <<mountVars, deviceVars>>

\* What ext4 does to the directory that holds path: it looks the directory up and,
\* when it fails early, gives back the inode but not the table.  Later it reads a
\* block over a structure on its stack that is smaller.
OnParent(path) ==
  \E r \in vfs_find_mount_point(path), a \in FreeInode, o \in FreeOps :
    LET kind == KindOf([r EXCEPT !.rel = Front(@)])
    IN  /\ r.fs = "ext4" /\ r.rel # << >> /\ kind # "none"
        /\ \/ /\ inodes' = vfs_destroy_inode(vfs_create_inode(a, kind, o), a)
              /\ operations' = ext4_find_inode(kind, o)
              /\ UNCHANGED file_descriptors /\ StaysTame
           \/ RunsWild /\ UNCHANGED openVars
        /\ UNCHANGED <<mountVars, deviceVars>>

vfs_mkdir(path)  == OnParent(path)
vfs_remove(path) == OnParent(path)

\* vfs_rmdir never removes anything: the lookup of a path other than "/" makes a
\* regular file of it.  The table of the parent is left behind, and that of the path
\* when there was memory for its inode (o # q).
vfs_rmdir(path) ==
  \E r \in vfs_find_mount_point(path), a \in FreeInode, o \in FreeOps, q \in FreeOps :
    LET kind == KindOf([r EXCEPT !.rel = Front(@)])
    IN  /\ r.fs = "ext4" /\ r.rel # << >> /\ kind # "none"
        /\ o = q \/ FreeInode # {a}
        /\ inodes' = vfs_destroy_inode(vfs_create_inode(a, kind, o), a)
        /\ operations' = [ext4_find_inode(KindOf(r), q) EXCEPT ![o] = ext4_find_inode(kind, o)[o]]
        /\ UNCHANGED <<file_descriptors, mountVars, deviceVars>> /\ StaysTame

\* vfs_close, vfs_read or vfs_readdir of a descriptor whose table has been freed,
\* and vfs_readdir of a directory, whose private data is no iterator.
DanglingCall(fd) ==
  LET d == file_descriptors[fd]
  IN  /\ d.ref_count > 0
      /\ \/ operations[d.ops] = "free"
         \/ operations[d.ops] = "dir" /\ inodes[d.inode].type = "DIRECTORY"
      /\ RunsWild
      /\ UNCHANGED <<mountVars, deviceVars, openVars>>

VfsNext ==
  \/ ext4_init \/ devfs_umount
  \/ \E t \in Targets : devfs_mount(t) \/ Umount(t) \/ MountBlankDisk(t) \/ \E fs \in FileSystemName : Mount(t, fs)
  \/ AddDrive \/ create_keyboard_driver
  \/ \E n \in DeviceName : devfs_unregister_device(n)
  \/ \E p \in Paths : vfs_open(p) \/ OpenDevice(p) \/ vfs_opendir(p)
                    \/ vfs_mkdir(p) \/ vfs_remove(p) \/ vfs_rmdir(p)
  \/ \E fd \in Fd : vfs_close(fd) \/ vfs_read(fd) \/ DanglingCall(fd)

VfsSpec == VfsInit /\ [][VfsNext]_vfsVars

-----------------------------------------------------------------------------
(* What the file layer promises.                                           *)

OpenFd == {fd \in Fd : file_descriptors[fd].ref_count > 0}

\* After any sequence of opens, failed opens and closes the allocated inodes are
\* exactly those of the open descriptors, one each: no failure path of vfs_open or
\* vfs_opendir loses an inode and no close frees one that is still in use.
InodesOwned ==
  /\ VfsTypeOK
  /\ \A fd \in OpenFd : inodes[file_descriptors[fd].inode].ref_count = 1
  /\ \A fd, gd \in OpenFd :
       file_descriptors[fd].inode = file_descriptors[gd].inode => fd = gd
  /\ \A a \in InodeAddr \ FreeInode : \E fd \in OpenFd : file_descriptors[fd].inode = a

\* An open regular file keeps its table of operations to itself until it is closed,
\* although directories next to it hold pointers to freed tables whose memory the
\* file may have been given.
RegularFilesIntact ==
  \A fd \in OpenFd :
    LET a == file_descriptors[fd].inode
        o == file_descriptors[fd].ops
    IN  inodes[a].type = "REGULAR" =>
          /\ operations[o] = "file" /\ inodes[a].private_data = o
          /\ \A b \in InodeAddr \ FreeInode : inodes[b].private_data = o => a = b

\* ext4 and the mount table agree on whether and where ext4 is mounted, after any
\* mix of mounts and unmounts through vfs and devfs.
MountsAgree ==
  {mount_points[i].path : i \in {j \in DOMAIN mount_points : mount_points[j].fs = "ext4"}}
    = ToSet(ext4_fs_data)

\* A path is given to the deepest mount point above it, in whatever order the
\* mounts were made and removed.
LongestMountWins ==
  \A p \in Paths, i \in DOMAIN mount_points : Covers(mount_points[i].path, p) =>
    \A r \in vfs_find_mount_point(p) :
      \E j \in DOMAIN mount_points :
        /\ mount_points[j].path \o r.rel = p /\ mount_points[j].fs = r.fs
        /\ Len(mount_points[j].path) >= Len(mount_points[i].path)
=============================================================================
