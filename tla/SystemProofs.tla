---------------------------- MODULE SystemProofs ----------------------------
(***************************************************************************)
(* TLAPS proofs about the file layer, start-up and the installer, for      *)
(* every size of the tables, every set of paths, names and heap addresses, *)
(* and every number of PCI functions, devices and directories.             *)
(*                                                                         *)
(* First the file layer by itself, under any calls; then the composed      *)
(* system, whose calls keep the invariant of the file layer.               *)
(***************************************************************************)
EXTENDS Installer, NatRecursion, SequenceTheorems

(* The file layer: its inductive invariant, by the variables its parts are *)
(* about.                                                                  *)

Entry == [path: Targets, fs: FileSystemName]

\* vfs_mount refuses a path that is in the table.
PathsDistinct ==
  \A i, j \in DOMAIN mount_points : mount_points[i].path = mount_points[j].path => i = j

MountInv ==
  /\ registered_filesystems \in Seq(FileSystemName)
  /\ Len(registered_filesystems) <= MAX_FILESYSTEMS
  /\ mount_points \in Seq(Entry) /\ Len(mount_points) <= MAX_MOUNT_POINTS
  /\ devfs_mount_point \in {<< >>} \cup {<<t>> : t \in Targets}
  /\ ext4_fs_data \in {<< >>} \cup {<<t>> : t \in Targets}
  /\ PathsDistinct /\ MountsAgree

DeviceInv ==
  /\ devices \in Seq(DeviceNode) /\ Len(devices) <= MAX_DEVICES
  /\ active_block_devices \in Seq(DeviceAddr)

Used == InodeAddr \ FreeInode

\* The types of the open files, and what their descriptors point to.
OpenTypes ==
  /\ inodes \in [InodeAddr -> Inode]
  /\ operations \in [OpsAddr -> {"file", "dir", "free"}]
  /\ file_descriptors \in [Fd -> FileDescriptor]
  /\ \A fd \in OpenFd : file_descriptors[fd].inode \in InodeAddr
                        /\ file_descriptors[fd].ops \in OpsAddr

Owned ==
  /\ \A fd \in OpenFd : inodes[file_descriptors[fd].inode].ref_count = 1
  /\ \A fd, gd \in OpenFd :
       file_descriptors[fd].inode = file_descriptors[gd].inode => fd = gd
  /\ \A a \in Used : \E fd \in OpenFd : file_descriptors[fd].inode = a

\* An inode owns the table its private data points to, and only vfs_opendir, whose
\* table is freed, leaves a descriptor that points to another one.
TablesOwned ==
  /\ \A a \in Used :
       /\ inodes[a].type = "REGULAR" => inodes[a].private_data # NULL
       /\ inodes[a].private_data # NULL =>
            /\ operations[inodes[a].private_data]
                 = IF inodes[a].type = "REGULAR" THEN "file" ELSE "dir"
            /\ \A b \in Used : inodes[b].private_data = inodes[a].private_data => a = b
  /\ \A fd \in OpenFd : inodes[file_descriptors[fd].inode].private_data
                          \in {NULL, file_descriptors[fd].ops}

OpenInv == OpenTypes /\ Owned /\ TablesOwned

VfsInv == MountInv /\ DeviceInv /\ OpenInv /\ wild \in BOOLEAN

-----------------------------------------------------------------------------
(* Sequences.                                                              *)

\* What a table is after the element at i has been taken out of it, the way
\* vfs_umount and devfs_unregister_device close the gap.
LEMMA RemoveAtIs ==
  ASSUME NEW S, NEW s \in Seq(S), NEW i \in 1 .. Len(s)
  PROVE  /\ RemoveAt(s, i) \in Seq(S)
         /\ Len(RemoveAt(s, i)) = Len(s) - 1
         /\ \A j \in 1 .. Len(s) - 1 :
              RemoveAt(s, i)[j] = IF j < i THEN s[j] ELSE s[j + 1]
<1> DEFINE n == Len(s)
           u == SubSeq(s, 1, i - 1)
           v == SubSeq(s, i + 1, n)
<1>1. n \in Nat /\ i \in 1 .. n /\ i \in Int
  BY LenProperties
<1>2. u \in Seq(S) /\ Len(u) = i - 1 /\ \A j \in 1 .. i - 1 : u[j] = s[j]
  BY <1>1, SubSeqProperties
<1>3. \A j \in 1 .. n : s[j] \in S
  BY ElementOfSeq
<1>4. RemoveAt(s, i) = u \o v
  BY DEF RemoveAt
<1>5. /\ v \in Seq(S) /\ Len(v) = IF i + 1 <= n THEN n - (i + 1) + 1 ELSE 0
      /\ \A j \in 1 .. n - (i + 1) + 1 : v[j] = s[(i + 1) + j - 1]
  <2> HIDE DEF n
  <2>1. i + 1 \in Int /\ n \in Int /\ \A j \in i + 1 .. n : s[j] \in S
    BY <1>1, <1>3
  <2> QED BY <2>1, SubSeqProperties
<1>6. (u \o v) \in Seq(S) /\ Len(u \o v) = Len(u) + Len(v)
      /\ \A j \in 1 .. Len(u) + Len(v) :
           (u \o v)[j] = IF j <= Len(u) THEN u[j] ELSE v[j - Len(u)]
  <2> HIDE DEF u, v
  <2> QED BY <1>2, <1>5, ConcatProperties
<1> HIDE DEF n, u, v
<1>7. Len(u) = i - 1 /\ Len(v) = n - i /\ Len(u) + Len(v) = n - 1
  BY <1>1, <1>2, <1>5
<1>8. ASSUME NEW j \in 1 .. n - 1
      PROVE  (u \o v)[j] = IF j < i THEN s[j] ELSE s[j + 1]
  <2>1. (u \o v)[j] = IF j <= i - 1 THEN u[j] ELSE v[j - (i - 1)]
    BY <1>6, <1>7
  <2>2. CASE j < i
    BY <1>1, <1>2, <2>1, <2>2
  <2>3. CASE ~(j < i)
    <3>1. /\ j - (i - 1) \in 1 .. n - (i + 1) + 1 /\ (i + 1) + (j - (i - 1)) - 1 = j + 1
          /\ ~(j <= i - 1)
      BY <1>1, <2>3
    <3>2. v[j - (i - 1)] = s[(i + 1) + (j - (i - 1)) - 1]
      BY <1>5, <3>1
    <3> QED BY <2>1, <2>3, <3>1, <3>2
  <2> QED BY <2>2, <2>3
<1>9. Len(u \o v) = n - 1
  BY <1>6, <1>7
<1> QED BY <1>4, <1>6, <1>8, <1>9 DEF n

\* A longer table keeps its elements.
LEMMA AppendIs ==
  ASSUME NEW S, NEW s \in Seq(S), NEW e \in S
  PROVE  /\ Append(s, e) \in Seq(S) /\ Len(Append(s, e)) = Len(s) + 1
         /\ \A j \in 1 .. Len(s) : Append(s, e)[j] = s[j]
         /\ Append(s, e)[Len(s) + 1] = e
BY AppendProperties, LenProperties

LEMMA ToSetOfShort ==
  /\ ToSet(<< >>) = {}
  /\ \A t : ToSet(<<t>>) = {t}
  /\ \A t : <<t>> # << >> /\ <<t>>[1] = t
  /\ \A t, u : <<t>> = <<u>> => t = u
BY DEF ToSet

-----------------------------------------------------------------------------
(* Mount table.                                                            *)

\* MountsAgree, element by element: m is the mount table, e the data of ext4.
Agrees(m, e) ==
  \A t : (\E i \in DOMAIN m : m[i].fs = "ext4" /\ m[i].path = t) <=> e = <<t>>

LEMMA AgreesIs ==
  ASSUME NEW m, NEW T, NEW e \in {<< >>} \cup {<<t>> : t \in T}
  PROVE  {m[i].path : i \in {j \in DOMAIN m : m[j].fs = "ext4"}} = ToSet(e)
           <=> Agrees(m, e)
<1> DEFINE P == {m[i].path : i \in {j \in DOMAIN m : m[j].fs = "ext4"}}
<1>1. \A t : t \in P <=> \E i \in DOMAIN m : m[i].fs = "ext4" /\ m[i].path = t
  OBVIOUS
<1>2. \A t : t \in ToSet(e) <=> e = <<t>>
  BY ToSetOfShort
<1> HIDE DEF P
<1>3. P = ToSet(e) <=> \A t : t \in P <=> e = <<t>>
  BY <1>2
<1> QED BY <1>1, <1>3 DEF P, Agrees

LEMMA MountKeepsInv ==
  ASSUME MountInv, NEW target \in Targets, NEW fs \in FileSystemName,
         vfs_mount(target, fs)
  PROVE  /\ mount_points' \in Seq(Entry) /\ Len(mount_points') <= MAX_MOUNT_POINTS
         /\ ext4_fs_data' \in {<< >>} \cup {<<t>> : t \in Targets}
         /\ PathsDistinct' /\ MountsAgree'
<1> DEFINE n == Len(mount_points)
           e == [path |-> target, fs |-> fs]
<1>1. e \in Entry /\ mount_points \in Seq(Entry) /\ n \in Nat
  BY LenProperties DEF MountInv, Entry
<1>2. /\ mount_points' \in Seq(Entry) /\ Len(mount_points') = n + 1
      /\ \A j \in 1 .. n : mount_points'[j] = mount_points[j]
      /\ mount_points'[n + 1] = e
  BY <1>1, AppendIs DEF vfs_mount
<1>3. DOMAIN mount_points = 1 .. n /\ DOMAIN mount_points' = 1 .. n + 1
  BY <1>1, <1>2, LenProperties
<1>4. n < MAX_MOUNT_POINTS /\ \A i \in 1 .. n : mount_points[i].path # target
  BY <1>3 DEF vfs_mount, MountRoom
<1>5. /\ ext4_fs_data' \in {<< >>} \cup {<<t>> : t \in Targets}
      /\ ext4_fs_data' = IF fs = "ext4" THEN <<target>> ELSE ext4_fs_data
      /\ fs = "ext4" => ext4_fs_data = << >>
  BY DEF vfs_mount, FsMount, MountInv
<1> HIDE DEF n
<1>6. n + 1 <= MAX_MOUNT_POINTS
  BY <1>1, <1>4, VfsAssumption
<1>7. \A i \in 1 .. n + 1 : i \in 1 .. n \/ i = n + 1
  BY <1>1
<1>8. PathsDistinct'
  BY <1>2, <1>3, <1>4, <1>7 DEF MountInv, PathsDistinct
<1>9. MountsAgree'
  <2>1. Agrees(mount_points, ext4_fs_data)
    BY AgreesIs DEF MountInv, MountsAgree
  <2>2. Agrees(mount_points', ext4_fs_data')
    <3> SUFFICES ASSUME NEW t
                 PROVE  (\E i \in 1 .. n + 1 : /\ mount_points'[i].fs = "ext4"
                                               /\ mount_points'[i].path = t)
                          <=> ext4_fs_data' = <<t>>
      BY <1>3 DEF Agrees
    <3>1. (\E i \in 1 .. n : mount_points[i].fs = "ext4" /\ mount_points[i].path = t)
            <=> ext4_fs_data = <<t>>
      BY <1>3, <2>1 DEF Agrees
    <3>2. (\E i \in 1 .. n + 1 : mount_points'[i].fs = "ext4" /\ mount_points'[i].path = t)
            <=> \/ \E i \in 1 .. n : mount_points[i].fs = "ext4" /\ mount_points[i].path = t
                \/ fs = "ext4" /\ target = t
      <4>1. n + 1 \in 1 .. n + 1 /\ \A i \in 1 .. n : i \in 1 .. n + 1
        BY <1>1
      <4> QED BY <1>2, <1>7, <4>1
    <3>3. CASE fs = "ext4"
      BY <1>5, <3>1, <3>2, <3>3, ToSetOfShort
    <3>4. CASE fs # "ext4"
      BY <1>5, <3>1, <3>2, <3>4
    <3> QED BY <3>3, <3>4
  <2> QED BY <1>5, <2>2, AgreesIs DEF MountsAgree
<1> QED BY <1>2, <1>5, <1>6, <1>8, <1>9

LEMMA UmountKeepsInv ==
  ASSUME MountInv, NEW target \in Targets, vfs_umount(target)
  PROVE  /\ mount_points' \in Seq(Entry) /\ Len(mount_points') <= MAX_MOUNT_POINTS
         /\ ext4_fs_data' \in {<< >>} \cup {<<t>> : t \in Targets}
         /\ PathsDistinct' /\ MountsAgree'
<1> DEFINE n == Len(mount_points)
<1>1. mount_points \in Seq(Entry) /\ n \in Nat /\ DOMAIN mount_points = 1 .. n
  BY LenProperties DEF MountInv
<1>2. PICK k \in 1 .. n :
        /\ mount_points[k].path = target
        /\ FsUmount(mount_points[k].fs, target)
        /\ mount_points' = RemoveAt(mount_points, k)
  BY <1>1 DEF vfs_umount
<1>3. /\ mount_points' \in Seq(Entry) /\ Len(mount_points') = n - 1
      /\ \A j \in 1 .. n - 1 :
           mount_points'[j] = mount_points[IF j < k THEN j ELSE j + 1]
  BY <1>1, <1>2, RemoveAtIs
<1>4. DOMAIN mount_points' = 1 .. n - 1
  BY <1>3, LenProperties
<1>5. /\ ext4_fs_data' \in {<< >>} \cup {<<t>> : t \in Targets}
      /\ IF mount_points[k].fs = "ext4" THEN ext4_fs_data = <<target>> /\ ext4_fs_data' = << >>
         ELSE ext4_fs_data' = ext4_fs_data
  BY <1>2 DEF FsUmount, MountInv
<1>6. n - 1 <= MAX_MOUNT_POINTS
  <2>1. n <= MAX_MOUNT_POINTS
    BY DEF MountInv
  <2>2. MAX_MOUNT_POINTS \in Nat
    BY VfsAssumption
  <2> HIDE DEF n
  <2> QED BY <1>1, <2>1, <2>2
<1>7. \A i, j \in 1 .. n : mount_points[i].path = mount_points[j].path => i = j
  BY <1>1 DEF MountInv, PathsDistinct
<1> HIDE DEF n
<1>8. /\ \A j \in 1 .. n - 1 : (IF j < k THEN j ELSE j + 1) \in (1 .. n) \ {k}
      /\ \A i \in (1 .. n) \ {k} : \E j \in 1 .. n - 1 : i = IF j < k THEN j ELSE j + 1
      /\ \A i, j \in 1 .. n - 1 :
           (IF i < k THEN i ELSE i + 1) = (IF j < k THEN j ELSE j + 1) => i = j
  <2>1. ASSUME NEW i \in (1 .. n) \ {k}
        PROVE  \E j \in 1 .. n - 1 : i = IF j < k THEN j ELSE j + 1
    <3>1. CASE i < k
      BY <1>1, <3>1
    <3>2. CASE i > k
      <4>1. i - 1 \in 1 .. n - 1 /\ ~(i - 1 < k) /\ i = (i - 1) + 1
        BY <1>1, <3>2
      <4> QED BY <4>1
    <3> QED BY <1>1, <3>1, <3>2
  <2> QED BY <1>1, <2>1
<1>9. PathsDistinct'
  <2> SUFFICES ASSUME NEW i \in 1 .. n - 1, NEW j \in 1 .. n - 1,
                      mount_points'[i].path = mount_points'[j].path
               PROVE  i = j
    BY <1>4 DEF PathsDistinct
  <2> DEFINE f(x) == IF x < k THEN x ELSE x + 1
  <2>1. f(i) \in 1 .. n /\ f(j) \in 1 .. n /\ (f(i) = f(j) => i = j)
    BY <1>8
  <2>2. mount_points'[i] = mount_points[f(i)] /\ mount_points'[j] = mount_points[f(j)]
    BY <1>3
  <2> HIDE DEF f
  <2> QED BY <1>7, <2>1, <2>2
<1>10. MountsAgree'
  <2>1. Agrees(mount_points, ext4_fs_data)
    BY AgreesIs DEF MountInv, MountsAgree
  <2>2. Agrees(mount_points', ext4_fs_data')
    <3> SUFFICES ASSUME NEW t
                 PROVE  (\E i \in 1 .. n - 1 : /\ mount_points'[i].fs = "ext4"
                                               /\ mount_points'[i].path = t)
                          <=> ext4_fs_data' = <<t>>
      BY <1>4 DEF Agrees
    <3>1. (\E i \in 1 .. n : mount_points[i].fs = "ext4" /\ mount_points[i].path = t)
            <=> ext4_fs_data = <<t>>
      BY <1>1, <2>1 DEF Agrees
    <3>2. (\E i \in 1 .. n - 1 : mount_points'[i].fs = "ext4" /\ mount_points'[i].path = t)
            <=> \E i \in (1 .. n) \ {k} :
                   mount_points[i].fs = "ext4" /\ mount_points[i].path = t
      BY <1>3, <1>8
    <3>3. CASE mount_points[k].fs = "ext4"
      <4>1. ext4_fs_data = <<target>> /\ ext4_fs_data' = << >>
        BY <1>5, <3>3
      <4>2. ~\E i \in (1 .. n) \ {k} :
              mount_points[i].fs = "ext4" /\ mount_points[i].path = t
        BY <1>2, <1>7, <3>1, <4>1, ToSetOfShort
      <4> QED BY <3>2, <4>1, <4>2, ToSetOfShort
    <3>4. CASE mount_points[k].fs # "ext4"
      BY <1>5, <3>1, <3>2, <3>4
    <3> QED BY <3>3, <3>4
  <2> QED BY <1>5, <2>2, AgreesIs DEF MountsAgree
<1> QED BY <1>3, <1>5, <1>6, <1>9, <1>10
-----------------------------------------------------------------------------
(* Path lookup.                                                            *)

MountPath(i) == mount_points[i].path

\* What the loop of vfs_find_mount_point does with its best match b at mount point n.
Better(path, n, b) ==
  IF Covers(MountPath(n), path) /\ (b = 0 \/ Len(MountPath(n)) > Len(MountPath(b)))
  THEN n ELSE b

LEMMA BestMatchIs ==
  ASSUME mount_points \in Seq(Entry), NEW path
  PROVE  LET N == Len(mount_points) best == best_match(path)
         IN  /\ best \in [0 .. N -> 0 .. N] /\ best[0] = 0
             /\ \A n \in 0 .. N - 1 : best[n + 1] = Better(path, n + 1, best[n])
<1> DEFINE N == Len(mount_points)
           go == [x \in (1 .. N) \X (0 .. N) |-> Better(path, x[1], x[2])]
           Is(f) == f = [n \in 0 .. N |-> IF n = 0 THEN 0
                          ELSE LET b == f[n - 1]
                               IN  IF /\ Covers(mount_points[n].path, path)
                                      /\ b = 0 \/ Len(mount_points[n].path)
                                                    > Len(mount_points[b].path)
                                   THEN n ELSE b]
<1>1. N \in Nat /\ 0 \in 0 .. N
  BY LenProperties
<1>2. \A n \in 1 .. N, b \in 0 .. N : Better(path, n, b) \in 0 .. N
  BY <1>1 DEF Better
<1>3. IsLoopStep(go, N, 0 .. N)
  <2>1. \A x \in (1 .. N) \X (0 .. N) : x[1] \in 1 .. N /\ x[2] \in 0 .. N
    OBVIOUS
  <2> QED BY <1>2, <2>1 DEF IsLoopStep
<1>4. \A n \in 1 .. N, b \in 0 .. N : go[<<n, b>>] = Better(path, n, b)
  OBVIOUS
<1> HIDE DEF go
<1>5. PICK f : IsLoop(f, N, 0 .. N, 0, go)
  <2> HIDE DEF N
  <2> QED BY <1>1, <1>3, LoopFunction
<1>6. /\ f \in [0 .. N -> 0 .. N]
      /\ f = [n \in 0 .. N |-> IF n = 0 THEN 0 ELSE go[<<n, f[n - 1]>>]]
  BY <1>5 DEF IsLoop
<1>7. \A n \in 0 .. N : n # 0 => n \in 1 .. N /\ n - 1 \in 0 .. N
  BY <1>1
<1>8. Is(f)
  <2>1. \A n \in 0 .. N : n # 0 => go[<<n, f[n - 1]>>] = Better(path, n, f[n - 1])
    <3> HIDE DEF N
    <3> QED BY <1>4, <1>6, <1>7
  <2> QED BY <1>6, <2>1 DEF Better, MountPath
<1>9. best_match(path) = CHOOSE g : Is(g)
  BY DEF best_match
<1> DEFINE best == best_match(path)
<1>10. Is(best)
  BY <1>8, <1>9
<1>11. best = [n \in 0 .. N |-> IF n = 0 THEN 0 ELSE Better(path, n, best[n - 1])]
  BY <1>10 DEF Better, MountPath
<1> HIDE DEF best, N
<1>12. best[0] = 0
  BY <1>1, <1>11
<1>13. ASSUME NEW n \in 0 .. N - 1 PROVE best[n + 1] = Better(path, n + 1, best[n])
  <2>1. n + 1 \in 0 .. N /\ n + 1 # 0 /\ (n + 1) - 1 = n
    BY <1>1
  <2> QED BY <1>11, <2>1
<1> DEFINE S == {n \in 0 .. N : best[n] \in 0 .. N}
<1>14. 0 \in S
  BY <1>1, <1>12
<1>15. \A n \in 0 .. N - 1 : n \in S => n + 1 \in S
  <2> SUFFICES ASSUME NEW n \in 0 .. N - 1, n \in S PROVE n + 1 \in S
    OBVIOUS
  <2>1. n + 1 \in 1 .. N /\ n + 1 \in 0 .. N /\ best[n] \in 0 .. N
    BY <1>1
  <2> QED BY <1>2, <1>13, <2>1
<1> HIDE DEF S
<1>16. 0 .. N \subseteq S
  BY <1>1, <1>14, <1>15, IntervalInduction
<1>17. best \in [0 .. N -> 0 .. N]
  BY <1>11, <1>16 DEF S
<1> QED BY <1>12, <1>13, <1>17 DEF best, N

\* The loop ends with a mount point that covers the path, if there is one, and none
\* that covers it is longer.
LEMMA BestMatchIsLongest ==
  ASSUME mount_points \in Seq(Entry), NEW path,
         NEW i \in DOMAIN mount_points, Covers(MountPath(i), path)
  PROVE  LET j == best_match(path)[Len(mount_points)]
         IN  /\ j \in DOMAIN mount_points /\ Covers(MountPath(j), path)
             /\ Len(MountPath(j)) >= Len(MountPath(i))
<1> DEFINE N == Len(mount_points)
           best == best_match(path)
<1>1. /\ N \in Nat /\ DOMAIN mount_points = 1 .. N
      /\ \A k \in 1 .. N : Len(MountPath(k)) \in Nat
  <2>1. \A k \in 1 .. N : mount_points[k] \in Entry
    BY ElementOfSeq
  <2>2. \A e \in Entry : e.path \in Seq(STRING)
    BY VfsAssumption DEF Entry
  <2> QED BY <2>1, <2>2, LenProperties DEF MountPath
<1>2. /\ best \in [0 .. N -> 0 .. N] /\ best[0] = 0
      /\ \A n \in 0 .. N - 1 : best[n + 1] = Better(path, n + 1, best[n])
  BY BestMatchIs
<1> HIDE DEF N, best
<1> DEFINE L(k) == Len(MountPath(k))
           S == {n \in 0 .. N :
                   /\ best[n] # 0 => Covers(MountPath(best[n]), path)
                   /\ i <= n => best[n] # 0 /\ L(best[n]) >= L(i)}
<1>3. 0 \in S
  BY <1>1, <1>2
<1>4. \A n \in 0 .. N - 1 : n \in S => n + 1 \in S
  <2> SUFFICES ASSUME NEW n \in 0 .. N - 1, n \in S PROVE n + 1 \in S
    OBVIOUS
  <2> DEFINE b == best[n]
             c == best[n + 1]
  <2>1. n + 1 \in 1 .. N /\ n + 1 \in 0 .. N /\ n \in 0 .. N /\ n + 1 # 0 /\ i \in 1 .. N
    BY <1>1
  <2>2. /\ b \in 0 .. N /\ c = Better(path, n + 1, b)
        /\ b # 0 => Covers(MountPath(b), path)
        /\ i <= n => b # 0 /\ L(b) >= L(i)
    BY <1>2, <2>1
  <2>3. L(n + 1) \in Nat /\ L(i) \in Nat /\ (b # 0 => b \in 1 .. N /\ L(b) \in Nat)
    BY <1>1, <2>1, <2>2
  <2> HIDE DEF b, c
  <2>4. i <= n + 1 => i <= n \/ i = n + 1
    BY <1>1, <2>1
  <2>5. \/ c = n + 1 /\ Covers(MountPath(n + 1), path) /\ (b = 0 \/ L(n + 1) > L(b))
        \/ c = b /\ (Covers(MountPath(n + 1), path) => b # 0 /\ ~(L(n + 1) > L(b)))
    BY <2>2 DEF Better
  <2> HIDE DEF L
  <2>6. c # 0 => Covers(MountPath(c), path)
    BY <2>2, <2>5
  <2>7. i <= n + 1 => c # 0 /\ L(c) >= L(i)
    <3>1. CASE c = n + 1 /\ Covers(MountPath(n + 1), path) /\ (b = 0 \/ L(n + 1) > L(b))
      BY <2>1, <2>2, <2>3, <2>4, <3>1
    <3>2. CASE c = b /\ (Covers(MountPath(n + 1), path) => b # 0 /\ ~(L(n + 1) > L(b)))
      BY <2>1, <2>2, <2>3, <2>4, <3>2
    <3> QED BY <2>5, <3>1, <3>2
  <2> QED BY <2>1, <2>6, <2>7 DEF c
<1> HIDE DEF S
<1>a. N \in Nat
  BY <1>1
<1>b. 0 .. N \subseteq S
  BY <1>a, <1>3, <1>4, IntervalInduction
<1>5. N \in S
  BY <1>a, <1>b
<1>6. best[N] # 0 /\ Covers(MountPath(best[N]), path) /\ L(best[N]) >= L(i)
  BY <1>1, <1>5 DEF S
<1>7. best[N] \in 1 .. N
  BY <1>1, <1>2, <1>6
<1> QED BY <1>1, <1>6, <1>7 DEF best, N

\* A path that a mount point covers is the mount path followed by the rest of it.
LEMMA CoveredPathSplits ==
  ASSUME NEW S, NEW m \in Seq(S), NEW p \in Seq(S), Covers(m, p)
  PROVE  m \o SubSeq(p, Len(m) + 1, Len(p)) = p
<1> DEFINE k == Len(m)
           n == Len(p)
           r == SubSeq(p, k + 1, n)
<1>1. k \in Nat /\ n \in Nat
  BY LenProperties
<1>2. k <= n /\ \A j \in 1 .. k : m[j] = p[j]
  <2>1. CASE m = << >>
    BY <1>1, <2>1, EmptySeq
  <2>2. CASE IsStrictPrefix(m, p)
    <3>1. k <= n /\ SubSeq(m, 1, k) = SubSeq(p, 1, k)
      BY <2>2 DEF IsStrictPrefix, IsPrefix
    <3> HIDE DEF k, n
    <3>2. \A j \in 1 .. k : m[j] \in S
      BY ElementOfSeq DEF k
    <3>3. \A j \in 1 .. k : p[j] \in S
      BY <1>1, <3>1, ElementOfSeq DEF n
    <3>4. /\ k \in Int /\ 1 \in Int /\ k - 1 + 1 = k
          /\ \A j \in 1 .. k : 1 + j - 1 = j
      BY <1>1
    <3>5. \A j \in 1 .. k - 1 + 1 : SubSeq(m, 1, k)[j] = m[1 + j - 1]
      BY <3>2, <3>4, SubSeqProperties
    <3>6. \A j \in 1 .. k - 1 + 1 : SubSeq(p, 1, k)[j] = p[1 + j - 1]
      BY <3>3, <3>4, SubSeqProperties
    <3> QED BY <3>1, <3>4, <3>5, <3>6
  <2> QED BY <2>1, <2>2 DEF Covers
<1>3. /\ r \in Seq(S) /\ Len(r) = n - k
      /\ \A j \in 1 .. n - k : r[j] = p[k + j]
  <2>1. \A j \in k + 1 .. n : p[j] \in S
    BY <1>1, ElementOfSeq
  <2>2. /\ r \in Seq(S) /\ Len(r) = IF k + 1 <= n THEN n - (k + 1) + 1 ELSE 0
        /\ \A j \in 1 .. n - (k + 1) + 1 : r[j] = p[(k + 1) + j - 1]
    <3> HIDE DEF k, n
    <3>1. k + 1 \in Int /\ n \in Int
      BY <1>1
    <3> QED BY <2>1, <3>1, SubSeqProperties
  <2> HIDE DEF k, n, r
  <2>3. n - (k + 1) + 1 = n - k /\ (~(k + 1 <= n) => n - k = 0)
        /\ \A j \in 1 .. n - k : (k + 1) + j - 1 = k + j
    BY <1>1, <1>2
  <2> QED BY <1>1, <2>2, <2>3
<1>4. /\ m \o r \in Seq(S) /\ Len(m \o r) = k + (n - k)
      /\ \A j \in 1 .. k + (n - k) : (m \o r)[j] = IF j <= k THEN m[j] ELSE r[j - k]
  <2> HIDE DEF r
  <2> QED BY <1>3, ConcatProperties
<1> HIDE DEF k, n, r
<1>5. Len(m \o r) = n
  BY <1>1, <1>4
<1>6. ASSUME NEW j \in 1 .. n PROVE (m \o r)[j] = p[j]
  <2>1. (m \o r)[j] = IF j <= k THEN m[j] ELSE r[j - k]
    BY <1>1, <1>4
  <2>2. CASE j <= k
    BY <1>1, <1>2, <2>1, <2>2
  <2>3. CASE ~(j <= k)
    <3>1. j - k \in 1 .. n - k /\ k + (j - k) = j
      BY <1>1, <2>3
    <3> QED BY <1>3, <2>1, <2>3, <3>1
  <2> QED BY <2>2, <2>3
<1>7. m \o r = p
  <2> DEFINE q == m \o r
  <2>1. q \in Seq(S) /\ Len(q) = Len(p) /\ \A j \in 1 .. Len(q) : q[j] = p[j]
    BY <1>4, <1>5, <1>6 DEF n
  <2> HIDE DEF q
  <2>2. q = p
    BY <2>1, SeqEqual
  <2> QED BY <2>2 DEF q
<1> QED BY <1>7 DEF r, k, n

-----------------------------------------------------------------------------
(* Inodes, tables of operations and descriptors.                           *)

\* A lookup that ends without a descriptor: the inode is free again, and only tables
\* that were free may have changed.
LEMMA LookupKeepsInv ==
  ASSUME OpenInv, NEW a \in FreeInode, inodes' = [inodes EXCEPT ![a] = NoInode],
         operations' \in [OpsAddr -> {"file", "dir", "free"}],
         \A p \in OpsAddr : operations[p] # "free" => operations'[p] = operations[p],
         UNCHANGED file_descriptors
  PROVE  OpenInv'
<1>0. OpenFd' = OpenFd
  BY DEF OpenFd
<1>1. NoInode \in Inode /\ NoInode.ref_count = 0
  BY DEF NoInode, Inode
<1>2. OpenTypes'
  BY <1>0, <1>1 DEF OpenInv, OpenTypes
<1>3. \A b \in InodeAddr : b # a => inodes'[b] = inodes[b]
  BY DEF OpenInv, OpenTypes
<1>4. a \in InodeAddr /\ inodes[a].ref_count = 0 /\ inodes'[a].ref_count = 0
  BY <1>1 DEF FreeInode, OpenInv, OpenTypes
<1>5. Used' = Used /\ a \notin Used
  BY <1>3, <1>4 DEF Used, FreeInode
<1>6. \A fd \in OpenFd : file_descriptors[fd].inode # a
  BY <1>4 DEF OpenInv, Owned
<1>7. \A fd \in OpenFd : inodes'[file_descriptors[fd].inode] = inodes[file_descriptors[fd].inode]
  BY <1>3, <1>6 DEF OpenInv, OpenTypes
<1>8. Owned'
  BY <1>0, <1>5, <1>7 DEF OpenInv, Owned
<1>9. TablesOwned'
  <2>1. \A b \in Used : b \in InodeAddr /\ inodes'[b] = inodes[b]
    BY <1>3, <1>5 DEF Used
  <2>2. \A b \in Used : inodes[b].private_data # NULL =>
          operations'[inodes[b].private_data] = operations[inodes[b].private_data]
    <3> SUFFICES ASSUME NEW b \in Used, inodes[b].private_data # NULL
                 PROVE  operations'[inodes[b].private_data] = operations[inodes[b].private_data]
      OBVIOUS
    <3>1. inodes[b].private_data \in OpsAddr
      BY <2>1 DEF OpenInv, OpenTypes, Inode
    <3>2. operations[inodes[b].private_data] \in {"file", "dir"}
      BY DEF OpenInv, TablesOwned
    <3> QED BY <3>1, <3>2
  <2> QED BY <1>0, <1>5, <1>7, <2>1, <2>2 DEF OpenInv, TablesOwned
<1> QED BY <1>2, <1>8, <1>9 DEF OpenInv

\* A lookup that gets a descriptor.  vfs_open keeps the table it was given in the
\* private data of the inode; vfs_opendir has freed it again and keeps NULL there.
LEMMA DescriptorKeepsInv ==
  ASSUME OpenInv, NEW a \in FreeInode, NEW o \in FreeOps, NEW fd \in UnusedFd,
         NEW kind \in {"REGULAR", "DIRECTORY"}, NEW data \in {NULL, o},
         kind = "REGULAR" => data = o,
         inodes' = [inodes EXCEPT ![a] =
                     [type |-> kind, ref_count |-> 1, private_data |-> data]],
         operations' = IF data = NULL THEN operations
                       ELSE [operations EXCEPT ![o] = IF kind = "REGULAR" THEN "file" ELSE "dir"],
         file_descriptors' = [file_descriptors EXCEPT
                     ![fd] = [inode |-> a, ops |-> o, ref_count |-> 1]]
  PROVE  OpenInv'
<1> DEFINE i == [type |-> kind, ref_count |-> 1, private_data |-> data]
           d == [inode |-> a, ops |-> o, ref_count |-> 1]
<1>1. /\ a \in InodeAddr /\ inodes[a].ref_count = 0 /\ fd \in Fd
      /\ o \in OpsAddr /\ operations[o] = "free" /\ o # NULL
      /\ file_descriptors[fd].ref_count = 0
  BY VfsAssumption DEF FreeInode, FreeOps, UnusedFd
<1>2. i \in Inode /\ i.ref_count = 1 /\ i.type = kind /\ i.private_data = data
  BY <1>1 DEF Inode
<1>3. d \in FileDescriptor /\ d.ref_count = 1 /\ d.inode = a /\ d.ops = o
  BY <1>1 DEF FileDescriptor
<1> HIDE DEF i, d
<1>4. /\ inodes' \in [InodeAddr -> Inode] /\ inodes'[a] = i
      /\ \A b \in InodeAddr : b # a => inodes'[b] = inodes[b]
  BY <1>1, <1>2 DEF OpenInv, OpenTypes, i
<1>5. /\ file_descriptors' \in [Fd -> FileDescriptor] /\ file_descriptors'[fd] = d
      /\ \A gd \in Fd : gd # fd => file_descriptors'[gd] = file_descriptors[gd]
  BY <1>1, <1>3 DEF OpenInv, OpenTypes, d
<1>6. /\ operations' \in [OpsAddr -> {"file", "dir", "free"}]
      /\ \A p \in OpsAddr : operations[p] # "free" => operations'[p] = operations[p]
      /\ data # NULL => operations'[o] = IF kind = "REGULAR" THEN "file" ELSE "dir"
  BY <1>1 DEF OpenInv, OpenTypes
<1>7. OpenFd' = OpenFd \cup {fd} /\ fd \notin OpenFd
  BY <1>1, <1>3, <1>5 DEF OpenFd
<1>8. Used' = Used \cup {a} /\ a \notin Used
  BY <1>1, <1>2, <1>4 DEF Used, FreeInode
<1>9. \A gd \in OpenFd : /\ gd \in Fd /\ file_descriptors'[gd] = file_descriptors[gd]
                          /\ file_descriptors[gd].inode \in InodeAddr
                          /\ file_descriptors[gd].inode # a
  BY <1>1, <1>5, <1>7 DEF OpenFd, OpenInv, OpenTypes, Owned
<1>10. \A b \in Used : b \in InodeAddr /\ inodes'[b] = inodes[b]
  BY <1>4, <1>8 DEF Used
<1>11. OpenTypes'
  BY <1>1, <1>3, <1>4, <1>5, <1>6, <1>7, <1>9 DEF OpenInv, OpenTypes
<1>12. Owned'
  BY <1>2, <1>3, <1>4, <1>5, <1>7, <1>8, <1>9 DEF OpenInv, Owned
<1>13. TablesOwned'
  <2>1. ASSUME NEW b \in Used, inodes[b].private_data # NULL
        PROVE  /\ inodes[b].private_data # o
               /\ operations'[inodes[b].private_data] = operations[inodes[b].private_data]
    <3>1. inodes[b].private_data \in OpsAddr
      BY <1>10, <2>1 DEF OpenInv, OpenTypes, Inode
    <3>2. operations[inodes[b].private_data] \in {"file", "dir"}
      BY <2>1 DEF OpenInv, TablesOwned
    <3> QED BY <1>1, <1>6, <3>1, <3>2
  <2>2. \A b \in Used' :
          /\ inodes'[b].type = "REGULAR" => inodes'[b].private_data # NULL
          /\ inodes'[b].private_data # NULL =>
               operations'[inodes'[b].private_data]
                 = IF inodes'[b].type = "REGULAR" THEN "file" ELSE "dir"
    BY <1>1, <1>2, <1>4, <1>6, <1>8, <1>10, <2>1 DEF OpenInv, TablesOwned
  <2>3. \A b, c \in Used' : inodes'[b].private_data # NULL
          /\ inodes'[c].private_data = inodes'[b].private_data => b = c
    BY <1>1, <1>2, <1>4, <1>8, <1>10, <2>1 DEF OpenInv, TablesOwned
  <2>4. \A gd \in OpenFd' : inodes'[file_descriptors'[gd].inode].private_data
                               \in {NULL, file_descriptors'[gd].ops}
    BY <1>2, <1>3, <1>4, <1>5, <1>7, <1>9 DEF OpenInv, TablesOwned
  <2> QED BY <2>2, <2>3, <2>4 DEF TablesOwned
<1> QED BY <1>11, <1>12, <1>13 DEF OpenInv

LEMMA CloseKeepsInv ==
  ASSUME OpenInv, NEW fd \in Fd, vfs_close(fd)
  PROVE  OpenInv'
<1> DEFINE a    == file_descriptors[fd].inode
           data == inodes[a].private_data
<1>1. fd \in OpenFd
  BY DEF vfs_close, OpenFd
<1>2. /\ a \in InodeAddr /\ inodes[a].ref_count = 1
      /\ inodes \in [InodeAddr -> Inode] /\ data \in OpsAddr \cup {NULL}
  BY <1>1 DEF OpenInv, OpenTypes, Owned, Inode
<1>3. inodes' = [inodes EXCEPT ![a] = NoInode]
  BY <1>2 DEF vfs_close, vfs_destroy_inode
<1>4. /\ file_descriptors' \in [Fd -> FileDescriptor]
      /\ file_descriptors'[fd].ref_count = 0
      /\ \A gd \in Fd : gd # fd => file_descriptors'[gd] = file_descriptors[gd]
  BY DEF vfs_close, OpenInv, OpenTypes, FileDescriptor
<1>5. /\ operations' \in [OpsAddr -> {"file", "dir", "free"}]
      /\ \A p \in OpsAddr : p # data => operations'[p] = operations[p]
  BY <1>2 DEF vfs_close, OpenInv, OpenTypes
<1> HIDE DEF a, data
<1>6. NoInode \in Inode /\ NoInode.ref_count = 0
  BY DEF NoInode, Inode
<1>7. /\ inodes' \in [InodeAddr -> Inode] /\ inodes'[a].ref_count = 0
      /\ \A b \in InodeAddr : b # a => inodes'[b] = inodes[b]
  BY <1>2, <1>3, <1>6
<1>8. OpenFd' = OpenFd \ {fd}
  BY <1>4 DEF OpenFd
<1>9. Used' = Used \ {a} /\ a \in Used
  BY <1>2, <1>7 DEF Used, FreeInode
<1>10. \A gd \in OpenFd' : /\ gd \in OpenFd /\ file_descriptors'[gd] = file_descriptors[gd]
                            /\ file_descriptors[gd].inode \in InodeAddr
                            /\ file_descriptors[gd].inode # a
  BY <1>1, <1>4, <1>8 DEF OpenFd, OpenInv, OpenTypes, Owned, a
<1>11. \A b \in Used' : b \in InodeAddr /\ b \in Used /\ b # a /\ inodes'[b] = inodes[b]
  BY <1>7, <1>9 DEF Used
<1>12. OpenTypes'
  BY <1>4, <1>5, <1>7, <1>10 DEF OpenInv, OpenTypes
<1>13. Owned'
  <2>1. \A b \in Used' : \E gd \in OpenFd' : file_descriptors'[gd].inode = b
    BY <1>8, <1>10, <1>11 DEF OpenInv, Owned, a
  <2> QED BY <1>7, <1>10, <2>1 DEF OpenInv, Owned
<1>14. TablesOwned'
  <2>1. ASSUME NEW b \in Used', inodes[b].private_data # NULL
        PROVE  operations'[inodes[b].private_data] = operations[inodes[b].private_data]
    <3>1. inodes[b].private_data \in OpsAddr
      BY <1>11, <2>1 DEF OpenInv, OpenTypes, Inode
    <3>2. inodes[b].private_data # data
      BY <1>9, <1>11, <2>1 DEF OpenInv, TablesOwned, data
    <3> QED BY <1>5, <3>1, <3>2
  <2> QED BY <1>7, <1>10, <1>11, <2>1 DEF OpenInv, TablesOwned
<1> QED BY <1>12, <1>13, <1>14 DEF OpenInv
-----------------------------------------------------------------------------
(* The actions.                                                            *)

LEMMA InitEstablishesInv == VfsInit => VfsInv
<1> SUFFICES ASSUME VfsInit PROVE VfsInv
  OBVIOUS
<1> USE DEF VfsInit, vfs_init, devfs_init
<1>0. {MAX_FILESYSTEMS, MAX_MOUNT_POINTS, MAX_DEVICES} \subseteq Nat
  BY VfsAssumption
<1>1. MountInv
  <2>1. MountsAgree
    BY DEF MountsAgree, ToSet
  <2> QED BY <1>0, <2>1, EmptySeq DEF MountInv, PathsDistinct
<1>2. DeviceInv
  BY <1>0, EmptySeq DEF DeviceInv
<1>3. NoInode \in Inode /\ NoInode.ref_count = 0
  BY DEF NoInode, Inode
<1>4. NoDescriptor \in FileDescriptor /\ NoDescriptor.ref_count = 0
  BY DEF NoDescriptor, FileDescriptor
<1>5. OpenFd = {} /\ Used = {}
  BY <1>3, <1>4 DEF OpenFd, Used, FreeInode
<1>6. OpenInv
  BY <1>3, <1>4, <1>5 DEF OpenInv, OpenTypes, Owned, TablesOwned
<1> QED BY <1>1, <1>2, <1>6 DEF VfsInv

\* The parts of the invariant depend on their own variables only.
LEMMA UnchangedParts ==
  /\ MountInv /\ UNCHANGED mountVars => MountInv'
  /\ DeviceInv /\ UNCHANGED deviceVars => DeviceInv'
  /\ OpenInv /\ UNCHANGED openVars => OpenInv'
<1>1. MountInv /\ UNCHANGED mountVars => MountInv'
  BY DEF MountInv, mountVars, PathsDistinct, MountsAgree
<1>2. DeviceInv /\ UNCHANGED deviceVars => DeviceInv'
  BY DEF DeviceInv, deviceVars
<1>3. OpenInv /\ UNCHANGED openVars => OpenInv'
  BY DEF OpenInv, openVars, OpenTypes, Owned, TablesOwned, OpenFd, Used, FreeInode
<1> QED BY <1>1, <1>2, <1>3

LEMMA RegisterFsKeepsTypes ==
  ASSUME MountInv, NEW fs \in FileSystemName, vfs_register_filesystem(fs)
  PROVE  /\ registered_filesystems' \in Seq(FileSystemName)
         /\ Len(registered_filesystems') <= MAX_FILESYSTEMS
<1> DEFINE n == Len(registered_filesystems)
<1>1. /\ registered_filesystems' \in Seq(FileSystemName)
      /\ Len(registered_filesystems') = n + 1
  BY AppendIs DEF vfs_register_filesystem, MountInv
<1>2. n \in Nat /\ n < MAX_FILESYSTEMS
  BY LenProperties DEF vfs_register_filesystem, MountInv
<1>3. MAX_FILESYSTEMS \in Nat
  BY VfsAssumption
<1> HIDE DEF n
<1>4. n + 1 <= MAX_FILESYSTEMS
  BY <1>2, <1>3
<1> QED BY <1>1, <1>4

LEMMA RegisterKeepsInv ==
  ASSUME DeviceInv, NEW name \in DeviceName, NEW type \in DeviceType,
         NEW data \in DeviceAddr \cup {NULL}, devfs_register_device(name, type, data)
  PROVE  devices' \in Seq(DeviceNode) /\ Len(devices') <= MAX_DEVICES
<1> DEFINE e == [name |-> name, type |-> type, device_data |-> data]
           n == Len(devices)
<1>1. CASE UNCHANGED devices
  BY <1>1 DEF DeviceInv
<1>2. CASE CanRegister(name) /\ devices' = Append(devices, e)
  <2>1. e \in DeviceNode
    BY DEF DeviceNode
  <2>2. devices' \in Seq(DeviceNode) /\ Len(devices') = n + 1
    BY <1>2, <2>1, AppendIs DEF DeviceInv
  <2>3. n \in Nat /\ n < MAX_DEVICES
    BY <1>2, LenProperties DEF CanRegister, DeviceInv
  <2>4. MAX_DEVICES \in Nat
    BY VfsAssumption
  <2> HIDE DEF n
  <2>5. n + 1 <= MAX_DEVICES
    BY <2>3, <2>4
  <2> QED BY <2>2, <2>5
<1> QED BY <1>1, <1>2 DEF devfs_register_device

LEMMA UnregisterKeepsInv ==
  ASSUME DeviceInv, NEW name, devfs_unregister_device(name)
  PROVE  DeviceInv'
<1> DEFINE n == Len(devices)
<1>1. PICK i \in DOMAIN devices : devices' = RemoveAt(devices, i)
  BY DEF devfs_unregister_device, find_device_by_name
<1>2. devices \in Seq(DeviceNode) /\ n \in Nat /\ i \in 1 .. n
  BY LenProperties DEF DeviceInv
<1>3. devices' \in Seq(DeviceNode) /\ Len(devices') = n - 1
  BY <1>1, <1>2, RemoveAtIs
<1>4. n - 1 <= MAX_DEVICES
  <2>1. n <= MAX_DEVICES
    BY DEF DeviceInv
  <2>2. MAX_DEVICES \in Nat
    BY VfsAssumption
  <2> HIDE DEF n
  <2> QED BY <1>2, <2>1, <2>2
<1>5. active_block_devices' = active_block_devices
  BY DEF devfs_unregister_device
<1> QED BY <1>3, <1>4, <1>5 DEF DeviceInv

LEMMA DiskNameIsName ==
  ASSUME NEW n \in Nat, n < Len(DiskNames)
  PROVE  DiskNames[n + 1] \in DeviceName
<1>1. DiskNames \in Seq(STRING)
  BY VfsAssumption
<1>2. Len(DiskNames) \in Nat /\ DOMAIN DiskNames = 1 .. Len(DiskNames)
  BY <1>1, LenProperties
<1>3. n + 1 \in 1 .. Len(DiskNames)
  BY <1>2
<1> QED BY <1>2, <1>3 DEF DeviceName, ToSet

LEMMA AddDriveKeepsInv ==
  ASSUME DeviceInv, AddDrive
  PROVE  DeviceInv'
<1>1. PICK d \in DeviceAddr :
        /\ block_device_initialize(d)
        /\ active_block_devices' = Append(active_block_devices, d)
  BY DEF AddDrive
<1>2. active_block_devices' \in Seq(DeviceAddr)
  BY <1>1, AppendIs DEF DeviceInv
<1>3. DiskNames[num_block_devices + 1] \in DeviceName
  <2>1. num_block_devices \in Nat /\ num_block_devices < Len(DiskNames)
    BY LenProperties DEF DeviceInv, AddDrive, num_block_devices
  <2> QED BY <2>1, DiskNameIsName
<1>4. devices' \in Seq(DeviceNode) /\ Len(devices') <= MAX_DEVICES
  BY <1>1, <1>3, RegisterKeepsInv DEF block_device_initialize, DeviceType
<1> QED BY <1>2, <1>4 DEF DeviceInv

LEMMA KeyboardKeepsInv ==
  ASSUME DeviceInv, create_keyboard_driver
  PROVE  DeviceInv'
<1>1. devfs_register_device("keyboard", "CHAR_DEVICE", NULL)
      /\ active_block_devices' = active_block_devices
  BY DEF create_keyboard_driver
<1>2. devices' \in Seq(DeviceNode) /\ Len(devices') <= MAX_DEVICES
  BY <1>1, RegisterKeepsInv DEF DeviceName, DeviceType
<1> QED BY <1>1, <1>2 DEF DeviceInv
LEMMA MountActionsKeepInv ==
  ASSUME MountInv, NEW t \in Targets,
         \/ devfs_mount(t) \/ Umount(t) \/ MountBlankDisk(t)
         \/ \E fs \in FileSystemName : Mount(t, fs)
  PROVE  MountInv'
<1>1. ASSUME NEW fs \in FileSystemName, Mount(t, fs) PROVE MountInv'
  BY <1>1, MountKeepsInv DEF Mount, MountInv
<1>2. CASE Umount(t)
  BY <1>2, UmountKeepsInv DEF Umount, MountInv
<1>3. CASE MountBlankDisk(t)
  BY <1>3, UnchangedParts DEF MountBlankDisk
<1>4. CASE devfs_mount(t)
  <2>1. /\ registered_filesystems' \in Seq(FileSystemName)
        /\ Len(registered_filesystems') <= MAX_FILESYSTEMS
    BY <1>4, RegisterFsKeepsTypes DEF devfs_mount, FileSystemName
  <2>2. CASE vfs_mount(t, "devfs") /\ devfs_mount_point' \in {<< >>, <<t>>}
    BY <2>1, <2>2, MountKeepsInv DEF MountInv, FileSystemName
  <2>3. CASE UNCHANGED <<mount_points, ext4_fs_data, devfs_mount_point>>
    BY <2>1, <2>3 DEF MountInv, PathsDistinct, MountsAgree
  <2> QED BY <1>4, <2>2, <2>3 DEF devfs_mount
<1> QED BY <1>1, <1>2, <1>3, <1>4

LEMMA DevfsUmountKeepsInv ==
  ASSUME MountInv, devfs_umount
  PROVE  MountInv'
<1>1. PICK t \in Targets : devfs_mount_point = <<t>>
  BY DEF devfs_umount, MountInv
<1>2. vfs_umount(t) /\ devfs_mount_point' = << >>
      /\ registered_filesystems' = registered_filesystems
  BY <1>1 DEF devfs_umount
<1> QED BY <1>2, UmountKeepsInv DEF MountInv

LEMMA Ext4InitKeepsInv ==
  ASSUME MountInv, ext4_init
  PROVE  MountInv'
BY RegisterFsKeepsTypes DEF ext4_init, MountInv, FileSystemName, PathsDistinct, MountsAgree

\* The inode a lookup has made, given back: its place holds no inode.
LEMMA MadeAndDestroyed ==
  ASSUME OpenInv, NEW a \in FreeInode, NEW kind, NEW o
  PROVE  vfs_destroy_inode(vfs_create_inode(a, kind, o), a) = [inodes EXCEPT ![a] = NoInode]
<1>1. a \in InodeAddr /\ inodes \in [InodeAddr -> Inode]
  BY DEF FreeInode, OpenInv, OpenTypes
<1> DEFINE made == vfs_create_inode(a, kind, o)
<1>2. made[a].ref_count = 1
  BY <1>1 DEF vfs_create_inode
<1>3. [made EXCEPT ![a] = NoInode] = [inodes EXCEPT ![a] = NoInode]
  BY <1>1 DEF vfs_create_inode
<1> HIDE DEF made
<1>4. vfs_destroy_inode(made, a) = [made EXCEPT ![a] = NoInode]
  BY <1>2 DEF vfs_destroy_inode
<1> QED BY <1>3, <1>4 DEF made

\* A table that was free has been filled in.
LEMMA FilledTable ==
  ASSUME OpenInv, NEW o \in FreeOps, NEW kind
  PROVE  /\ ext4_find_inode(kind, o) \in [OpsAddr -> {"file", "dir", "free"}]
         /\ \A p \in OpsAddr : operations[p] # "free" =>
              ext4_find_inode(kind, o)[p] = operations[p]
BY DEF ext4_find_inode, FreeOps, OpenInv, OpenTypes

LEMMA OpenKeepsInv ==
  ASSUME OpenInv, NEW path, vfs_open(path)
  PROVE  OpenInv'
<1>1. PICK a \in FreeInode, o \in FreeOps, kind \in {"REGULAR", "DIRECTORY"} :
        \/ /\ allocate_file_descriptor(a, o)
           /\ inodes' = vfs_create_inode(a, kind, o)
           /\ operations' = ext4_find_inode(kind, o)
        \/ /\ inodes' = vfs_destroy_inode(vfs_create_inode(a, kind, o), a)
           /\ operations' \in {operations, ext4_find_inode(kind, o)}
           /\ UNCHANGED file_descriptors
        \/ UNCHANGED openVars
  BY DEF vfs_open
<1>2. operations \in [OpsAddr -> {"file", "dir", "free"}]
  BY DEF OpenInv, OpenTypes
<1>3. CASE /\ inodes' = vfs_destroy_inode(vfs_create_inode(a, kind, o), a)
           /\ operations' \in {operations, ext4_find_inode(kind, o)}
           /\ UNCHANGED file_descriptors
  BY <1>2, <1>3, MadeAndDestroyed, FilledTable, LookupKeepsInv
<1>4. CASE /\ allocate_file_descriptor(a, o)
           /\ inodes' = vfs_create_inode(a, kind, o)
           /\ operations' = ext4_find_inode(kind, o)
  <2>1. PICK fd \in UnusedFd :
          file_descriptors' = [file_descriptors EXCEPT
                                 ![fd] = [inode |-> a, ops |-> o, ref_count |-> 1]]
    BY <1>4 DEF allocate_file_descriptor
  <2>2. o # NULL
    BY VfsAssumption DEF FreeOps
  <2>3. inodes' = [inodes EXCEPT ![a] = [type |-> kind, ref_count |-> 1, private_data |-> o]]
    BY <1>4 DEF vfs_create_inode
  <2>4. operations' = [operations EXCEPT ![o] = IF kind = "REGULAR" THEN "file" ELSE "dir"]
    BY <1>4 DEF ext4_find_inode
  <2> QED BY <2>1, <2>2, <2>3, <2>4, DescriptorKeepsInv
<1>5. CASE UNCHANGED openVars
  BY <1>5, UnchangedParts
<1> QED BY <1>1, <1>3, <1>4, <1>5

LEMMA OpendirKeepsInv ==
  ASSUME OpenInv, NEW path, vfs_opendir(path)
  PROVE  OpenInv'
<1>1. PICK a \in FreeInode, o \in FreeOps, kind \in {"REGULAR", "DIRECTORY"} :
        \/ /\ inodes' = vfs_destroy_inode(vfs_create_inode(a, kind, o), a)
           /\ operations' = ext4_find_inode(kind, o)
           /\ UNCHANGED file_descriptors
        \/ /\ kind = "DIRECTORY" /\ allocate_file_descriptor(a, o)
           /\ inodes' = [vfs_create_inode(a, kind, o) EXCEPT ![a].private_data = NULL]
           /\ UNCHANGED operations
        \/ UNCHANGED openVars
  BY DEF vfs_opendir
<1>2. CASE /\ inodes' = vfs_destroy_inode(vfs_create_inode(a, kind, o), a)
           /\ operations' = ext4_find_inode(kind, o)
           /\ UNCHANGED file_descriptors
  BY <1>2, MadeAndDestroyed, FilledTable, LookupKeepsInv
<1>3. CASE /\ kind = "DIRECTORY" /\ allocate_file_descriptor(a, o)
           /\ inodes' = [vfs_create_inode(a, kind, o) EXCEPT ![a].private_data = NULL]
           /\ UNCHANGED operations
  <2>1. PICK fd \in UnusedFd :
          file_descriptors' = [file_descriptors EXCEPT
                                 ![fd] = [inode |-> a, ops |-> o, ref_count |-> 1]]
    BY <1>3 DEF allocate_file_descriptor
  <2>2. a \in InodeAddr /\ inodes \in [InodeAddr -> Inode]
    BY DEF FreeInode, OpenInv, OpenTypes
  <2> DEFINE i == [type |-> kind, ref_count |-> 1, private_data |-> o]
             j == [type |-> kind, ref_count |-> 1, private_data |-> NULL]
  <2>3. inodes' = [inodes EXCEPT ![a] = j]
    <3>1. inodes' = [[inodes EXCEPT ![a] = i] EXCEPT ![a].private_data = NULL]
      BY <1>3 DEF vfs_create_inode
    <3>2. [i EXCEPT !.private_data = NULL] = j
      OBVIOUS
    <3> HIDE DEF i, j
    <3> QED BY <2>2, <3>1, <3>2
  <2> QED BY <1>3, <2>1, <2>3, DescriptorKeepsInv
<1>4. CASE UNCHANGED openVars
  BY <1>4, UnchangedParts
<1> QED BY <1>1, <1>2, <1>3, <1>4

LEMMA OnParentKeepsInv ==
  ASSUME OpenInv, NEW path, OnParent(path)
  PROVE  OpenInv'
<1>1. PICK r \in vfs_find_mount_point(path), a \in FreeInode, o \in FreeOps :
        LET kind == KindOf([r EXCEPT !.rel = Front(@)])
        IN  \/ /\ inodes' = vfs_destroy_inode(vfs_create_inode(a, kind, o), a)
               /\ operations' = ext4_find_inode(kind, o)
               /\ UNCHANGED file_descriptors
            \/ UNCHANGED openVars
  BY DEF OnParent
<1> DEFINE kind == KindOf([r EXCEPT !.rel = Front(@)])
<1>2. CASE /\ inodes' = vfs_destroy_inode(vfs_create_inode(a, kind, o), a)
           /\ operations' = ext4_find_inode(kind, o)
           /\ UNCHANGED file_descriptors
  <2> HIDE DEF kind
  <2> QED BY <1>2, MadeAndDestroyed, FilledTable, LookupKeepsInv
<1>3. CASE UNCHANGED openVars
  BY <1>3, UnchangedParts
<1> QED BY <1>1, <1>2, <1>3

LEMMA RmdirKeepsInv ==
  ASSUME OpenInv, NEW path, vfs_rmdir(path)
  PROVE  OpenInv'
<1>1. PICK r \in vfs_find_mount_point(path), a \in FreeInode, o \in FreeOps, q \in FreeOps :
        LET kind == KindOf([r EXCEPT !.rel = Front(@)])
        IN  /\ inodes' = vfs_destroy_inode(vfs_create_inode(a, kind, o), a)
            /\ operations' = [ext4_find_inode(KindOf(r), q) EXCEPT ![o] = ext4_find_inode(kind, o)[o]]
            /\ UNCHANGED file_descriptors
  BY DEF vfs_rmdir
<1> DEFINE kind == KindOf([r EXCEPT !.rel = Front(@)])
           one  == ext4_find_inode(KindOf(r), q)
           two  == ext4_find_inode(kind, o)
<1>2. /\ inodes' = [inodes EXCEPT ![a] = NoInode] /\ operations' = [one EXCEPT ![o] = two[o]]
      /\ UNCHANGED file_descriptors
  <2>1. vfs_destroy_inode(vfs_create_inode(a, kind, o), a) = [inodes EXCEPT ![a] = NoInode]
    <3> HIDE DEF kind
    <3> QED BY MadeAndDestroyed
  <2> QED BY <1>1, <2>1
<1>3. /\ one \in [OpsAddr -> {"file", "dir", "free"}]
      /\ \A p \in OpsAddr : operations[p] # "free" => one[p] = operations[p]
  BY FilledTable
<1>4. two \in [OpsAddr -> {"file", "dir", "free"}]
  <2> HIDE DEF kind
  <2> QED BY FilledTable
<1>5. o \in OpsAddr /\ operations[o] = "free"
  BY DEF FreeOps
<1> HIDE DEF one, two
<1>6. /\ operations' \in [OpsAddr -> {"file", "dir", "free"}]
      /\ \A p \in OpsAddr : operations[p] # "free" => operations'[p] = operations[p]
  BY <1>2, <1>3, <1>4, <1>5
<1> QED BY <1>2, <1>6, LookupKeepsInv

LEMMA NextKeepsInv == VfsInv /\ [VfsNext]_vfsVars => VfsInv'
<1> SUFFICES ASSUME VfsInv, [VfsNext]_vfsVars PROVE VfsInv'
  OBVIOUS
<1> USE DEF VfsInv
<1>1. CASE ext4_init
  BY <1>1, Ext4InitKeepsInv, UnchangedParts DEF ext4_init, StaysTame
<1>2. CASE devfs_umount
  BY <1>2, DevfsUmountKeepsInv, UnchangedParts DEF devfs_umount, StaysTame
<1>3. ASSUME NEW t \in Targets,
             \/ devfs_mount(t) \/ Umount(t) \/ MountBlankDisk(t)
             \/ \E fs \in FileSystemName : Mount(t, fs)
      PROVE  VfsInv'
  <2>1. MountInv'
    BY <1>3, MountActionsKeepInv
  <2>2. UNCHANGED deviceVars /\ UNCHANGED openVars /\ wild' \in BOOLEAN
    BY <1>3 DEF devfs_mount, Umount, MountBlankDisk, Mount, StaysTame, RunsWild
  <2> QED BY <2>1, <2>2, UnchangedParts
<1>4. CASE AddDrive
  BY <1>4, AddDriveKeepsInv, UnchangedParts DEF AddDrive, StaysTame
<1>5. CASE create_keyboard_driver
  BY <1>5, KeyboardKeepsInv, UnchangedParts DEF create_keyboard_driver, StaysTame
<1>6. ASSUME NEW n \in DeviceName, devfs_unregister_device(n) PROVE VfsInv'
  BY <1>6, UnregisterKeepsInv, UnchangedParts DEF devfs_unregister_device, StaysTame
<1>7. ASSUME NEW p \in Paths,
             \/ vfs_open(p) \/ OpenDevice(p) \/ vfs_opendir(p)
             \/ vfs_mkdir(p) \/ vfs_remove(p) \/ vfs_rmdir(p)
      PROVE  VfsInv'
  <2>1. OpenInv'
    BY <1>7, OpenKeepsInv, OpendirKeepsInv, OnParentKeepsInv, RmdirKeepsInv, UnchangedParts
       DEF OpenDevice, vfs_mkdir, vfs_remove
  <2>2. UNCHANGED mountVars /\ UNCHANGED deviceVars /\ wild' \in BOOLEAN
    BY <1>7 DEF vfs_open, OpenDevice, vfs_opendir, vfs_mkdir, vfs_remove, OnParent, vfs_rmdir,
                StaysTame, RunsWild
  <2> QED BY <2>1, <2>2, UnchangedParts
<1>8. ASSUME NEW fd \in Fd, vfs_close(fd) \/ vfs_read(fd) \/ DanglingCall(fd)
      PROVE  VfsInv'
  <2>1. OpenInv'
    BY <1>8, CloseKeepsInv, UnchangedParts DEF vfs_read, DanglingCall
  <2>2. UNCHANGED mountVars /\ UNCHANGED deviceVars /\ wild' \in BOOLEAN
    BY <1>8 DEF vfs_close, vfs_read, DanglingCall, StaysTame, RunsWild
  <2> QED BY <2>1, <2>2, UnchangedParts
<1>9. CASE UNCHANGED vfsVars
  BY <1>9, UnchangedParts DEF vfsVars
<1> QED BY <1>1, <1>2, <1>3, <1>4, <1>5, <1>6, <1>7, <1>8, <1>9 DEF VfsNext
-----------------------------------------------------------------------------
(* The theorems.                                                           *)

\* The parts of the inductive invariant hold after every sequence of calls.
THEOREM VfsInvariance == VfsSpec => []VfsInv
<1>1. VfsInit => VfsInv
  BY InitEstablishesInv
<1>2. VfsInv /\ [VfsNext]_vfsVars => VfsInv'
  BY NextKeepsInv
<1> QED BY <1>1, <1>2, PTL DEF VfsSpec

LEMMA InvImpliesTypes == VfsInv => VfsTypeOK
BY DEF VfsInv, MountInv, DeviceInv, OpenInv, OpenTypes, VfsTypeOK, Entry

\* For every number of descriptors and inodes, vfs_open, vfs_opendir and vfs_close keep
\* allocated exactly the inodes of the open descriptors, on every failure path.
THEOREM InodesStayOwned == VfsSpec => []InodesOwned
<1>1. VfsInv => InodesOwned
  BY InvImpliesTypes DEF VfsInv, OpenInv, Owned, Used, InodesOwned
<1> QED BY <1>1, VfsInvariance, PTL

\* An open regular file keeps its table of operations to itself, however many
\* directories hold pointers to tables that vfs_opendir has freed.
THEOREM RegularFilesStayIntact == VfsSpec => []RegularFilesIntact
<1>1. VfsInv => RegularFilesIntact
  <2> SUFFICES ASSUME VfsInv, NEW fd \in OpenFd,
                      inodes[file_descriptors[fd].inode].type = "REGULAR"
               PROVE  LET a == file_descriptors[fd].inode
                          o == file_descriptors[fd].ops
                      IN  /\ operations[o] = "file" /\ inodes[a].private_data = o
                          /\ \A b \in InodeAddr \ FreeInode :
                               inodes[b].private_data = o => a = b
    BY DEF RegularFilesIntact
  <2> DEFINE a == file_descriptors[fd].inode
             o == file_descriptors[fd].ops
  <2>1. a \in InodeAddr /\ inodes[a].ref_count = 1
    BY DEF VfsInv, OpenInv, OpenTypes, Owned
  <2>2. a \in Used
    BY <2>1 DEF Used, FreeInode
  <2>3. inodes[a].private_data # NULL /\ inodes[a].private_data = o
    BY <2>2 DEF VfsInv, OpenInv, TablesOwned
  <2> QED BY <2>2, <2>3 DEF VfsInv, OpenInv, TablesOwned, Used
<1> QED BY <1>1, VfsInvariance, PTL

\* ext4 and the mount table agree on whether and where ext4 is mounted, after every
\* mix of vfs_mount, vfs_umount, devfs_mount and devfs_umount on tables of any size.
THEOREM MountTableAgrees == VfsSpec => []MountsAgree
<1>1. VfsInv => MountsAgree
  BY DEF VfsInv, MountInv
<1> QED BY <1>1, VfsInvariance, PTL

\* A path goes to the deepest mount point above it, for every set of paths and every
\* table of mount points, in whatever order vfs_mount and vfs_umount have filled it.
THEOREM DeepestMountWins == VfsSpec => []LongestMountWins
<1>1. VfsInv => LongestMountWins
  <2> SUFFICES ASSUME VfsInv, NEW p \in Paths, NEW i \in DOMAIN mount_points,
                      Covers(mount_points[i].path, p), NEW r \in vfs_find_mount_point(p)
               PROVE  \E j \in DOMAIN mount_points :
                        /\ mount_points[j].path \o r.rel = p /\ mount_points[j].fs = r.fs
                        /\ Len(mount_points[j].path) >= Len(mount_points[i].path)
    BY DEF LongestMountWins
  <2> DEFINE j == best_match(p)[Len(mount_points)]
  <2>1. mount_points \in Seq(Entry) /\ p \in Seq(STRING)
    BY VfsAssumption DEF VfsInv, MountInv
  <2>2. /\ j \in DOMAIN mount_points /\ Covers(MountPath(j), p)
        /\ Len(MountPath(j)) >= Len(MountPath(i))
    BY <2>1, BestMatchIsLongest DEF MountPath
  <2>3. MountPath(j) \in Seq(STRING) /\ j # 0
    <3>1. j \in 1 .. Len(mount_points) /\ Len(mount_points) \in Nat
      BY <2>1, <2>2, LenProperties
    <3> HIDE DEF j
    <3>2. mount_points[j] \in Entry
      BY <2>1, <3>1, ElementOfSeq
    <3> QED BY <3>1, <3>2, VfsAssumption DEF MountPath, Entry
  <2>4. r = [fs |-> mount_points[j].fs,
             rel |-> SubSeq(p, Len(mount_points[j].path) + 1, Len(p))]
    BY <2>2, <2>3 DEF vfs_find_mount_point
  <2> HIDE DEF j
  <2>5. MountPath(j) \o SubSeq(p, Len(MountPath(j)) + 1, Len(p)) = p
    BY <2>1, <2>2, <2>3, CoveredPathSplits
  <2> QED BY <2>2, <2>4, <2>5 DEF MountPath
<1> QED BY <1>1, VfsInvariance, PTL

-----------------------------------------------------------------------------
(* Start-up and the installer: the inductive invariant, by the parts of    *)
(* the system.                                                             *)

BeforeMounts   == {"select_drivers", "devfs_mount"}
BeforeDrive    == {"devfs_mount", "ext4_init", "drive"}
BeforeRoot     == {"select_drivers", "devfs_mount", "ext4_init", "drive", "root"}
BeforeKeyboard == BeforeRoot \cup {"keyboard"}

BootInv ==
  /\ boot \in BeforeKeyboard \cup {"user_mode", "running"}
  /\ functions \in 0 .. MaxFunctions
  /\ system_hardware_status \in 0 .. 2
  /\ process \in {"none", "shell", "installer"}
  /\ boot \in BeforeRoot => system_hardware_status = 0
  /\ boot # "running" => process = "none"

\* The scan may fill the table of devices; devfs_init empties it, and only one node
\* is made before that of the keyboard.
DrivesInv ==
  /\ num_block_devices <= MAX_BLOCK_DEVICES
  /\ block_devices \subseteq DeviceAddr
  /\ DevicesLive
  /\ boot \in BeforeDrive => devices = << >>
  /\ boot \in {"root", "keyboard"} => Len(devices) <= 1

DriversInv ==
  /\ handlers \in [{n \in Lines : n < 16} \cup {KEYBOARD_LINE} -> {"none", "block", "keyboard"}]
  /\ drivers \in Seq({"keyboard"})
  /\ boot \in BeforeKeyboard => drivers = << >>
  /\ KeyboardWired

InstallerInv ==
  /\ installer \in {"off", "confirm", "prompt", "install", "complete"}
  /\ target_device \in DeviceAddr \cup {NULL}
  /\ dirs \in 0 .. Directories
  /\ installer # "off" => boot = "running"
  /\ installer = "install" => system_hardware_status # 1

DevEntry    == [path |-> <<"dev">>, fs |-> "devfs"]
RootEntry   == [path |-> << >>, fs |-> "ext4"]
TargetEntry == [path |-> TARGET, fs |-> "ext4"]

\* Where the kernel and the installer are says what is mounted.
MountsAre ==
  /\ boot \in BeforeMounts => mount_points = << >> /\ ext4_fs_data = << >>
  /\ boot \notin BeforeMounts /\ installer # "install" =>
       /\ system_hardware_status # 1 => mount_points = <<DevEntry>> /\ ext4_fs_data = << >>
       /\ system_hardware_status = 1 =>
            mount_points = <<DevEntry, RootEntry>> /\ ext4_fs_data = << << >> >>
  /\ installer = "install" =>
       mount_points = <<DevEntry, TargetEntry>> /\ ext4_fs_data = <<TARGET>>

SystemInv == VfsInv /\ BootInv /\ DrivesInv /\ DriversInv /\ InstallerInv /\ MountsAre

-----------------------------------------------------------------------------
(* The file layer under start-up and the installer.                        *)

LEMMA PathsAreTargets ==
  << >> \in Targets /\ <<"dev">> \in Targets /\ TARGET \in Targets
BY StartupAssumption, InstallerAssumption

LEMMA DeviceKeepsInv ==
  ASSUME DeviceInv, num_block_devices <= MAX_BLOCK_DEVICES,
         NEW d \in DeviceAddr, block_device_initialize(d)
  PROVE  devices' \in Seq(DeviceNode) /\ Len(devices') <= MAX_DEVICES
<1>1. num_block_devices \in Nat /\ MAX_BLOCK_DEVICES \in Nat
  BY LenProperties, StartupAssumption DEF DeviceInv, num_block_devices
<1>2. num_block_devices < Len(DiskNames)
  BY <1>1, StartupAssumption
<1>3. DiskNames[num_block_devices + 1] \in DeviceName
  BY <1>1, <1>2, DiskNameIsName
<1> QED BY <1>3, RegisterKeepsInv DEF block_device_initialize, DeviceType

LEMMA ScanKeepsDevices ==
  ASSUME DeviceInv, num_block_devices <= MAX_BLOCK_DEVICES, NEW line, set_8086_device(line)
  PROVE  DeviceInv'
<1>1. PICK d \in DeviceAddr \ block_devices :
        /\ block_device_initialize(d)
        /\ \/ UNCHANGED active_block_devices
           \/ active_block_devices' = Append(active_block_devices, d)
  BY DEF set_8086_device
<1>2. active_block_devices' \in Seq(DeviceAddr)
  BY <1>1, AppendIs DEF DeviceInv
<1> QED BY <1>1, <1>2, DeviceKeepsInv DEF DeviceInv

LEMMA UseDriveKeepsDevices ==
  ASSUME DeviceInv, num_block_devices <= MAX_BLOCK_DEVICES, UseDrive
  PROVE  DeviceInv'
<1>1. PICK d \in DeviceAddr \ block_devices :
        /\ block_device_initialize(d)
        /\ \/ UNCHANGED active_block_devices
           \/ active_block_devices' = Append(active_block_devices, d)
  BY DEF UseDrive
<1>2. active_block_devices' \in Seq(DeviceAddr)
  BY <1>1, AppendIs DEF DeviceInv
<1> QED BY <1>1, <1>2, DeviceKeepsInv DEF DeviceInv

\* Every step of the kernel and of the installer is, for the file layer, a call it
\* allows or no call.
LEMMA SystemKeepsVfsInv ==
  ASSUME SystemInv, SystemNext
  PROVE  VfsInv'
<1> USE PathsAreTargets
<1>0. /\ MountInv /\ DeviceInv /\ OpenInv /\ wild \in BOOLEAN
      /\ num_block_devices <= MAX_BLOCK_DEVICES
  BY DEF SystemInv, VfsInv, DrivesInv
<1> USE DEF VfsInv
<1>1. CASE select_drivers
  <2>1. DeviceInv'
    <3>1. ASSUME NEW line, set_8086_device(line) PROVE DeviceInv'
      BY <1>0, <3>1, ScanKeepsDevices
    <3>2. CASE UNCHANGED deviceVars
      BY <1>0, <3>2, UnchangedParts
    <3> QED BY <1>1, <3>1, <3>2 DEF select_drivers
  <2> QED BY <1>0, <1>1, <2>1, UnchangedParts DEF select_drivers, StaysTame
<1>2. CASE InitFileLayer
  <2>1. DeviceInv'
    <3>1. devices' = << >> /\ active_block_devices' = active_block_devices
      BY <1>2 DEF InitFileLayer, ClearDevices
    <3>2. MAX_DEVICES \in Nat
      BY VfsAssumption
    <3> QED BY <1>0, <3>1, <3>2, EmptySeq DEF DeviceInv
  <2> QED BY <1>0, <1>2, <2>1, UnchangedParts DEF InitFileLayer, StaysTame
<1>3. CASE MountDevfs
  <2>1. devfs_mount(<<"dev">>)
    BY <1>3 DEF MountDevfs
  <2>2. MountInv'
    BY <1>0, <2>1, MountActionsKeepInv
  <2> QED BY <1>0, <2>1, <2>2, UnchangedParts DEF devfs_mount, StaysTame, RunsWild
<1>4. CASE InitExt4
  BY <1>0, <1>4, Ext4InitKeepsInv, UnchangedParts DEF InitExt4, ext4_init, StaysTame
<1>5. CASE UseDrive
  BY <1>0, <1>5, UseDriveKeepsDevices, UnchangedParts DEF UseDrive, StaysTame, RunsWild
<1>6. ASSUME NEW t \in Targets, Mount(t, "ext4") \/ MountBlankDisk(t) \/ Umount(t) PROVE VfsInv'
  <2>1. MountInv'
    BY <1>0, <1>6, MountActionsKeepInv DEF FileSystemName
  <2> QED BY <1>0, <1>6, <2>1, UnchangedParts
          DEF Mount, MountBlankDisk, Umount, StaysTame, RunsWild
<1>7. CASE create_keyboard_driver
  BY <1>0, <1>7, KeyboardKeepsInv, UnchangedParts DEF create_keyboard_driver, StaysTame
<1>8. CASE MakeDirectory
  <2>1. ASSUME NEW p, OnParent(p) PROVE VfsInv'
    BY <1>0, <2>1, OnParentKeepsInv, UnchangedParts DEF OnParent, StaysTame, RunsWild
  <2>2. CASE UNCHANGED vfsVars
    BY <1>0, <2>2, UnchangedParts DEF vfsVars
  <2> QED BY <1>8, <2>1, <2>2 DEF MakeDirectory, vfs_mkdir
<1>9. CASE installer_cmd_select_device
  BY <1>0, <1>9, UnchangedParts DEF installer_cmd_select_device, StaysTame, RunsWild
<1>10. CASE UNCHANGED vfsVars
  BY <1>0, <1>10, UnchangedParts DEF vfsVars
<1>11. \/ select_drivers \/ InitFileLayer \/ MountDevfs \/ InitExt4 \/ UseDrive
       \/ \E t \in Targets : Mount(t, "ext4") \/ MountBlankDisk(t) \/ Umount(t)
       \/ create_keyboard_driver \/ MakeDirectory \/ installer_cmd_select_device
       \/ UNCHANGED vfsVars
  BY DEF SystemNext, KernelStep, kernel_main, installer_run, installer_cmd_install,
         NoDrive, MountRoot, AddKeyboard, init_user_mode, installer_main, Confirm,
         installer_cmd_format, MountTarget, FinishInstall, startupVars
<1> QED BY <1>1, <1>2, <1>3, <1>4, <1>5, <1>6, <1>7, <1>8, <1>9, <1>10, <1>11


-----------------------------------------------------------------------------
(* The parts of the invariant.                                             *)

\* The steps of the installer leave the kernel's own state alone.
LEMMA InstallerLeavesBoot ==
  ASSUME installer_run
  PROVE  UNCHANGED bootVars
BY DEF installer_run, installer_main, Confirm, installer_cmd_format,
       installer_cmd_select_device, installer_cmd_install, MountTarget, MakeDirectory,
       FinishInstall, startupVars

LEMMA BootInvKept ==
  ASSUME SystemInv, SystemNext
  PROVE  BootInv'
<1> USE DEF SystemInv, BootInv, BeforeKeyboard, BeforeRoot
<1>0. MaxFunctions \in Nat
  BY StartupAssumption
<1>1. CASE select_drivers
  BY <1>0, <1>1 DEF select_drivers
<1>2. CASE InitFileLayer
  BY <1>2 DEF InitFileLayer
<1>3. CASE MountDevfs \/ InitExt4 \/ NoDrive \/ UseDrive
  BY <1>3 DEF MountDevfs, InitExt4, NoDrive, UseDrive
<1>4. CASE MountRoot
  BY <1>4 DEF MountRoot
<1>5. CASE AddKeyboard
  BY <1>5 DEF AddKeyboard
<1>6. CASE init_user_mode
  BY <1>6 DEF init_user_mode
<1>7. CASE installer_run
  BY <1>7, InstallerLeavesBoot DEF bootVars
<1> QED BY <1>1, <1>2, <1>3, <1>4, <1>5, <1>6, <1>7 DEF SystemNext, KernelStep, kernel_main

\* A device whose structure is new may be appended to the active ones.
LEMMA NewDeviceStaysLive ==
  ASSUME DeviceInv, ToSet(active_block_devices) \subseteq block_devices,
         IsInjective(active_block_devices), num_block_devices < MAX_BLOCK_DEVICES,
         NEW d \in DeviceAddr \ block_devices,
         active_block_devices' = Append(active_block_devices, d),
         block_devices' = block_devices \cup {d}
  PROVE  /\ num_block_devices' <= MAX_BLOCK_DEVICES
         /\ ToSet(active_block_devices') \subseteq block_devices'
         /\ IsInjective(active_block_devices')
<1> DEFINE n == num_block_devices
<1>1. n \in Nat /\ DOMAIN active_block_devices = 1 .. n
  BY LenProperties DEF DeviceInv, num_block_devices
<1>2. /\ active_block_devices' \in Seq(DeviceAddr) /\ Len(active_block_devices') = n + 1
      /\ \A j \in 1 .. n : active_block_devices'[j] = active_block_devices[j]
      /\ active_block_devices'[n + 1] = d
  BY AppendIs DEF DeviceInv, num_block_devices
<1>3. DOMAIN active_block_devices' = 1 .. n + 1 /\ num_block_devices' = n + 1
  BY <1>2, LenProperties DEF num_block_devices
<1>4. \A j \in 1 .. n : active_block_devices[j] \in block_devices
  BY <1>1 DEF ToSet
<1> HIDE DEF n
<1>5. \A j \in 1 .. n + 1 : j \in 1 .. n \/ j = n + 1
  BY <1>1
<1>6. n + 1 <= MAX_BLOCK_DEVICES
  BY <1>1, StartupAssumption DEF n
<1>7. \A j \in 1 .. n + 1 : active_block_devices'[j] \in block_devices'
  BY <1>2, <1>4, <1>5
<1>8. \A i, j \in 1 .. n + 1 : active_block_devices'[i] = active_block_devices'[j] => i = j
  BY <1>1, <1>2, <1>4, <1>5 DEF IsInjective
<1> QED BY <1>3, <1>6, <1>7, <1>8 DEF ToSet, IsInjective

\* What block_device_initialize does to the nodes of devfs.
LEMMA InitializedDevice ==
  ASSUME devices \in Seq(DeviceNode), NEW d, block_device_initialize(d)
  PROVE  \/ devices' = devices
         \/ /\ Len(devices') = Len(devices) + 1
            /\ DOMAIN devices' = 1 .. Len(devices) + 1
            /\ \A i \in 1 .. Len(devices) : devices'[i] = devices[i]
            /\ devices'[Len(devices) + 1].device_data = d
<1> DEFINE e == [name |-> DiskNames[num_block_devices + 1], type |-> "BLOCK_DEVICE",
                 device_data |-> d]
           T == DeviceNode \cup {e}
<1>1. devices' = devices \/ devices' = Append(devices, e)
  BY DEF block_device_initialize, devfs_register_device
<1>2. devices \in Seq(T) /\ e \in T
  <2> HIDE DEF e
  <2> QED OBVIOUS
<1>3. e.device_data = d
  OBVIOUS
<1> HIDE DEF e, T
<1>4. CASE devices' = Append(devices, e)
  <2>1. /\ devices' \in Seq(T) /\ Len(devices') = Len(devices) + 1
        /\ \A i \in 1 .. Len(devices) : devices'[i] = devices[i]
        /\ devices'[Len(devices) + 1] = e
    BY <1>2, <1>4, AppendIs
  <2>2. DOMAIN devices' = 1 .. Len(devices')
    BY <2>1, LenProperties
  <2> QED BY <1>3, <2>1, <2>2
<1> QED BY <1>1, <1>4

LEMMA ScanKeepsDrives ==
  ASSUME SystemInv, select_drivers
  PROVE  DrivesInv'
<1>0. /\ DrivesInv /\ DeviceInv /\ boot = "select_drivers" /\ boot' = "select_drivers"
  BY DEF SystemInv, VfsInv, select_drivers
<1>1. /\ num_block_devices <= MAX_BLOCK_DEVICES /\ block_devices \subseteq DeviceAddr
      /\ ToSet(active_block_devices) \subseteq block_devices
      /\ IsInjective(active_block_devices)
  BY <1>0 DEF DrivesInv, DevicesLive
<1>2. /\ num_block_devices' <= MAX_BLOCK_DEVICES /\ block_devices' \subseteq DeviceAddr
      /\ ToSet(active_block_devices') \subseteq block_devices'
      /\ IsInjective(active_block_devices')
  <2>1. CASE UNCHANGED <<active_block_devices, block_devices>>
    BY <1>1, <2>1 DEF num_block_devices
  <2>2. ASSUME NEW d \in DeviceAddr \ block_devices, RoomForDevice,
               active_block_devices' = Append(active_block_devices, d),
               block_devices' = block_devices \cup {d}
        PROVE  /\ num_block_devices' <= MAX_BLOCK_DEVICES /\ block_devices' \subseteq DeviceAddr
               /\ ToSet(active_block_devices') \subseteq block_devices'
               /\ IsInjective(active_block_devices')
    <3>1. num_block_devices < MAX_BLOCK_DEVICES
      BY <2>2 DEF RoomForDevice
    <3> QED BY <1>0, <1>1, <2>2, <3>1, NewDeviceStaysLive
  <2> QED BY <2>1, <2>2 DEF select_drivers, set_8086_device, deviceVars
<1> QED BY <1>0, <1>2 DEF DrivesInv, DevicesLive, BeforeDrive

LEMMA UseDriveKeepsDrives ==
  ASSUME SystemInv, UseDrive
  PROVE  DrivesInv'
<1>0. /\ DrivesInv /\ DeviceInv /\ devices = << >> /\ devices \in Seq(DeviceNode)
      /\ boot' = "root"
  BY DEF SystemInv, VfsInv, DeviceInv, UseDrive, DrivesInv, BeforeDrive
<1>1. /\ num_block_devices <= MAX_BLOCK_DEVICES /\ block_devices \subseteq DeviceAddr
      /\ ToSet(active_block_devices) \subseteq block_devices
      /\ IsInjective(active_block_devices)
  BY <1>0 DEF DrivesInv, DevicesLive
<1>2. PICK d \in DeviceAddr \ block_devices :
        /\ block_device_initialize(d)
        /\ block_devices' = block_devices \cup {d}
        /\ \/ /\ num_block_devices < MAX_BLOCK_DEVICES
              /\ active_block_devices' = Append(active_block_devices, d)
           \/ UNCHANGED active_block_devices
  BY DEF UseDrive
<1>3. /\ num_block_devices' <= MAX_BLOCK_DEVICES /\ block_devices' \subseteq DeviceAddr
      /\ ToSet(active_block_devices') \subseteq block_devices'
      /\ IsInjective(active_block_devices')
  <2>1. CASE UNCHANGED active_block_devices
    BY <1>1, <1>2, <2>1 DEF num_block_devices
  <2>2. CASE /\ num_block_devices < MAX_BLOCK_DEVICES
             /\ active_block_devices' = Append(active_block_devices, d)
    BY <1>0, <1>1, <1>2, <2>2, NewDeviceStaysLive
  <2> QED BY <1>2, <2>1, <2>2
<1>4. Len(devices) = 0
  BY <1>0
<1>5. /\ Len(devices') <= 1
      /\ \A i \in DOMAIN devices' : devices'[i].device_data = d
  <2>1. CASE devices' = devices
    BY <1>0, <1>4, <2>1
  <2>2. CASE /\ Len(devices') = Len(devices) + 1
             /\ DOMAIN devices' = 1 .. Len(devices) + 1
             /\ devices'[Len(devices) + 1].device_data = d
    BY <1>4, <2>2
  <2> QED BY <1>0, <1>2, <2>1, <2>2, InitializedDevice
<1> QED BY <1>0, <1>2, <1>3, <1>5 DEF DrivesInv, DevicesLive, BeforeDrive

\* The node of the keyboard is not one of a block device.
LEMMA KeyboardKeepsDrives ==
  ASSUME SystemInv, create_keyboard_driver, boot' = "user_mode", boot = "keyboard",
         UNCHANGED block_devices
  PROVE  DrivesInv' /\ find_device_by_name("keyboard")' # {}
<1>0. /\ DrivesInv /\ DeviceInv /\ Len(devices) <= 1 /\ devices \in Seq(DeviceNode)
      /\ \A i \in DOMAIN devices :
           devices[i].type = "BLOCK_DEVICE" => devices[i].device_data \in block_devices
  BY DEF SystemInv, VfsInv, DeviceInv, DrivesInv, DevicesLive
<1> DEFINE e == [name |-> "keyboard", type |-> "CHAR_DEVICE", device_data |-> NULL]
           n == Len(devices)
<1>1. n \in Nat /\ DOMAIN devices = 1 .. n
  BY <1>0, LenProperties
<1>2. n < MAX_DEVICES
  <2>1. MAX_DEVICES \in Nat /\ MAX_DEVICES > 1 /\ n <= 1
    BY <1>0, VfsAssumption, StartupAssumption
  <2> HIDE DEF n
  <2> QED BY <1>1, <2>1
<1>3. \/ devices' = devices /\ find_device_by_name("keyboard") # {}
      \/ devices' = Append(devices, e)
  BY <1>2 DEF create_keyboard_driver, devfs_register_device, CanRegister
<1>4. /\ \A i \in DOMAIN devices' :
           devices'[i].type = "BLOCK_DEVICE" => devices'[i].device_data \in block_devices'
      /\ find_device_by_name("keyboard")' # {}
  <2>1. CASE devices' = devices /\ find_device_by_name("keyboard") # {}
    BY <1>0, <2>1 DEF find_device_by_name
  <2>2. CASE devices' = Append(devices, e)
    <3>1. e \in DeviceNode /\ e.type = "CHAR_DEVICE" /\ e.name = "keyboard"
      BY DEF DeviceNode, DeviceName, DeviceType
    <3> HIDE DEF e
    <3>2. /\ devices' \in Seq(DeviceNode) /\ Len(devices') = n + 1
          /\ \A i \in 1 .. n : devices'[i] = devices[i]
          /\ devices'[n + 1] = e
      BY <1>0, <2>2, <3>1, AppendIs
    <3>3. DOMAIN devices' = 1 .. n + 1
      BY <3>2, LenProperties
    <3> HIDE DEF n
    <3>4. \A i \in 1 .. n + 1 : i \in 1 .. n \/ i = n + 1
      BY <1>1
    <3>5. n + 1 \in DOMAIN devices'
      BY <1>1, <3>3
    <3> QED BY <1>0, <1>1, <3>1, <3>2, <3>3, <3>4, <3>5 DEF find_device_by_name
  <2> QED BY <1>3, <2>1, <2>2
<1>5. active_block_devices' = active_block_devices
  BY DEF create_keyboard_driver
<1> QED BY <1>0, <1>4, <1>5 DEF DrivesInv, DevicesLive, BeforeDrive, num_block_devices


\* The steps that leave the devices alone.
LEMMA DrivesFrame ==
  ASSUME DrivesInv, UNCHANGED <<deviceVars, block_devices>>,
         boot' \in BeforeDrive => boot \in BeforeDrive,
         boot' = "select_drivers" \/ boot # "select_drivers",
         boot' \in {"root", "keyboard"} => boot \in BeforeDrive \cup {"root", "keyboard"}
  PROVE  DrivesInv'
<1>1. boot \in BeforeDrive => devices = << >> /\ Len(devices) <= 1
  BY DEF DrivesInv
<1> QED BY <1>1 DEF DrivesInv, DevicesLive, deviceVars, num_block_devices

LEMMA DrivesInvKept ==
  ASSUME SystemInv, SystemNext
  PROVE  DrivesInv'
<1>0. DrivesInv
  BY DEF SystemInv
<1>1. CASE select_drivers
  BY <1>1, ScanKeepsDrives
<1>2. CASE InitFileLayer
  <2>1. /\ devices' = << >> /\ boot' = "devfs_mount"
        /\ UNCHANGED <<active_block_devices, block_devices>>
    BY <1>2 DEF InitFileLayer, ClearDevices
  <2> QED BY <1>0, <2>1 DEF DrivesInv, DevicesLive, num_block_devices
<1>3. CASE MountDevfs \/ InitExt4 \/ NoDrive \/ MountRoot \/ init_user_mode
  <2>1. UNCHANGED <<deviceVars, block_devices>>
    BY <1>3 DEF MountDevfs, InitExt4, NoDrive, MountRoot, init_user_mode, devfs_mount,
                ext4_init, Mount, MountBlankDisk, vfsVars
  <2>2. /\ boot' \in BeforeDrive => boot \in BeforeDrive
        /\ boot' = "select_drivers" \/ boot # "select_drivers"
        /\ boot' \in {"root", "keyboard"} => boot \in BeforeDrive \cup {"root", "keyboard"}
    BY <1>3 DEF MountDevfs, InitExt4, NoDrive, MountRoot, init_user_mode, BeforeDrive
  <2> QED BY <1>0, <2>1, <2>2, DrivesFrame
<1>4. CASE UseDrive
  BY <1>4, UseDriveKeepsDrives
<1>5. CASE AddKeyboard
  <2>1. CASE create_keyboard_driver
    BY <1>5, <2>1, KeyboardKeepsDrives DEF AddKeyboard
  <2>2. CASE UNCHANGED vfsVars
    BY <1>0, <1>5, <2>2, DrivesFrame DEF AddKeyboard, vfsVars, BeforeDrive
  <2> QED BY <1>5, <2>1, <2>2 DEF AddKeyboard
<1>6. CASE installer_run
  <2>1. UNCHANGED deviceVars
    BY <1>6 DEF installer_run, installer_main, Confirm, installer_cmd_format,
         installer_cmd_select_device, installer_cmd_install, MountTarget, MakeDirectory,
         FinishInstall, startupVars, vfsVars, vfs_mkdir, OnParent, Mount, MountBlankDisk, Umount
  <2> QED BY <1>0, <1>6, <2>1, InstallerLeavesBoot, DrivesFrame DEF bootVars
<1> QED BY <1>1, <1>2, <1>3, <1>4, <1>5, <1>6 DEF SystemNext, KernelStep, kernel_main

LEMMA DriversInvKept ==
  ASSUME SystemInv, SystemNext
  PROVE  DriversInv'
<1> DEFINE H == {n \in Lines : n < 16} \cup {KEYBOARD_LINE}
<1>0. /\ DriversInv /\ KEYBOARD_LINE \in H
      /\ handlers \in [H -> {"none", "block", "keyboard"}]
  BY DEF SystemInv, DriversInv
<1>1. CASE select_drivers
  <2>1. drivers' = drivers /\ drivers = << >> /\ boot' = boot
    BY <1>0, <1>1 DEF select_drivers, DriversInv, BeforeKeyboard, BeforeRoot
  <2>2. handlers' \in [H -> {"none", "block", "keyboard"}]
    <3> HIDE DEF H
    <3> QED BY <1>0, <1>1 DEF select_drivers, set_8086_device, RegisterBlockHandler
  <2> QED BY <1>0, <2>1, <2>2 DEF DriversInv, KeyboardWired
<1>2. CASE AddKeyboard
  <2>1. drivers = << >> /\ boot = "keyboard" /\ boot' = "user_mode"
    BY <1>0, <1>2 DEF AddKeyboard, DriversInv, BeforeKeyboard, BeforeRoot
  <2>2. CASE create_keyboard_driver /\ KeyboardHandler /\ append_driver("keyboard")
    <3>1. find_device_by_name("keyboard")' # {}
      BY <1>2, <2>1, <2>2, KeyboardKeepsDrives DEF AddKeyboard
    <3>2. /\ handlers' \in [H -> {"none", "block", "keyboard"}]
          /\ handlers'[KEYBOARD_LINE] = "keyboard"
      <4> HIDE DEF H
      <4> QED BY <1>0, <2>2 DEF KeyboardHandler
    <3>3. drivers' \in Seq({"keyboard"})
      <4>1. drivers \in Seq({"keyboard"})
        BY <1>0 DEF DriversInv
      <4>2. Append(drivers, "keyboard") \in Seq({"keyboard"})
        BY <4>1, AppendIs
      <4> QED BY <2>2, <4>1, <4>2 DEF append_driver
    <3> QED BY <2>1, <3>1, <3>2, <3>3 DEF DriversInv, KeyboardWired, BeforeKeyboard, BeforeRoot
  <2>3. CASE UNCHANGED <<handlers, drivers>>
    BY <1>0, <2>1, <2>3 DEF DriversInv, KeyboardWired
  <2> QED BY <1>2, <2>2, <2>3 DEF AddKeyboard
<1>3. CASE \/ InitFileLayer \/ MountDevfs \/ InitExt4 \/ NoDrive \/ UseDrive \/ MountRoot
  <2>1. drivers = << >> /\ UNCHANGED <<drivers, handlers>>
    BY <1>0, <1>3 DEF DriversInv, BeforeKeyboard, BeforeRoot, InitFileLayer, MountDevfs,
                      InitExt4, NoDrive, UseDrive, MountRoot
  <2> QED BY <1>0, <2>1 DEF DriversInv, KeyboardWired
<1>4. CASE init_user_mode \/ installer_run
  <2>1. UNCHANGED <<drivers, handlers>> /\ (boot' = boot \/ boot' = "running")
    BY <1>4, InstallerLeavesBoot DEF init_user_mode, bootVars
  <2>2. devices' = devices
    BY <1>4 DEF init_user_mode, installer_run, installer_main, Confirm, installer_cmd_format,
         installer_cmd_select_device, installer_cmd_install, MountTarget, MakeDirectory,
         FinishInstall, startupVars, vfsVars, deviceVars, vfs_mkdir, OnParent, Mount,
         MountBlankDisk, Umount
  <2>3. find_device_by_name("keyboard")' = find_device_by_name("keyboard")
    BY <2>2 DEF find_device_by_name
  <2> QED BY <1>0, <2>1, <2>3 DEF DriversInv, KeyboardWired, BeforeKeyboard, BeforeRoot
<1> QED BY <1>1, <1>2, <1>3, <1>4 DEF SystemNext, KernelStep, kernel_main

LEMMA InstallerInvKept ==
  ASSUME SystemInv, SystemNext
  PROVE  InstallerInv'
<1>0. /\ InstallerInv /\ BootInv /\ MountsAre /\ Directories \in Nat
      /\ active_block_devices \in Seq(DeviceAddr)
  BY InstallerAssumption DEF SystemInv, VfsInv, DeviceInv
<1>1. CASE KernelStep
  <2>1. boot # "running" /\ installer = "off" /\ UNCHANGED installerVars
    <3>1. boot # "running"
      BY <1>1 DEF KernelStep, kernel_main, select_drivers, InitFileLayer, MountDevfs, InitExt4,
                  NoDrive, UseDrive, MountRoot, AddKeyboard, init_user_mode
    <3> QED BY <1>0, <1>1, <3>1 DEF InstallerInv, KernelStep
  <2> QED BY <1>0, <2>1 DEF InstallerInv, installerVars
<1>2. CASE installer_run
  <2>0. UNCHANGED bootVars
    BY <1>2, InstallerLeavesBoot
  <2>1. \A i \in DOMAIN active_block_devices : active_block_devices[i] \in DeviceAddr
    BY <1>0, LenProperties, ElementOfSeq
  <2>2. CASE installer_main
    <3>1. boot = "running"
      BY <1>0, <2>2 DEF installer_main, BootInv
    <3>2. num_block_devices > 0 => active_block_devices[1] \in DeviceAddr
      <4>1. Len(active_block_devices) \in Nat
            /\ DOMAIN active_block_devices = 1 .. Len(active_block_devices)
        BY <1>0, LenProperties
      <4>2. num_block_devices > 0 => 1 \in DOMAIN active_block_devices
        BY <4>1 DEF num_block_devices
      <4> QED BY <2>1, <4>2
    <3> QED BY <1>0, <2>0, <2>2, <3>1, <3>2 DEF installer_main, InstallerInv, bootVars
  <2>3. CASE Confirm \/ installer_cmd_format
    BY <1>0, <2>0, <2>3 DEF Confirm, installer_cmd_format, InstallerInv, bootVars
  <2>4. CASE installer_cmd_select_device
    BY <1>0, <2>0, <2>1, <2>4 DEF installer_cmd_select_device, InstallerInv, bootVars
  <2>5. CASE MountTarget
    <3>1. CASE Mount(TARGET, "ext4") /\ installer' = "install" /\ dirs' = Directories
      <4>1. ext4_fs_data = << >>
        BY <3>1 DEF Mount, vfs_mount, FsMount
      <4>2. boot = "running" /\ system_hardware_status # 1
        BY <1>0, <2>5, <4>1 DEF MountTarget, InstallerInv, MountsAre, BeforeMounts
      <4> QED BY <1>0, <2>0, <2>5, <3>1, <4>2 DEF MountTarget, InstallerInv, bootVars
    <3>2. CASE UNCHANGED <<installer, dirs>>
      BY <1>0, <2>0, <2>5, <3>2 DEF MountTarget, InstallerInv, bootVars
    <3> QED BY <2>5, <3>1, <3>2 DEF MountTarget
  <2>6. CASE MakeDirectory \/ FinishInstall
    BY <1>0, <2>0, <2>6 DEF MakeDirectory, FinishInstall, InstallerInv, bootVars
  <2> QED BY <1>2, <2>2, <2>3, <2>4, <2>5, <2>6 DEF installer_run, installer_cmd_install
<1> QED BY <1>1, <1>2 DEF SystemNext


\* The tables that start-up and the installer reach, one mount at a time.
LEMMA SmallMountTables ==
  ASSUME NEW e, NEW f
  PROVE  /\ Append(<< >>, e) = <<e>> /\ Append(<<e>>, f) = <<e, f>>
         /\ <<e>> \o << >> = <<e>> /\ <<e>> \o <<f>> = <<e, f>>
<1> DEFINE T == {e, f}
<1>1. /\ << >> \in Seq(T) /\ <<e>> \in Seq(T) /\ <<f>> \in Seq(T) /\ <<e, f>> \in Seq(T)
      /\ Len(<< >>) = 0 /\ Len(<<e>>) = 1 /\ Len(<<f>>) = 1 /\ Len(<<e, f>>) = 2
      /\ <<e>>[1] = e /\ <<f>>[1] = f /\ <<e, f>>[1] = e /\ <<e, f>>[2] = f
  OBVIOUS
<1>2. e \in T /\ f \in T
  OBVIOUS
<1> HIDE DEF T
<1>3. Append(<< >>, e) = <<e>>
  <2>1. /\ Append(<< >>, e) \in Seq(T) /\ Len(Append(<< >>, e)) = 1
        /\ Append(<< >>, e)[1] = e
    BY <1>1, <1>2, AppendProperties
  <2> QED BY <1>1, <2>1, SeqEqual
<1>4. Append(<<e>>, f) = <<e, f>>
  <2> DEFINE s == Append(<<e>>, f)
  <2>1. s \in Seq(T) /\ Len(s) = 2 /\ s[1] = e /\ s[2] = f
    BY <1>1, <1>2, AppendProperties
  <2>2. \A i \in 1 .. 2 : i = 1 \/ i = 2
    OBVIOUS
  <2> HIDE DEF s
  <2>3. Len(s) = Len(<<e, f>>) /\ \A i \in 1 .. Len(s) : s[i] = <<e, f>>[i]
    BY <1>1, <2>1, <2>2
  <2>4. s = <<e, f>>
    BY <1>1, <2>1, <2>3, SeqEqual
  <2> QED BY <2>4 DEF s
<1>5. <<e>> \o << >> = <<e>>
  BY <1>1, ConcatEmptySeq
<1>6. <<e>> \o <<f>> = <<e, f>>
  <2> DEFINE s == <<e>> \o <<f>>
  <2>1. s \in Seq(T) /\ Len(s) = 2 /\ s[1] = e /\ s[2] = f
    BY <1>1, ConcatProperties
  <2>2. \A i \in 1 .. 2 : i = 1 \/ i = 2
    OBVIOUS
  <2> HIDE DEF s
  <2>3. Len(s) = Len(<<e, f>>) /\ \A i \in 1 .. Len(s) : s[i] = <<e, f>>[i]
    BY <1>1, <2>1, <2>2
  <2>4. s = <<e, f>>
    BY <1>1, <2>1, <2>3, SeqEqual
  <2> QED BY <2>4 DEF s
<1> QED BY <1>3, <1>4, <1>5, <1>6

LEMMA TargetUnmounted ==
  ASSUME mount_points = <<DevEntry, TargetEntry>>, vfs_umount(TARGET)
  PROVE  mount_points' = <<DevEntry>> /\ ext4_fs_data' = << >>
<1>1. PICK i \in DOMAIN mount_points :
        /\ mount_points[i].path = TARGET
        /\ FsUmount(mount_points[i].fs, TARGET)
        /\ mount_points' = RemoveAt(mount_points, i)
  BY DEF vfs_umount
<1>2. /\ DevEntry \in Entry /\ TargetEntry \in Entry /\ DevEntry.path # TARGET
      /\ TargetEntry.fs = "ext4"
  <2>1. <<"dev">> # <<"target">>
    OBVIOUS
  <2> QED BY <2>1, PathsAreTargets DEF DevEntry, TargetEntry, Entry, FileSystemName, TARGET
<1> DEFINE s == <<DevEntry, TargetEntry>>
<1>3. s \in Seq(Entry) /\ Len(s) = 2 /\ DOMAIN s = 1 .. 2 /\ s[1] = DevEntry /\ s[2] = TargetEntry
  BY <1>2
<1> HIDE DEF s
<1>4. i = 2
  BY <1>1, <1>2, <1>3 DEF s
<1>5. /\ RemoveAt(s, 2) \in Seq(Entry) /\ Len(RemoveAt(s, 2)) = Len(s) - 1
      /\ \A j \in 1 .. Len(s) - 1 : RemoveAt(s, 2)[j] = IF j < 2 THEN s[j] ELSE s[j + 1]
  <2>1. 2 \in 1 .. Len(s)
    BY <1>3
  <2> QED BY <1>3, <2>1, RemoveAtIs
<1>6. RemoveAt(s, 2) = <<DevEntry>>
  <2> DEFINE t == RemoveAt(s, 2)
  <2>1. t \in Seq(Entry) /\ Len(t) = 1 /\ t[1] = DevEntry
    BY <1>3, <1>5
  <2> HIDE DEF t
  <2>2. <<DevEntry>> \in Seq(Entry) /\ Len(<<DevEntry>>) = 1 /\ <<DevEntry>>[1] = DevEntry
    BY <1>2
  <2>3. t = <<DevEntry>>
    BY <2>1, <2>2, SeqEqual
  <2> QED BY <2>3 DEF t
<1>7. ext4_fs_data' = << >>
  BY <1>1, <1>2, <1>3, <1>4 DEF s, FsUmount
<1> QED BY <1>1, <1>4, <1>6, <1>7 DEF s

LEMMA MountsAreKept ==
  ASSUME SystemInv, SystemNext
  PROVE  MountsAre'
<1>0. MountsAre /\ BootInv /\ InstallerInv
  BY DEF SystemInv
<1>1. CASE KernelStep
  <2>0. boot # "running"
    BY <1>1 DEF KernelStep, kernel_main, select_drivers, InitFileLayer, MountDevfs, InitExt4,
                NoDrive, UseDrive, MountRoot, AddKeyboard, init_user_mode
  <2>1. installer = "off" /\ installer' = "off"
    BY <1>0, <1>1, <2>0 DEF InstallerInv, KernelStep, installerVars
  <2>2. CASE select_drivers \/ InitFileLayer
    <3>1. /\ boot \in BeforeMounts /\ boot' \in BeforeMounts
          /\ UNCHANGED <<mount_points, ext4_fs_data>>
      BY <2>2 DEF select_drivers, InitFileLayer, BeforeMounts, mountVars
    <3> QED BY <1>0, <2>1, <3>1 DEF MountsAre
  <2>3. CASE MountDevfs
    <3>1. /\ mount_points = << >> /\ ext4_fs_data = << >> /\ boot' = "ext4_init"
          /\ system_hardware_status' = 0 /\ devfs_mount(<<"dev">>)
      BY <1>0, <2>3 DEF MountDevfs, MountsAre, BeforeMounts, BootInv, BeforeRoot
    <3>2. MountRoom(<<"dev">>)
      <4>1. Len(mount_points) = 0 /\ DOMAIN mount_points = {}
        BY <3>1
      <4>2. 0 < MAX_MOUNT_POINTS
        BY VfsAssumption
      <4> QED BY <4>1, <4>2 DEF MountRoom
    <3>3. /\ mount_points' = Append(mount_points, DevEntry) /\ ext4_fs_data' = ext4_fs_data
      BY <3>1, <3>2 DEF devfs_mount, vfs_mount, FsMount, DevEntry
    <3> QED BY <2>1, <3>1, <3>3, SmallMountTables DEF MountsAre, BeforeMounts
  <2>4. CASE InitExt4 \/ NoDrive \/ UseDrive
    <3>1. /\ boot \notin BeforeMounts /\ boot' \notin BeforeMounts
          /\ UNCHANGED <<mount_points, ext4_fs_data>>
          /\ system_hardware_status = 0 /\ system_hardware_status' = 0
      BY <1>0, <2>4 DEF InitExt4, ext4_init, NoDrive, UseDrive, BeforeMounts, BootInv, BeforeRoot,
                        mountVars, vfsVars
    <3> QED BY <1>0, <2>1, <3>1 DEF MountsAre
  <2>5. CASE MountRoot
    <3>1. /\ boot \notin BeforeMounts /\ boot' \notin BeforeMounts
          /\ mount_points = <<DevEntry>> /\ ext4_fs_data = << >>
          /\ system_hardware_status = 0
      BY <1>0, <2>1, <2>5 DEF MountRoot, BeforeMounts, BootInv, BeforeRoot, MountsAre
    <3>2. CASE Mount(<< >>, "ext4") /\ system_hardware_status' = 1
      <4>1. mount_points' = Append(mount_points, RootEntry) /\ ext4_fs_data' = << << >> >>
        BY <3>2 DEF Mount, vfs_mount, FsMount, RootEntry
      <4> QED BY <2>1, <3>1, <3>2, <4>1, SmallMountTables DEF MountsAre
    <3>3. CASE /\ UNCHANGED <<mount_points, ext4_fs_data>>
               /\ system_hardware_status' # 1
      BY <2>1, <3>1, <3>3 DEF MountsAre
    <3>4. \/ Mount(<< >>, "ext4") /\ system_hardware_status' = 1
          \/ UNCHANGED <<mount_points, ext4_fs_data>> /\ system_hardware_status' # 1
      BY <2>5, <3>1 DEF MountRoot, MountBlankDisk, mountVars, vfsVars
    <3> QED BY <3>2, <3>3, <3>4
  <2>6. CASE AddKeyboard \/ init_user_mode
    <3>1. /\ boot \notin BeforeMounts /\ boot' \notin BeforeMounts
          /\ UNCHANGED <<mount_points, ext4_fs_data, system_hardware_status>>
      BY <2>6 DEF AddKeyboard, init_user_mode, create_keyboard_driver, BeforeMounts,
                  mountVars, vfsVars
    <3> QED BY <1>0, <2>1, <3>1 DEF MountsAre
  <2> QED BY <1>1, <2>2, <2>3, <2>4, <2>5, <2>6 DEF KernelStep, kernel_main
<1>2. CASE installer_run
  <2>0. UNCHANGED <<boot, system_hardware_status>>
    BY <1>2, InstallerLeavesBoot DEF bootVars
  <2>1. CASE \/ installer_main \/ Confirm \/ installer_cmd_format
             \/ installer_cmd_select_device \/ MakeDirectory
    <3>1. /\ UNCHANGED <<mount_points, ext4_fs_data>>
          /\ installer = "install" <=> installer' = "install"
      BY <2>1 DEF installer_main, Confirm, installer_cmd_format, installer_cmd_select_device,
                  MakeDirectory, vfs_mkdir, OnParent, startupVars, vfsVars, mountVars
    <3> QED BY <1>0, <2>0, <3>1 DEF MountsAre
  <2>2. CASE MountTarget
    <3>1. /\ boot \notin BeforeMounts /\ boot' \notin BeforeMounts /\ installer # "install"
      BY <1>0, <2>0, <2>2 DEF MountTarget, InstallerInv, BeforeMounts
    <3>2. CASE Mount(TARGET, "ext4") /\ installer' = "install"
      <4>1. /\ ext4_fs_data = << >> /\ mount_points' = Append(mount_points, TargetEntry)
            /\ ext4_fs_data' = <<TARGET>>
        BY <3>2 DEF Mount, vfs_mount, FsMount, TargetEntry
      <4>2. mount_points = <<DevEntry>>
        BY <1>0, <3>1, <4>1 DEF MountsAre
      <4> QED BY <3>1, <3>2, <4>1, <4>2, SmallMountTables DEF MountsAre
    <3>3. CASE UNCHANGED <<mount_points, ext4_fs_data, installer>>
      BY <1>0, <2>0, <3>3 DEF MountsAre
    <3> QED BY <2>2, <3>2, <3>3 DEF MountTarget, MountBlankDisk, mountVars
  <2>3. CASE FinishInstall
    <3>1. /\ boot \notin BeforeMounts /\ system_hardware_status # 1
          /\ mount_points = <<DevEntry, TargetEntry>>
      BY <1>0, <2>3 DEF FinishInstall, InstallerInv, BeforeMounts, MountsAre
    <3>2. mount_points' = <<DevEntry>> /\ ext4_fs_data' = << >> /\ installer' = "complete"
      BY <2>3, <3>1, TargetUnmounted DEF FinishInstall, Umount
    <3> QED BY <2>0, <3>1, <3>2 DEF MountsAre
  <2> QED BY <1>2, <2>1, <2>2, <2>3 DEF installer_run, installer_cmd_install
<1> QED BY <1>1, <1>2 DEF SystemNext

LEMMA SystemInitEstablishesInv ==
  ASSUME SystemInit
  PROVE  SystemInv
<1> USE DEF SystemInit, StartupInit
<1>1. VfsInv
  BY InitEstablishesInv
<1>2. /\ devices = << >> /\ active_block_devices = << >> /\ mount_points = << >>
      /\ ext4_fs_data = << >>
  BY DEF VfsInit, vfs_init, devfs_init
<1>3. BootInv
  BY DEF BootInv, BeforeKeyboard, BeforeRoot
<1>4. DrivesInv
  <2>1. MAX_BLOCK_DEVICES \in Nat
    BY StartupAssumption
  <2> QED BY <1>2, <2>1 DEF DrivesInv, DevicesLive, num_block_devices, ToSet, IsInjective, BeforeDrive
<1>5. DriversInv
  BY EmptySeq DEF DriversInv, KeyboardWired
<1>6. InstallerInv /\ MountsAre
  BY <1>2, InstallerAssumption DEF InstallerInv, MountsAre, BeforeMounts
<1> QED BY <1>1, <1>3, <1>4, <1>5, <1>6 DEF SystemInv

LEMMA SystemInvUnchanged ==
  ASSUME SystemInv, UNCHANGED systemVars
  PROVE  SystemInv'
<1>1. UNCHANGED vfsVars /\ UNCHANGED bootVars /\ UNCHANGED installerVars
  BY DEF systemVars, startupVars
<1>2. VfsInv'
  BY <1>1, UnchangedParts DEF SystemInv, VfsInv, vfsVars
<1>3. BootInv' /\ InstallerInv' /\ MountsAre'
  BY <1>1 DEF SystemInv, BootInv, InstallerInv, MountsAre, vfsVars, mountVars, bootVars, installerVars
<1>4. DrivesInv' /\ DriversInv'
  BY <1>1 DEF SystemInv, DrivesInv, DriversInv, DevicesLive, KeyboardWired, find_device_by_name,
              num_block_devices, vfsVars, deviceVars, bootVars
<1> QED BY <1>2, <1>3, <1>4 DEF SystemInv

-----------------------------------------------------------------------------
(* The theorems.                                                           *)

\* Start-up and the installer keep the inductive invariant, that of the file layer
\* under them included.
THEOREM SystemInvariance == SystemSpec => []SystemInv
<1>1. SystemInit => SystemInv
  BY SystemInitEstablishesInv
<1>2. SystemInv /\ [SystemNext]_systemVars => SystemInv'
  <2>1. ASSUME SystemInv, SystemNext PROVE SystemInv'
    BY <2>1, SystemKeepsVfsInv, BootInvKept, DrivesInvKept, DriversInvKept, InstallerInvKept,
       MountsAreKept DEF SystemInv
  <2>2. ASSUME SystemInv, UNCHANGED systemVars PROVE SystemInv'
    BY <2>2, SystemInvUnchanged
  <2> QED BY <2>1, <2>2
<1> QED BY <1>1, <1>2, PTL DEF SystemSpec

\* The variables of kernel_main, the file layer and the installer keep their types
\* and stay within their tables, for tables of every size.
THEOREM SystemTypeCorrect == SystemSpec => []SystemTypeOK
<1>1. SystemInv => SystemTypeOK
  <2> SUFFICES ASSUME SystemInv PROVE SystemTypeOK
    OBVIOUS
  <2>1. VfsTypeOK
    BY InvImpliesTypes DEF SystemInv
  <2>2. \A l \in DOMAIN handlers : handlers[l] \in {"none", "block", "keyboard"}
    BY DEF SystemInv, DriversInv
  <2> QED BY <2>1, <2>2 DEF SystemInv, BootInv, DrivesInv, DriversInv, InstallerInv, SystemTypeOK,
             StartupTypeOK, BeforeKeyboard, BeforeRoot
<1> QED BY <1>1, SystemInvariance, PTL

\* However many PCI functions set_8086_device has registered and freed, no active
\* device and, once devfs_init has run, no node of devfs points to freed memory.
THEOREM DevicesStayLive == SystemSpec => []DevicesLive
<1>1. SystemInv => DevicesLive
  BY DEF SystemInv, DrivesInv
<1> QED BY <1>1, SystemInvariance, PTL

\* A keyboard with a driver has its interrupt line and its node in devfs, whatever
\* lines and devices the PCI scan has claimed before.
THEOREM KeyboardStaysWired == SystemSpec => []KeyboardWired
<1>1. SystemInv => KeyboardWired
  BY DEF SystemInv, DriversInv
<1> QED BY <1>1, SystemInvariance, PTL

\* Outside installer_cmd_install the mounts are those that start-up left, for every
\* number of installed directories and whichever of them could not be made.
THEOREM MountsStayRestored == SystemSpec => []MountsRestored
<1>1. SystemInv => MountsRestored
  <2>1. <<DevEntry>> \o <<RootEntry>> = <<DevEntry, RootEntry>>
        /\ <<DevEntry>> \o << >> = <<DevEntry>>
    BY SmallMountTables
  <2> QED BY <2>1 DEF SystemInv, MountsAre, MountsRestored, BeforeMounts, DevEntry, RootEntry
<1> QED BY <1>1, SystemInvariance, PTL
=============================================================================
