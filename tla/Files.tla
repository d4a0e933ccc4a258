--------------------------------- MODULE Files ---------------------------------
(***************************************************************************)
(* The file descriptors of the HAL: the start of the program that          *)
(* registers devices and filesystems and points standard input, output and *)
(* error at theirs, open(), close(), the calls that are handed on to the   *)
(* driver, and the lock for the exclusive use of a device.  A name is a    *)
(* sequence of characters, and a device or filesystem is known by its own. *)
(*                                                                         *)
(* A program uses the descriptors it holds, and -1 for a failed open(),    *)
(* and no others: with a released one the calls go through a null pointer. *)
(***************************************************************************)
EXTENDS Integers, Sequences, SequencesExt

CONSTANTS MaxFd,          \* ALT_MAX_FD
          SysDevices,     \* the devices that alt_sys_init() registers, in order
          Filesystems,    \* the filesystems it registers, in order
          StdDevices,     \* ALT_STDIN, ALT_STDOUT and ALT_STDERR, by descriptor
          Provides,       \* the functions a device or filesystem provides, by name
          Names, Modes,   \* what the program opens, and how
          Controlled      \* the descriptors whose flags and locks it changes

ASSUME FilesAssumption ==
    /\ MaxFd \in Nat /\ MaxFd > 3 /\ DOMAIN StdDevices = 0..2
    /\ Names \subseteq Seq(STRING) /\ Modes \subseteq {"O_RDONLY", "O_WRONLY", "O_RDWR"}
    /\ SysDevices \in Seq(Seq(STRING)) /\ Filesystems \in Seq(Seq(STRING) \ {<<>>})

Null == <<"/", "n">>                         \* "/dev/null"
NoDev == <<>>
Free == [dev |-> NoDev, mode |-> "O_RDONLY", nonblock |-> FALSE, excl |-> FALSE, isdev |-> FALSE]

VARIABLES
    alt_fd_list,
    alt_max_fd,
    alt_dev_list, alt_fs_list,   \* what is registered, the newest first
    registered,     \* how many calls of alt_dev_reg() and alt_fs_reg() there were
    boot,           \* how far alt_main() is
    held            \* history: what the program opened, by descriptor

files_vars == <<alt_fd_list, alt_max_fd, alt_dev_list, alt_fs_list, registered, boot, held>>

lists == <<alt_dev_list, alt_fs_list, registered>>

FilesInit ==
    /\ alt_fd_list = [f \in 0..(MaxFd - 1) |-> IF f <= 2 THEN [Free EXCEPT !.dev = Null] ELSE Free]
    /\ alt_max_fd = -1 /\ alt_dev_list = <<Null>> /\ alt_fs_list = <<>>
    /\ registered = 0 /\ boot = "alt_sys_init"
    /\ held = [f \in {} |-> Free]

(***************************************************************************)
(* The lists of devices and filesystems.                                   *)
(***************************************************************************)
(* alt_dev_llist_insert() and alt_fs_reg(): what has no name is refused.   *)
Registered(list, name) == IF name = NoDev THEN list ELSE <<name>> \o list

(* The first match is found; NoDev if there is none. *)
First(places) == CHOOSE i \in places : \A j \in places : i <= j

Found(list, Match(_)) ==
    LET matches == {i \in DOMAIN list : Match(list[i])} IN
    IF matches # {} THEN list[First(matches)] ELSE NoDev

alt_find_dev(name) == Found(alt_dev_list, LAMBDA dev : dev = name)

(* A '/' at the end of the mount point is left off; a '/' or the end of    *)
(* the name follows it.                                                    *)
OwnsFile(mount, name) ==
    LET stem == IF Last(mount) = "/" THEN Front(mount) ELSE mount IN
    IsPrefix(stem, name) /\ (Len(name) > Len(stem) => name[Len(stem) + 1] = "/")

alt_find_file(name) == Found(alt_fs_list, LAMBDA mount : OwnsFile(mount, name))

IsDevice(name) == alt_find_dev(name) # NoDev
Target(name) == IF IsDevice(name) THEN alt_find_dev(name) ELSE alt_find_file(name)

(***************************************************************************)
(* open() and close().                                                     *)
(***************************************************************************)
FreeFds == {f \in DOMAIN alt_fd_list : alt_fd_list[f].dev = NoDev}

alt_get_fd == First(FreeFds)

(* Mutant of HighWater: it is the descriptor that was allocated last. *)
HighWater_Last(f) == f

HighWater(f) == IF f > alt_max_fd THEN f ELSE alt_max_fd

alt_file_locked(dev) ==
    \E f \in (0..HighWater(alt_get_fd)) \ {alt_get_fd} :
        alt_fd_list[f].dev = dev /\ alt_fd_list[f].excl

Opened(name, mode, nonblock) ==
    [dev |-> Target(name), mode |-> mode, nonblock |-> nonblock, excl |-> FALSE, isdev |-> IsDevice(name)]

(* open() of a device or a filesystem that was found.  It fails if there   *)
(* is no descriptor, the device is locked, or the driver refuses.          *)
OpenSucceeds(name) ==
    /\ Target(name) # NoDev /\ FreeFds # {}
    /\ IsDevice(name) => ~alt_file_locked(Target(name))

(* The descriptor was allocated when the failure was found. *)
OpenFails(name) ==
    /\ alt_max_fd' = IF Target(name) # NoDev /\ FreeFds # {} THEN HighWater(alt_get_fd) ELSE alt_max_fd
    /\ UNCHANGED <<alt_fd_list, held>>

alt_open(name, mode, nonblock) ==
    /\ boot = "main"
    /\ \/ /\ OpenSucceeds(name)
          /\ alt_max_fd' = HighWater(alt_get_fd)
          /\ alt_fd_list' = [alt_fd_list EXCEPT ![alt_get_fd] = Opened(name, mode, nonblock)]
          /\ held' = [f \in DOMAIN held \cup {alt_get_fd} |->
                          IF f = alt_get_fd THEN [name |-> name, mode |-> mode] ELSE held[f]]
       \/ OpenFails(name)
    /\ UNCHANGED <<lists, boot>>

(* Mutant of Released: only the device is taken off. *)
Released_KeepsFlags(f) == [alt_fd_list[f] EXCEPT !.dev = NoDev]

Released(f) == Free

(* Standard input, output and error are never given back.  The driver may  *)
(* report an error: the descriptor is released all the same.               *)
alt_close(f) ==
    /\ boot = "main" /\ f \in DOMAIN held \cup 0..2
    /\ alt_fd_list' = IF f > 2 THEN [alt_fd_list EXCEPT ![f] = Released(f)] ELSE alt_fd_list
    /\ held' = [g \in DOMAIN held \ {f} |-> held[g]]
    /\ UNCHANGED <<alt_max_fd, lists, boot>>

(***************************************************************************)
(* ioctl() and fcntl().                                                    *)
(***************************************************************************)
InUse(f) == boot = "main" /\ f \in DOMAIN held \cup 0..2

SetFlags(f, flags) ==
    /\ InUse(f) /\ f \in Controlled
    /\ alt_fd_list' = [alt_fd_list EXCEPT ![f] = flags]
    /\ UNCHANGED <<alt_max_fd, lists, boot, held>>

(* The search stops before alt_max_fd: another descriptor there is missed. *)
alt_fd_lock(f) ==
    /\ alt_fd_list[f].isdev
    /\ \A g \in (0..(alt_max_fd - 1)) \ {f} : alt_fd_list[g].dev # alt_fd_list[f].dev
    /\ SetFlags(f, [alt_fd_list[f] EXCEPT !.excl = TRUE])

alt_fd_unlock(f) == alt_fd_list[f].isdev /\ SetFlags(f, [alt_fd_list[f] EXCEPT !.excl = FALSE])

(* F_SETFL: only the O_NONBLOCK flag changes. *)
alt_fcntl(f, nonblock) == SetFlags(f, [alt_fd_list[f] EXCEPT !.nonblock = nonblock])

(***************************************************************************)
(* The calls that are handed on to the driver, for a descriptor or for -1, *)
(* and change nothing here: what they return if they are not.              *)
(***************************************************************************)
MayRead(fd) == fd.mode # "O_WRONLY"
MayWrite(fd) == fd.mode # "O_RDONLY"

(* isatty() asks the driver's fstat(). *)
Reaches(op, fd) ==
    /\ (IF op = "isatty" THEN "fstat" ELSE op) \in Provides[fd.dev]
    /\ op = "read" => MayRead(fd)
    /\ op = "write" => MayWrite(fd)

Refused ==
    [read |-> "EACCES", write |-> "EACCES", lseek |-> "ENOTSUP", ioctl |-> "ENOTTY",
     fstat |-> "_IFCHR", isatty |-> "1"]

Answer(op, f) ==
    IF f < 0 THEN IF op = "isatty" THEN "0" ELSE "EBADFD"
    ELSE IF Reaches(op, alt_fd_list[f]) THEN "driver" ELSE Refused[op]

(***************************************************************************)
(* alt_main().                                                             *)
(***************************************************************************)
(* The devices come first, then the filesystems. *)
alt_sys_init ==
    /\ boot = "alt_sys_init"
    /\ \/ /\ registered < Len(SysDevices)
          /\ alt_dev_list' = Registered(alt_dev_list, SysDevices[registered + 1])
          /\ registered' = registered + 1 /\ UNCHANGED <<alt_fs_list, boot>>
       \/ \E i \in DOMAIN Filesystems :
          /\ registered + 1 = Len(SysDevices) + i
          /\ alt_fs_list' = Registered(alt_fs_list, Filesystems[i])
          /\ registered' = registered + 1 /\ UNCHANGED <<alt_dev_list, boot>>
       \/ /\ registered = Len(SysDevices) + Len(Filesystems)
          /\ boot' = "stdout" /\ UNCHANGED lists
    /\ UNCHANGED <<alt_fd_list, alt_max_fd, held>>

(* alt_open_fd(): the descriptor that open() returns is copied and freed. *)
Redirect(step, f, mode, next) ==
    /\ boot = step /\ boot' = next
    /\ \/ /\ OpenSucceeds(StdDevices[f])
          /\ alt_max_fd' = HighWater(alt_get_fd)
          /\ alt_fd_list' = [alt_fd_list EXCEPT ![f] = Opened(StdDevices[f], mode, FALSE)]
          /\ UNCHANGED held
       \/ OpenFails(StdDevices[f])
    /\ UNCHANGED lists

alt_io_redirect ==
    \/ Redirect("stdout", 1, "O_WRONLY", "stdin")
    \/ Redirect("stdin", 0, "O_RDONLY", "stderr")
    \/ Redirect("stderr", 2, "O_WRONLY", "main")

FilesNext ==
    \/ alt_sys_init \/ alt_io_redirect
    \/ \E name \in Names, mode \in Modes, nonblock \in BOOLEAN :
          alt_open(name, mode, nonblock)
    \/ \E f \in 0..(MaxFd - 1) :
          \/ alt_close(f) \/ alt_fd_lock(f) \/ alt_fd_unlock(f)
          \/ \E nonblock \in BOOLEAN : alt_fcntl(f, nonblock)

FilesSpec == FilesInit /\ [][FilesNext]_files_vars

--------------------------------------------------------------------------------
(* The characters from p + 1 to q of the name, without the slashes around  *)
(* them, are a directory of it, or the file.                               *)
IsStep(name, p, q) ==
    /\ p < q /\ q <= Len(name) /\ \A i \in (p + 1)..q : name[i] # "/"
    /\ p > 0 => name[p] = "/"
    /\ q < Len(name) => name[q + 1] = "/"

GoesThrough(name, mount) ==
    \A q \in 1..Len(mount) : \A p \in 0..(q - 1) :
       IsStep(mount, p, q) => IsStep(name, p, q) /\ \A i \in (p + 1)..q : name[i] = mount[i]

(* A descriptor is allocated exactly as long as the program holds it, on   *)
(* the device of that name or a filesystem whose mount point is a          *)
(* directory of the name, and carries no lock or flag of the one that had  *)
(* it before (alt_open.c:105-171, alt_close.c:64-101, alt_get_fd.c:54-101, *)
(* alt_find_dev.c:54-86, alt_find_file.c:54-87).                           *)
DescriptorsHeld ==
    \A f \in 3..(MaxFd - 1) :
        IF f \in DOMAIN held
        THEN IF alt_fd_list[f].isdev THEN alt_fd_list[f].dev = held[f].name
             ELSE GoesThrough(held[f].name, alt_fd_list[f].dev)
        ELSE alt_fd_list[f] = Free

(* A call on what open() returned gets to the driver in the direction it   *)
(* was opened for and no other, whatever fcntl(), ioctl() and the owners   *)
(* before it did, and never if open() failed; isatty() is true of what     *)
(* fstat() calls a character device (alt_read.c:82-123,                    *)
(* alt_write.c:92-136, alt_isatty.c:82-123).                               *)
CallsAnswered ==
    \A f \in {-1} \cup DOMAIN held :
        /\ Answer("isatty", f) = "1" <=> Answer("fstat", f) = "_IFCHR"
        /\ f = -1 => \A op \in DOMAIN Refused : Answer(op, f) # "driver"
        /\ f # -1 => LET provided == Provides[alt_fd_list[f].dev] IN
              /\ Answer("read", f) = "driver" <=> held[f].mode # "O_WRONLY" /\ "read" \in provided
              /\ Answer("write", f) = "driver" <=> held[f].mode # "O_RDONLY" /\ "write" \in provided

FilesKept == DescriptorsHeld /\ CallsAnswered

(* "Further calls to open() for this device will fail until the lock is    *)
(* released" (alt_fd_lock.c:45).                                           *)
LockExcludes ==
    [][\A f \in DOMAIN held' \ DOMAIN held :
          \A g \in 0..(MaxFd - 1) :
             alt_fd_list[g].excl /\ alt_fd_list'[f].isdev => alt_fd_list[g].dev # alt_fd_list'[f].dev]_files_vars
================================================================================
