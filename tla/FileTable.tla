----------------------------- MODULE FileTable -----------------------------
(***************************************************************************)
(* The descriptor tables of libcxlfs and libvramfs, and the redirect       *)
(* library's mmap, over the allocators behind them: the bump allocator of  *)
(* libcxlfs and the buffers of libvram.                                    *)
(*                                                                         *)
(* The two tables are the same code over different allocators; fsys says   *)
(* which.  Addresses of libcxlfs are offsets into its shared memory plus   *)
(* one; the address of a Vulkan mapping is its buffer's number; 0 is NULL. *)
(***************************************************************************)
EXTENDS Vram

CONSTANTS
  Paths,        \* file names
  Lengths,      \* lengths and offsets, in pages
  MaxCalls      \* bound: calls of the file interface

\* a mapping has at least one page
ASSUME FileTableAssumption == Lengths \subseteq Nat \ {0}

VARIABLES
  fsys,         \* "cxl" or "vram"
  path_to_fd,   \* path -> descriptor (fd_to_path is its inverse)
  fd_desc,      \* descriptor -> its region, length and seek
  bump_off,     \* pages the bump allocator has handed out
  mapped,       \* redirect's mapped_files: path -> address and allocated length
  given,        \* the mappings returned to callers: file, address, length and room
  fstatus,      \* "up", or "dead" after a failed assertion
  calls

ftvars == <<fsys, path_to_fd, fd_desc, bump_off, mapped, given, fstatus, calls>>

EmptyMap == [x \in {} |-> 0]
Put(f, x, v) == [y \in DOMAIN f \cup {x} |-> IF y = x THEN v ELSE f[y]]

FtInit ==
  /\ fsys = "cxl"
  /\ path_to_fd = EmptyMap /\ fd_desc = EmptyMap /\ bump_off = 0
  /\ mapped = EmptyMap /\ given = {}
  /\ fstatus = "up" /\ calls = 0

\* libvram's constructor has set Vulkan up before the program runs
Call ==
  /\ fstatus = "up" /\ (fsys = "vram" => vstage = "ready")
  /\ calls < MaxCalls /\ calls' = calls + 1

\* the library a program is linked with
ChooseFs ==
  /\ calls = 0 /\ vstage = "start" /\ fsys = "cxl" /\ fsys' = "vram"
  /\ UNCHANGED <<path_to_fd, fd_desc, bump_off, mapped, given, fstatus, calls, vrvars>>

SetupVram ==
  /\ fsys = "vram" /\ VrSetup
  /\ UNCHANGED ftvars

-----------------------------------------------------------------------------
(* The allocators: addr is where the region begins.                        *)

malloc_Reuse(bytes, addr) == addr = 1 /\ bump_off' = bump_off + bytes
malloc(bytes, addr) == addr = bump_off + 1 /\ bump_off' = bump_off + bytes

\* bytes from the allocator behind the table; ok tells an exception apart
Allocate(bytes, addr, ok) ==
  \/ fsys = "cxl" /\ ok /\ malloc(bytes, addr) /\ UNCHANGED vrvars
  \/ fsys = "vram" /\ createVertexBuffer(ok) /\ UNCHANGED bump_off
     /\ addr = IF ok THEN NewBuffer ELSE 0

Addresses == 0..(MaxCalls * (CHOOSE m \in Lengths : \A l \in Lengths : l <= m) + 1)

-----------------------------------------------------------------------------
(* The table.                                                              *)

fd_exists(fd) == fd \in DOMAIN fd_desc

\* the smallest descriptor from 1 on that is not taken
get_free_fd == CHOOSE fd \in 1..(Cardinality(DOMAIN fd_desc) + 1) :
                 ~ fd_exists(fd) /\ \A e \in 1..(fd - 1) : fd_exists(e)

create_fd(path) ==
  /\ path_to_fd' = Put(path_to_fd, path, get_free_fd)
  /\ fd_desc' = Put(fd_desc, get_free_fd, [region |-> 0, len |-> 0, seek |-> 0])

open(path) ==
  /\ Call
  /\ IF path \in DOMAIN path_to_fd THEN UNCHANGED <<path_to_fd, fd_desc>> ELSE create_fd(path)
  /\ UNCHANGED <<fsys, bump_off, mapped, given, fstatus, vrvars>>

\* sizing a file: the seek is stored before the assertion that the file is new,
\* the length before the allocation, which may throw
lseek(fd, off) ==
  /\ Call /\ fd_exists(fd)
  /\ LET e == fd_desc[fd]
     IN  \/ /\ e.len # 0
            /\ fd_desc' = [fd_desc EXCEPT ![fd].seek = off]
            /\ fstatus' = "dead"
            /\ UNCHANGED <<bump_off, vrvars>>
         \/ /\ e.len = 0 /\ off = 0
            /\ fd_desc' = [fd_desc EXCEPT ![fd].seek = 0]
            /\ UNCHANGED <<fstatus, bump_off, vrvars>>
         \/ /\ e.len = 0 /\ off > 0
            /\ \E addr \in Addresses, ok \in BOOLEAN :
                 /\ Allocate(off, addr, ok)
                 /\ fd_desc' = [fd_desc EXCEPT ![fd] = [region |-> addr, len |-> off, seek |-> off]]
            /\ UNCHANGED fstatus
  /\ UNCHANGED <<fsys, path_to_fd, mapped, given>>

\* the errors leave everything as it is: a descriptor that does not exist, a
\* whence or a flag that is not supported
Refused(fd, supported) ==
  /\ Call /\ (~ fd_exists(fd) \/ ~ supported)
  /\ UNCHANGED <<fsys, path_to_fd, fd_desc, bump_off, mapped, given, fstatus, vrvars>>

\* the address returned is the file's, whatever the offset
mmap(fd, length, offset) ==
  /\ Call /\ fd_exists(fd)
  /\ given' = IF length + offset > fd_desc[fd].len THEN given
              ELSE given \cup {[file |-> <<"table", fd>>,
                                addr |-> fd_desc[fd].region, len |-> length,
                                room |-> fd_desc[fd].len]}
  /\ UNCHANGED <<fsys, path_to_fd, fd_desc, bump_off, mapped, fstatus, vrvars>>

-----------------------------------------------------------------------------
(* redirect.cc: mmap of a kernel file under the redirected mount points is *)
(* an allocation, remembered by name; munmap does nothing.  mmap must not  *)
(* throw, so an exception of libvram ends the program.                     *)

redirect_mmap(path, length) ==
  /\ Call
  /\ IF path \in DOMAIN mapped
     THEN /\ given' = given \cup {[file |-> <<"redirect", path>>, addr |-> mapped[path].addr, len |-> length,
                                   room |-> mapped[path].len]}
          /\ UNCHANGED <<mapped, bump_off, vrvars, fstatus>>
     ELSE \E addr \in Addresses, ok \in BOOLEAN :
            /\ Allocate(length, addr, ok)
            /\ fstatus' = IF ok THEN fstatus ELSE "dead"
            /\ mapped' = IF ok THEN Put(mapped, path, [addr |-> addr, len |-> length]) ELSE mapped
            /\ given' = IF ok THEN given \cup {[file |-> <<"redirect", path>>, addr |-> addr, len |-> length,
                                                room |-> length]} ELSE given
  /\ UNCHANGED <<fsys, path_to_fd, fd_desc>>

redirect_munmap ==
  /\ Call /\ given # {}
  /\ UNCHANGED <<fsys, path_to_fd, fd_desc, bump_off, mapped, given, fstatus, vrvars>>

Fds == 1..Cardinality(Paths)

FtNext ==
  \/ ChooseFs \/ SetupVram
  \/ \E p \in Paths : open(p)
  \/ \E fd \in Fds, off \in Lengths \cup {0} : lseek(fd, off)
  \/ \E fd \in Fds, supported \in BOOLEAN : Refused(fd, supported)
  \/ \E fd \in Fds, length \in Lengths, off \in Lengths \cup {0} : mmap(fd, length, off)
  \/ \E p \in Paths, length \in Lengths : redirect_mmap(p, length)
  \/ redirect_munmap

FtSpec == FtInit /\ VrInit /\ [][FtNext]_<<ftvars, vrvars>>

-----------------------------------------------------------------------------
(* Properties.                                                             *)

Overlap(a, m, b, n) == a < b + n /\ b < a + m
\* Mappings of different files never share memory, through whichever of the
\* interfaces they were made and however sizing, failing and mapping calls
\* interleave.  The exception is a mapping of the redirect that is longer than
\* the one before it, which gets the old region.  A descriptor is mapped to NULL
\* only after an allocation threw, when lseek had already set the length.
FilesApart ==
  /\ \A g, h \in given :
       /\ g.file # h.file /\ g.addr # 0 /\ h.addr # 0
       /\ \A m \in {g, h} : m.file[1] = "redirect" => m.len <= m.room
       => IF fsys = "cxl" THEN ~ Overlap(g.addr, g.len, h.addr, h.len) ELSE g.addr # h.addr
  /\ \A g \in given : g.file[1] = "table" /\ g.addr = 0 => fsys = "vram" /\ thrown > 0
=============================================================================
