------------------------------- MODULE TFFile -------------------------------
(***************************************************************************)
(* tf_file_open and tf_file_close of lib/src/tf_file.c, on one TFFile the  *)
(* caller may open and close any number of times, in both builds.  The     *)
(* operating system is the environment: it holds the file's size, the      *)
(* descriptor, the section (Windows) and the view, and any call to it may  *)
(* fail.  Under POSIX the file may change size at any moment; a Windows    *)
(* handle opened with FILE_SHARE_READ keeps writers out, and a mapping     *)
(* object or a view keeps the file from shrinking.                         *)
(***************************************************************************)
EXTENDS Integers

CONSTANTS
  NULL,
  MaxSize,      \* UINT32_MAX, the largest size a TFFile can hold
  MaxDisk       \* the largest file in the model, past MaxSize

ASSUME FileAssumption ==
  /\ MaxSize \in Nat \ {0} /\ MaxDisk \in Nat /\ MaxDisk > MaxSize
  /\ NULL \notin {"empty", "view"}

VARIABLES
  build,        \* which of the two builds this is
  disk,         \* the size of the file now
  data, size,   \* the TFFile
  pc,           \* the system call tf_file_open makes next, or "idle"
  last,         \* how the caller's last call on the TFFile ended
  file,         \* the descriptor, or handle, of the file: "open" or "closed"
  section,      \* Windows: the size of the file mapping object whose handle is
                \* open, 0 for none
  view,         \* the bytes mapped at `data`, 0 when nothing is
  reported,     \* the size the system gave for the file
  unmapped      \* what the last tf_file_close unmapped

tffile == <<data, size>>
vars == <<build, disk, tffile, pc, last, file, section, view, reported, unmapped>>

TypeOK ==
  /\ build \in {"posix", "windows"} /\ disk \in 0 .. MaxDisk
  /\ data \in {NULL, "empty", "view"} /\ size \in 0 .. MaxSize
  /\ pc \in {"idle", "size", "map", "view"} /\ last \in {"closed", "failed", "opened"}
  /\ file \in {"open", "closed"} /\ section \in 0 .. MaxDisk
  /\ view \in 0 .. MaxDisk /\ reported \in 0 .. MaxDisk
  /\ unmapped \in {"nothing", "view", "stray"}

Init ==
  /\ build \in {"posix", "windows"} /\ disk \in 0 .. MaxDisk
  /\ data = NULL /\ size = 0 /\ pc = "idle" /\ last = "closed"
  /\ file = "closed" /\ section = 0 /\ view = 0 /\ reported = 0 /\ unmapped = "nothing"

(* The low 32 bits. *)
uint32(n) == n % (MaxSize + 1)

(* tf_file__fail and tf_file__too_large: tf_file_open returns false, with  *)
(* the TFFile as it stands.                                                *)
tf_file__fail == pc' = "idle" /\ last' = "failed" /\ UNCHANGED tffile

Succeed(d) == pc' = "idle" /\ last' = "opened" /\ data' = d

(* *self = {0}, then open or CreateFileA.  The header asks for a           *)
(* tf_file_close in between: an open over a view would forget it.          *)
Open ==
  /\ pc = "idle" /\ last # "opened"
  /\ data' = NULL /\ size' = 0
  /\ \/ file' = "open" /\ pc' = "size" /\ UNCHANGED last
     \/ last' = "failed" /\ UNCHANGED <<file, pc>>
  /\ UNCHANGED <<build, disk, section, view, reported, unmapped>>

(* fstat, GetFileSizeEx.  Every way out of tf_file_open from here closes   *)
(* the file's handle first.                                                *)
SizeFails ==
  /\ pc = "size"
  /\ file' = "closed" /\ tf_file__fail
  /\ UNCHANGED <<build, disk, section, view, reported, unmapped>>

(* Mutant: one byte too many passes for a size a TFFile can hold. *)
FitsOneMore(n) == n <= MaxSize + 1

Fits(n) == n <= MaxSize

TooLarge ==
  /\ pc = "size" /\ ~Fits(disk)
  /\ reported' = disk
  /\ file' = "closed" /\ tf_file__fail
  /\ UNCHANGED <<build, disk, section, view, unmapped>>

(* mmap rejects a zero length, and an empty file is a valid parse. *)
Empty ==
  /\ pc = "size" /\ Fits(disk) /\ uint32(disk) = 0
  /\ reported' = disk /\ size' = 0
  /\ file' = "closed" /\ Succeed("empty")
  /\ UNCHANGED <<build, disk, section, view, unmapped>>

Sized ==
  /\ pc = "size" /\ Fits(disk) /\ uint32(disk) # 0
  /\ reported' = disk /\ size' = uint32(disk)
  /\ pc' = "map"
  /\ UNCHANGED <<build, disk, data, last, file, section, view, unmapped>>

(* Mutant: the handle is closed only once the map succeeded. *)
MapFailsOpen ==
  /\ pc = "map"
  /\ tf_file__fail
  /\ UNCHANGED <<build, disk, file, section, view, reported, unmapped>>

(* mmap, CreateFileMappingA. *)
MapFails ==
  /\ pc = "map"
  /\ file' = "closed" /\ tf_file__fail
  /\ UNCHANGED <<build, disk, section, view, reported, unmapped>>

(* The POSIX map is of the size asked for; closing the descriptor does not *)
(* unmap it.                                                               *)
Map ==
  /\ pc = "map" /\ build = "posix"
  /\ view' = size /\ file' = "closed" /\ Succeed("view")
  /\ UNCHANGED <<build, disk, size, section, reported, unmapped>>

(* The mapping object is as large as the file is now. *)
CreateFileMapping ==
  /\ pc = "map" /\ build = "windows"
  /\ section' = disk /\ file' = "closed" /\ pc' = "view"
  /\ UNCHANGED <<build, disk, tffile, last, view, reported, unmapped>>

(* MapViewOfFile with no length: all of the object.  The view holds its    *)
(* own reference to it.                                                    *)
MapViewOfFile ==
  /\ pc = "view"
  /\ view' = section /\ section' = 0 /\ Succeed("view")
  /\ UNCHANGED <<build, disk, size, file, reported, unmapped>>

ViewFails ==
  /\ pc = "view"
  /\ section' = 0 /\ tf_file__fail
  /\ UNCHANGED <<build, disk, file, view, reported, unmapped>>

-----------------------------------------------------------------------------
(* Mutant: what has a size was mapped. *)
MappedBySize == size > 0

(* An empty file is "" and was never mapped; a failed map leaves `size`    *)
(* set but no `data`.                                                      *)
Mapped == size > 0 /\ data # NULL

(* munmap, UnmapViewOfFile of `data`; the caller may close at any time,    *)
(* opened or not.                                                          *)
tf_file_close ==
  /\ pc = "idle"
  /\ \/ Mapped /\ view' = 0 /\ unmapped' = IF data = "view" /\ view > 0 THEN "view" ELSE "stray"
     \/ ~Mapped /\ unmapped' = "nothing" /\ UNCHANGED view
  /\ data' = NULL /\ size' = 0 /\ last' = "closed"
  /\ UNCHANGED <<build, disk, pc, file, section, reported>>

(* Another process writes the file. *)
Resize ==
  /\ disk' \in 0 .. MaxDisk
  /\ build = "windows" => file = "closed" /\ (section + view > 0 => disk' >= disk)
  /\ UNCHANGED <<build, tffile, pc, last, file, section, view, reported, unmapped>>

Next == \/ Open \/ SizeFails \/ TooLarge \/ Empty \/ Sized \/ MapFails \/ Map
        \/ CreateFileMapping \/ MapViewOfFile \/ ViewFails \/ tf_file_close \/ Resize

Spec == Init /\ [][Next]_vars

-----------------------------------------------------------------------------
(* Whether it fails or succeeds, tf_file_open leaves no handle of the file *)
(* or of its mapping object behind; a view outlives it only in a TFFile    *)
(* that opened, and is gone once that is closed.                           *)
NothingLeaks ==
  /\ pc = "idle" => file = "closed" /\ section = 0
  /\ view > 0 => pc = "idle" /\ last = "opened" /\ data = "view"

(* The TFFile of a successful open is what the system reported: it has     *)
(* data, `size` is the size reported, never its low 32 bits alone, and the *)
(* view is as long.  Under Windows the file is as long too, as its handle  *)
(* and then the section or the view kept it so from GetFileSizeEx on.  A   *)
(* POSIX file may have been cut between fstat and mmap, or since: then the *)
(* tail of the view cannot be read, and the code promises nothing of it.   *)
OpenedIsAsReported ==
  pc = "idle" /\ last = "opened" =>
    /\ data # NULL /\ size = reported /\ view = size
    /\ build = "windows" => view <= disk

(* tf_file_close is "safe to call on a TFFile that failed to open or was   *)
(* already closed": it never unmaps anything but a view that is there.     *)
ClosesOnlyViews == unmapped # "stray"
=============================================================================
