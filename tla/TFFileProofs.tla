---------------------------- MODULE TFFileProofs ----------------------------
(***************************************************************************)
(* The invariants of TFFile, for every size limit and every largest file.  *)
(***************************************************************************)
EXTENDS TFFile, TLAPS

(* What is known of the TFFile while tf_file_open is under way: it has no  *)
(* data and no view, and from fstat on its size is the one reported, which *)
(* under Windows is the file's until it is mapped and the mapping object's *)
(* from then on, within the file.                                          *)
UnderWay ==
  pc # "idle" =>
    /\ last # "opened" /\ data = NULL /\ view = 0
    /\ file = IF pc = "view" THEN "closed" ELSE "open"
    /\ pc # "view" => section = 0
    /\ pc = "view" => build = "windows" /\ section = size /\ section <= disk
    /\ pc # "size" => size = reported /\ size > 0
    /\ pc = "map" /\ build = "windows" => disk = size

(* And between calls: what has data was opened, "" has no size and a view  *)
(* has one.                                                                *)
AtRest ==
  pc = "idle" =>
    /\ data # NULL => last = "opened"
    /\ data = "empty" => size = 0
    /\ data = "view" => view > 0

IInv == TypeOK /\ NothingLeaks /\ OpenedIsAsReported /\ ClosesOnlyViews
        /\ UnderWay /\ AtRest

(* A number below the modulus is its own remainder. *)
LEMMA SmallModulo == ASSUME NEW n \in Nat, NEW m \in Nat, n < m PROVE n % m = n
  OBVIOUS

(* A size that fits loses nothing when it becomes a uint32_t. *)
LEMMA UintKeeps == ASSUME NEW n \in Nat, Fits(n) PROVE uint32(n) = n
  <1>1. MaxSize + 1 \in Nat /\ n < MaxSize + 1
    BY FileAssumption DEF Fits
  <1> QED BY <1>1, SmallModulo DEF uint32

(* A TFFile not yet opened satisfies the invariant. *)
LEMMA InitIInv == Init => IInv
  BY FileAssumption
     DEF Init, IInv, TypeOK, NothingLeaks, OpenedIsAsReported, ClosesOnlyViews, UnderWay, AtRest

(* Every system call of tf_file_open, every way it fails, tf_file_close    *)
(* and every change of the file keep the invariant.                        *)
LEMMA NextIInv == IInv /\ [Next]_vars => IInv'
  <1> SUFFICES ASSUME IInv, [Next]_vars PROVE IInv'
    OBVIOUS
  <1> USE FileAssumption
        DEF IInv, TypeOK, NothingLeaks, OpenedIsAsReported, UnderWay, AtRest, ClosesOnlyViews,
            tf_file__fail, tffile
  <1>1. CASE Open
    <2>1. CASE file' = "open" /\ pc' = "size" /\ UNCHANGED last
      BY <1>1, <2>1 DEF Open
    <2>2. CASE last' = "failed" /\ UNCHANGED <<file, pc>>
      BY <1>1, <2>2 DEF Open
    <2> QED BY <1>1, <2>1, <2>2 DEF Open
  <1>2. CASE SizeFails
    BY <1>2 DEF SizeFails
  <1>3. CASE TooLarge
    BY <1>3 DEF TooLarge
  <1>4. CASE Empty
    BY <1>4, UintKeeps DEF Empty, Succeed
  <1>5. CASE Sized
    <2>1. disk \in Nat /\ Fits(disk)
      BY <1>5 DEF Sized
    <2>2. uint32(disk) = disk
      BY <2>1, UintKeeps
    <2> QED BY <1>5, <2>1, <2>2 DEF Sized, Fits
  <1>6. CASE MapFails
    BY <1>6 DEF MapFails
  <1>7. CASE Map
    BY <1>7 DEF Map, Succeed
  <1>8. CASE CreateFileMapping
    BY <1>8 DEF CreateFileMapping
  <1>9. CASE MapViewOfFile
    BY <1>9 DEF MapViewOfFile, Succeed
  <1>10. CASE ViewFails
    BY <1>10 DEF ViewFails
  <1>11. CASE tf_file_close
    BY <1>11 DEF tf_file_close, Mapped
  <1>12. CASE Resize
    BY <1>12 DEF Resize
  <1>13. CASE UNCHANGED vars
    BY <1>13 DEF vars
  <1> QED
    BY <1>1, <1>2, <1>3, <1>4, <1>5, <1>6, <1>7, <1>8, <1>9, <1>10, <1>11, <1>12, <1>13 DEF Next

(* The inductive invariant holds in every behaviour of a TFFile, whatever  *)
(* the caller opens and closes and whichever system calls fail.            *)
THEOREM Invariance == Spec => []IInv
  BY InitIInv, NextIInv, PTL DEF Spec

(* No handle outlives tf_file_open and no view outlives tf_file_close.     *)
THEOREM FilesDoNotLeak == Spec => []NothingLeaks
  <1>1. IInv => NothingLeaks
    BY DEF IInv
  <1> QED BY Invariance, <1>1, PTL

(* A TFFile that opened has a view of exactly the size the system reported *)
(* and, under Windows, the file still holds all of it, for every size      *)
(* limit and whatever other processes write.                               *)
THEOREM OpenedFilesAreAsReported == Spec => []OpenedIsAsReported
  <1>1. IInv => OpenedIsAsReported
    BY DEF IInv
  <1> QED BY Invariance, <1>1, PTL

(* tf_file_close may be called in any state of a TFFile. *)
THEOREM CloseIsSafe == Spec => []ClosesOnlyViews
  <1>1. IInv => ClosesOnlyViews
    BY DEF IInv
  <1> QED BY Invariance, <1>1, PTL
=============================================================================
