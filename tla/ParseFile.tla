------------------------------ MODULE ParseFile -----------------------------
(***************************************************************************)
(* Language::parse_file of lib/binding_rust/lib.rs, called any number of   *)
(* times: a TFFile of its own (TFFile), parse_with over its bytes with a   *)
(* slab of its own (RustBinding), and tf_file_close -- which an unwinding  *)
(* visitor skips, as a TFFile has no destructor.                           *)
(***************************************************************************)
EXTENDS RustBinding

CONSTANTS
  NoData,     \* NULL in TFFile.data
  MaxSize,    \* UINT32_MAX
  MaxDisk,    \* bound: the largest file in the model
  MaxCalls    \* bound: calls of parse_file

ASSUME CallsAssumption ==
  /\ MaxCalls \in Nat
  /\ MaxSize \in Nat \ {0} /\ MaxDisk \in Nat /\ MaxDisk > MaxSize
  /\ NoData \notin {"empty", "view"}

VARIABLES
  build, disk, data, size, opening, last, file, section, view, reported, unmapped,
  caller,     \* where parse_file is: "idle", "open", "opening" or "parse"
  calls,      \* calls so far
  panics,     \* history: calls that ended in a visitor's panic
  lost        \* history: views whose TFFile is gone

F == INSTANCE TFFile WITH NULL <- NoData, pc <- opening

callvars == <<caller, calls, panics, lost>>
filevars == <<build, disk, data, size, opening, last, file, section, view, reported, unmapped>>
everything == <<vars, filevars, callvars>>

FileInit == Init /\ F!Init /\ caller = "idle" /\ calls = 0 /\ panics = 0 /\ lost = 0

(* A TFFile of null and 0; or CString::new finds a null byte in the path,  *)
(* and the call returns an error.                                          *)
Begin ==
  /\ caller = "idle" /\ calls < MaxCalls
  /\ calls' = calls + 1
  /\ \/ caller' = "open" /\ data' = NoData /\ size' = 0 /\ last' = "closed"
     \/ UNCHANGED <<caller, data, size, last>>
  /\ UNCHANGED <<vars, build, disk, opening, file, section, view, reported, unmapped, panics, lost>>

OpenCalled ==
  /\ caller = "open" /\ caller' = "opening"
  /\ F!Open
  /\ UNCHANGED <<vars, calls, panics, lost>>

OpenGoesOn ==
  /\ caller = "opening"
  /\ \/ F!SizeFails \/ F!TooLarge \/ F!Empty \/ F!Sized \/ F!MapFails \/ F!Map
     \/ F!CreateFileMapping \/ F!MapViewOfFile \/ F!ViewFails
  /\ UNCHANGED <<vars, callvars>>

OpenFailed ==
  /\ caller = "opening" /\ opening = "idle" /\ last = "failed"
  /\ caller' = "idle"
  /\ UNCHANGED <<vars, filevars, calls, panics, lost>>

(* from_raw_parts, and parse_with begins with an empty slab. *)
ParseBegins ==
  /\ caller = "opening" /\ opening = "idle" /\ last = "opened"
  /\ caller' = "parse"
  /\ items' = <<>> /\ free' = <<>> /\ panic' = "none" /\ held' = <<>>
  /\ made' = 0 /\ peak' = 0 /\ outcome' = "running" /\ result' = NoValue
  /\ UNCHANGED <<filevars, calls, panics, lost>>

Parsing ==
  /\ caller = "parse"
  /\ Next
  /\ UNCHANGED <<filevars, callvars>>

(* Mutant: a `?` on the result before the file is closed. *)
CloseIfParsed ==
  /\ caller = "parse" /\ outcome \notin {"running", "panic"}
  /\ IF outcome = "value" THEN F!tf_file_close ELSE UNCHANGED filevars
  /\ caller' = "idle"
  /\ UNCHANGED <<vars, calls, panics, lost>>

(* Whatever parse_with returned, the file is closed before parse_file      *)
(* looks at it.                                                            *)
Close ==
  /\ caller = "parse" /\ outcome \notin {"running", "panic"}
  /\ F!tf_file_close
  /\ caller' = "idle"
  /\ UNCHANGED <<vars, calls, panics, lost>>

(* resume_unwind in parse_with: the TFFile goes with the frame. *)
Unwind ==
  /\ caller = "parse" /\ outcome = "panic"
  /\ data' = NoData /\ size' = 0 /\ last' = "closed" /\ view' = 0
  /\ lost' = lost + IF view > 0 THEN 1 ELSE 0
  /\ panics' = panics + 1
  /\ caller' = "idle"
  /\ UNCHANGED <<vars, build, disk, opening, file, section, reported, unmapped, calls>>

Written ==
  /\ F!Resize
  /\ UNCHANGED <<vars, callvars>>

FileNext == \/ Begin \/ OpenCalled \/ OpenGoesOn \/ OpenFailed \/ ParseBegins \/ Parsing
            \/ Close \/ Unwind \/ Written

FileSpec == FileInit /\ [][FileNext]_everything

-----------------------------------------------------------------------------
(* As many bytes as were reported are mapped from before the first         *)
(* callback until tf_parse_visible has returned; and a parse_file that     *)
(* returns, with a value or with any error, leaves no handle and no        *)
(* mapping behind.  Only a visitor's panic does, at most one mapping each. *)
MappedForTheParse ==
  /\ caller = "parse" => data # NoData /\ size = reported /\ view = size
  /\ caller = "idle" => file = "closed" /\ section = 0 /\ view = 0
  /\ lost <= panics
=============================================================================
