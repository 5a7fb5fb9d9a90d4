----------------------------- MODULE Backtrace -----------------------------
(***************************************************************************)
(* backtrace_dump, backtrace_dump_save and backtrace_dump_load: a thread's *)
(* frames are resolved and reported to a callback, at once or from a file  *)
(* or a pipe that another call has written.  Saving usually happens in a   *)
(* process that is about to die, so it can stop after any step, with what  *)
(* is still in the stream's buffer lost.                                   *)
(*                                                                         *)
(* A dump is the count followed by base, offset, length and module of each *)
(* frame: Items items, written and read in order, of which only the number *)
(* matters.                                                                *)
(***************************************************************************)
EXTENDS Integers

CONSTANTS
  Depth,        \* frames backtrace() finds
  BufferItems,  \* items a stream buffers
  PipeItems,    \* items a pipe holds
  NoReturn      \* for a call that has not returned

ASSUME DumpAssumption ==
  /\ Depth \in Nat \ {0} /\ BufferItems \in Nat \ {0} /\ PipeItems \in Nat \ {0}
  /\ NoReturn \notin {0, -1}

Items == 1 + 4 * Depth
Garbage == -1  \* what the stack holds
NoInfo == 0      \* null
Wild == 0        \* no module: a pointer from the stack, or the text it led to

Fields == {"function", "file", "line"}

(* addrinfo's fields: of the lookup for this frame, or of no lookup. *)
Info == [Fields -> {Garbage, NoInfo} \cup 1 .. Depth]

VARIABLES
  optimised, \* the build optimises (CMake's default one does not)
  pipe,      \* the dump goes through a pipe, not a file
  later,     \* load is called only when save has returned
  saver,     \* where backtrace_dump_save is
  put,       \* items given to fwrite
  stored,    \* items in the file, or that have been in the pipe
  lost,      \* the flush in the last fclose failed
  savedRet,  \* what save returned
  writeEnd,  \* the descriptor save was given is open
  loader,    \* where backtrace_dump_load, or backtrace_dump, is
  got,       \* items read
  loadRet,   \* what it returned
  readEnd,   \* the descriptor load was given is open
  lookup,    \* where backtrace_get_addrinfo is
  frame,     \* the frame it works on
  bfds,      \* open bfd handles
  module,    \* the frame whose module each frame_info names
  info,      \* function_, file_ and line_ of addrinfo
  reported   \* what the callback was called with, for each frame

saving == <<saver, put, stored, lost, savedRet, writeEnd>>
loading == <<loader, got, loadRet, readEnd>>
dumping == <<lookup, frame, bfds, info, reported>>
chosen == <<optimised, pipe, later>>
dump_vars == <<chosen, saving, loading, module, dumping>>

LookupTypeOK ==
  /\ lookup \in {"open", "search", "report"} /\ frame \in 1 .. Depth + 1
  /\ bfds \in 0 .. 1
  /\ module \in [1 .. Depth -> {Wild} \cup 1 .. Depth]
  /\ info \in Info
  /\ reported \subseteq [frame : 1 .. Depth, module : 1 .. Depth, info : Info]

DumpTypeOK ==
  /\ optimised \in BOOLEAN /\ pipe \in BOOLEAN /\ later \in BOOLEAN
  /\ saver \in {"capture", "fdopen", "write", "fclose", "done", "dead"}
  /\ stored \in 0 .. put /\ put \in 0 .. Items /\ put - stored <= BufferItems
  /\ lost \in BOOLEAN
  /\ savedRet \in {0, -1, NoReturn} /\ loadRet \in {0, -1, NoReturn}
  /\ writeEnd \in BOOLEAN /\ readEnd \in BOOLEAN
  /\ loader \in {"capture", "fdopen", "read", "dump", "done", "dead"}
  /\ got \in 0 .. stored
  /\ LookupTypeOK

(* A save with its load, or a backtrace_dump, which uses no file. *)
DumpInit ==
  /\ optimised \in BOOLEAN /\ pipe \in BOOLEAN /\ later \in BOOLEAN
  /\ \/ saver = "capture" /\ loader = "fdopen"
     \/ saver = "done" /\ loader = "capture"
  /\ put = 0 /\ stored = 0 /\ got = 0 /\ lost = FALSE
  /\ savedRet = NoReturn /\ loadRet = NoReturn
  /\ writeEnd = TRUE /\ readEnd = TRUE
  /\ module = [i \in 1 .. Depth |-> Wild]
  /\ lookup = "open" /\ frame = 1 /\ bfds = 0 /\ reported = {}
  /\ info = [f \in Fields |-> Garbage]

-----------------------------------------------------------------------------
SaveReturns(ret) == saver' = "done" /\ savedRet' = ret

(* backtrace_fill_frame_info: where dladdr knows no module for a frame, the *)
(* record is cleared and then filled from addr_info all the same, which is  *)
(* not initialised and, unless the compiler makes something else of that,   *)
(* still holds the frame before.                                            *)
FillFrameInfo ==
  module' \in {m \in [1 .. Depth -> {Wild} \cup 1 .. Depth] :
    \A i \in 1 .. Depth :
      \/ m[i] = i
      \/ m[i] = (IF i = 1 THEN Wild ELSE m[i - 1])
      \/ optimised /\ m[i] = Wild}

(* backtrace() and dladdr for each frame. *)
Capture ==
  /\ saver = "capture"
  /\ FillFrameInfo
  /\ saver' = "fdopen"
  /\ UNCHANGED <<put, stored, lost, savedRet, writeEnd>>

SaveOpens ==
  /\ saver = "fdopen"
  /\ saver' = "write"
  /\ UNCHANGED <<put, stored, lost, savedRet, writeEnd>>

(* No frames, or fdopen fails: the descriptor stays open. *)
SaveRefused ==
  /\ saver \in {"capture", "fdopen"}
  /\ SaveReturns(-1)
  /\ UNCHANGED <<put, stored, lost, writeEnd>>

(* fwrite, while the buffer has room; *)
Fwrite ==
  /\ saver = "write" /\ put < Items /\ put - stored < BufferItems
  /\ put' = put + 1
  /\ saver' = IF put' = Items THEN "fclose" ELSE "write"
  /\ UNCHANGED <<stored, lost, savedRet, writeEnd>>

(* when it has none, and in fclose, it is flushed, as far as a pipe has    *)
(* room;                                                                   *)
Flushing == saver = "fclose" \/ (saver = "write" /\ put - stored = BufferItems)

Flush ==
  /\ Flushing
  /\ \E n \in 1 .. put - stored :
       /\ pipe => stored + n - got <= PipeItems /\ readEnd
       /\ stored' = stored + n
  /\ UNCHANGED <<saver, put, lost, savedRet, writeEnd>>

(* a full file system or a pipe nobody can read makes it fail: fwrite does *)
(* not return 1, and save closes the stream and returns -1;                *)
CanFail == ~pipe \/ ~readEnd

FwriteFails ==
  /\ saver = "write" /\ put - stored = BufferItems /\ CanFail
  /\ saver' = "fclose" /\ savedRet' = -1
  /\ UNCHANGED <<put, stored, lost, writeEnd>>

(* what fclose returns is not looked at. *)
SaveCloses ==
  /\ saver = "fclose" /\ (put = stored \/ CanFail)
  /\ lost' = (put # stored)
  /\ writeEnd' = FALSE
  /\ SaveReturns(IF savedRet = -1 THEN -1 ELSE 0)
  /\ UNCHANGED <<put, stored>>

(* The process that saves dies, of whatever.  A wild module_ can do it:    *)
(* strlen follows it, or finds a text there that is no module's path.      *)
Crash ==
  /\ saver \notin {"done", "dead"}
  /\ saver' = "dead" /\ writeEnd' = FALSE
  /\ UNCHANGED <<put, stored, lost, savedRet>>

Save ==
  /\ \/ Capture
     \/ /\ SaveOpens \/ SaveRefused \/ Fwrite \/ Flush \/ FwriteFails \/ SaveCloses
        /\ UNCHANGED module
  /\ UNCHANGED <<chosen, loading, dumping>>

SaverDies == Crash /\ UNCHANGED <<chosen, loading, module, dumping>>

(* The callers close the descriptors they passed, as test_backtrace does.  *)
(* After an fclose the number is no longer theirs to close.                *)
CallerCloses ==
  /\ \/ saver = "done" /\ writeEnd /\ writeEnd' = FALSE /\ UNCHANGED readEnd
     \/ loader = "done" /\ readEnd /\ readEnd' = FALSE /\ UNCHANGED writeEnd
  /\ UNCHANGED <<chosen, saver, put, stored, lost, savedRet, loader, got, loadRet, module, dumping>>

-----------------------------------------------------------------------------
LoadReturns(ret) == loader' = "done" /\ loadRet' = ret

(* backtrace_dump finds its own frames; *)
DumpCaptures ==
  /\ loader = "capture"
  /\ \/ FillFrameInfo /\ loader' = "dump" /\ UNCHANGED loadRet
     \/ LoadReturns(-1) /\ UNCHANGED module
  /\ UNCHANGED <<got, readEnd, dumping>>

(* load reads them, *)
LoadOpens ==
  /\ loader = "fdopen" /\ (later => saver \in {"done", "dead"})
  /\ \/ loader' = "read" /\ UNCHANGED loadRet
     \/ LoadReturns(-1)
  /\ UNCHANGED <<got, readEnd, dumping>>

Fread ==
  /\ loader = "read" /\ got < stored
  /\ got' = got + 1
  /\ loader' = IF got' = Items THEN "dump" ELSE "read"
  /\ UNCHANGED <<loadRet, readEnd, dumping>>

EndOfData == got = stored /\ (pipe => ~writeEnd)

(* Mutant: a short read ends the loop, and what was read is dumped. *)
FreadShortDumps ==
  /\ loader = "read" /\ EndOfData
  /\ loader' = "dump"
  /\ UNCHANGED <<got, loadRet, readEnd, dumping>>

(* Mutant: a short read is tried again. *)
FreadShortRetries ==
  /\ loader = "read" /\ EndOfData
  /\ UNCHANGED <<loading, dumping>>

(* and gives up when a read comes short. *)
FreadShort ==
  /\ loader = "read" /\ EndOfData
  /\ readEnd' = FALSE
  /\ LoadReturns(-1)
  /\ UNCHANGED <<got, dumping>>

-----------------------------------------------------------------------------
(* backtrace_dump_frames: each frame's module is opened, or cannot be, *)
NextFrame == lookup' = "open" /\ frame' = frame + 1

BfdOpens ==
  /\ loader = "dump" /\ lookup = "open" /\ frame <= Depth
  /\ \/ module[frame] # Wild /\ lookup' = "search" /\ bfds' = bfds + 1 /\ UNCHANGED frame
     \/ NextFrame /\ UNCHANGED bfds
  /\ UNCHANGED <<loading, info, reported>>

(* or, in backtrace_dump, is a wild pointer that kills the process,        *)
DumpDies ==
  /\ loader = "dump" /\ got = 0 /\ lookup = "open" /\ frame <= Depth
  /\ module[frame] = Wild
  /\ loader' = "dead"
  /\ UNCHANGED <<got, loadRet, readEnd, dumping>>

(* refused if it has the wrong format or no symbols, *)
BfdRefused ==
  /\ loader = "dump" /\ lookup = "search"
  /\ bfds' = bfds - 1
  /\ NextFrame
  /\ UNCHANGED <<loading, info, reported>>

(* and searched.  Every section is asked for the offset, taken in the      *)
(* section, not in the module, and whatever one answers replaces what      *)
(* addrinfo held: always the line, the function and the file if it knows   *)
(* them.  If none answers, addrinfo keeps what it held.                    *)
FindLine ==
  /\ loader = "dump" /\ lookup = "search"
  /\ \/ UNCHANGED info
     \/ info' \in {found \in Info : /\ found["line"] = frame
                                   /\ \A f \in Fields : found[f] \in {info[f], frame}}
  /\ lookup' = "report"
  /\ UNCHANGED <<loading, frame, bfds, reported>>

(* Mutant: backtrace_addrinfo_free leaves the fields. *)
FieldsLeft == UNCHANGED info

(* The object is gone after backtrace_addrinfo_free, so its stores are dead *)
(* and an optimising build leaves them out; the next addrinfo, which nobody *)
(* initialises either, takes its place.                                     *)
FieldsCleared == info' = IF optimised THEN info ELSE [f \in Fields |-> NoInfo]

(* The callback, and backtrace_addrinfo_free. *)
Report ==
  /\ loader = "dump" /\ lookup = "report"
  /\ reported' = reported \cup {[frame |-> frame, module |-> module[frame], info |-> info]}
  /\ bfds' = bfds - 1
  /\ FieldsCleared
  /\ NextFrame
  /\ UNCHANGED loading

DumpDone ==
  /\ loader = "dump" /\ frame > Depth
  /\ readEnd' = FALSE
  /\ LoadReturns(0)
  /\ UNCHANGED <<got, dumping>>

Load ==
  /\ \/ DumpCaptures
     \/ /\ \/ LoadOpens \/ Fread \/ FreadShort
           \/ BfdOpens \/ DumpDies \/ BfdRefused \/ FindLine \/ Report \/ DumpDone
        /\ UNCHANGED module
  /\ UNCHANGED <<chosen, saving>>

DumpNext == Save \/ SaverDies \/ CallerCloses \/ Load

DumpSpec == DumpInit /\ [][DumpNext]_dump_vars

(* The processes run and the callers close what they have opened. *)
DumpFairness == WF_dump_vars(Save) /\ WF_dump_vars(CallerCloses) /\ WF_dump_vars(Load)

-----------------------------------------------------------------------------
(* Each of the function, file and line that a frame is reported with comes *)
(* from the lookup for this frame, or is null, or uninitialised if no      *)
(* frame was reported before.  Only an optimising build reports what an    *)
(* earlier lookup found, through pointers into a bfd that is closed.       *)
OwnLookupOnly ==
  \A r \in reported, f \in Fields :
    \/ r.info[f] \in {r.frame, NoInfo}
    \/ /\ r.info[f] = Garbage
       /\ \A s \in reported : s.frame < r.frame => optimised /\ s.info[f] = Garbage
    \/ optimised /\ r.info[f] \in 1 .. r.frame - 1

(* In a build that does not optimise, no frame is reported with what the   *)
(* lookup for another has found, although addrinfo is never initialised    *)
(* and keeps what it held when the lookup finds nothing; the module that   *)
(* is searched, whose base is reported, is the frame's or that of an       *)
(* earlier one, never a wild pointer's; and every way out of the lookup    *)
(* closes the bfd.                                                         *)
BacktraceInv ==
  /\ DumpTypeOK
  /\ OwnLookupOnly
  /\ \A r \in reported : r.module <= r.frame
  /\ bfds = 1 <=> lookup # "open"

(* What the callback gets is the information of the frame's address, so    *)
(* the module it was looked up in is the frame's.  Not so: a frame dladdr  *)
(* does not know is looked up in the module of the frame before.           *)
ReportsTheGivenAddress == \A r \in reported : r.module = r.frame

(* Whatever the saver dies of and however far the load follows it, load    *)
(* reports a whole dump or nothing, and a dump that was stored whole is    *)
(* never refused afterwards.  Save returns 0 for a dump that is not stored *)
(* only when the flush it leaves to fclose fails.                          *)
WholeDumpOrNothing ==
  /\ reported # {} /\ saver # "done" => stored = Items
  /\ loadRet = 0 /\ got > 0 => stored = Items
  /\ loadRet = -1 => reported = {} /\ (later /\ stored = Items => got = 0)
  /\ savedRet = 0 => stored = Items \/ lost

Ended == saver \in {"done", "dead"} /\ loader \in {"done", "dead"}

(* Save and load return, or die: a full pipe, an end of file that comes    *)
(* late, a failed call never leave one waiting for the other, except a     *)
(* save into a pipe that is read only after it has returned, as in         *)
(* test_backtrace, when the pipe cannot hold the dump.                     *)
DumpsEnd == ~(pipe /\ later) => <>Ended
=============================================================================
