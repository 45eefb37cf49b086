----------------------------- MODULE FileObject -----------------------------
(* One open file, as memfs and dsfs implement it with the same code.  memfs    *)
(* gives all openers the same object: its position, its closed flag and its    *)
(* listing position are shared.  Read and Write hold the mutex of the object,  *)
(* Write only after it has read the position; Seek and Truncate do not.        *)
EXTENDS Integers, Sequences

CONSTANTS Users,     \* goroutines using the object
          Kinds,     \* subset of {"memfs", "dsfs"}: whose object it is
          MaxLen,    \* bound on positions
          Entries,   \* numbers of entries a listing may have
          MaxCalls   \* bound on the number of calls

Zero == "zero"       \* the byte that fills gaps
Stale == "stale"     \* a byte left over from before a cut

VARIABLES kind,      \* memfs or dsfs; never changes
          entries,   \* what the directory holds; never changes
          data, at, closed, fetchPos,
          owner,     \* users holding the mutex across steps: a failed Close
          pc,        \* [Users -> step of the call]
          arg,       \* [Users -> position read, size wanted]
          calls,
          written,   \* history: what was written, in order
          moved,     \* history: the position or size was changed otherwise, or
                     \* two writes overlapped
          panicked,
          seen,      \* [Users -> entries received by the listing in progress]
          listers    \* users who have listed
fvars == <<kind, entries, data, at, closed, fetchPos, owner, pc, arg, calls,
           written, moved, panicked, seen, listers>>

FInit == /\ kind \in Kinds /\ entries \in Entries
         /\ data = <<>> /\ at = 0 /\ closed = FALSE /\ fetchPos = 0
         /\ owner = {} /\ pc = [u \in Users |-> "idle"] /\ arg = [u \in Users |-> 0]
         /\ calls = 0 /\ written = <<>> /\ moved = FALSE
         /\ panicked = FALSE
         /\ seen = [u \in Users |-> 0] /\ listers = {}

Free == owner = {}
Size == Len(data)
Zeros(n) == [i \in 1..n |-> Zero]
Goto(u, l) == pc' = [pc EXCEPT ![u] = l]
history == <<written, moved, panicked, seen, listers>>
fixed == <<kind, entries>>

\* A call begins; each lands on the step that touches the object first.
Call(u) ==
  /\ pc[u] = "idle" /\ calls < MaxCalls
  /\ calls' = calls + 1
  /\ \E l \in {"write", "read", "truncate", "close", "list"} : Goto(u, l)
  /\ \E n \in 0..MaxLen : arg' = [arg EXCEPT ![u] = n]
  /\ UNCHANGED <<fixed, data, at, closed, fetchPos, owner, history>>

\* Open, by any client that opens or stats the path, in memfs
Open(u) ==
  /\ pc[u] = "idle" /\ calls < MaxCalls /\ kind = "memfs" /\ Free
  /\ calls' = calls + 1
  /\ at' = 0 /\ closed' = FALSE /\ moved' = TRUE
  /\ UNCHANGED <<fixed, data, fetchPos, owner, pc, arg, written, panicked, seen, listers>>

\* Seek stores the position; ReadAt and WriteAt store it and then read or write.
Position(u) ==
  /\ pc[u] = "idle" /\ calls < MaxCalls
  /\ calls' = calls + 1
  /\ \E off \in 0..MaxLen, whence \in {"start", "current", "end"} :
       at' = CASE whence = "start" -> off
               [] whence = "current" -> at + off
               [] whence = "end" -> Size + off
  /\ at' <= MaxLen
  /\ moved' = TRUE
  /\ \E l \in {"read", "write"} \cup (IF closed THEN {} ELSE {"idle"}) : Goto(u, l)
  /\ arg' = [arg EXCEPT ![u] = 1]
  /\ UNCHANGED <<fixed, data, closed, fetchPos, owner, written, panicked, seen, listers>>

\* The position is read before the mutex is taken.
WritePosition(u) ==
  /\ pc[u] = "write"
  /\ arg' = [arg EXCEPT ![u] = at]
  /\ Goto(u, "write2")
  /\ moved' = (moved \/ \E v \in Users \ {u} : pc[v] = "write2")
  /\ UNCHANGED <<fixed, data, at, closed, fetchPos, owner, calls, written,
                 panicked, seen, listers>>

\* Beyond the end, the zero bytes take the place of the data.
Written(d, cur, b) ==
  LET tail == SubSeq(d, cur + Len(b) + 1, Len(d)) IN
  IF cur > Len(d) THEN Zeros(cur - Len(d)) \o b \o tail
  ELSE SubSeq(d, 1, cur) \o b \o tail

WriteBytes_notAdvanced(u) ==
  /\ pc[u] = "write2" /\ Free
  /\ data' = Written(data, arg[u], <<u>>)
  /\ written' = Append(written, u)
  /\ Goto(u, "idle")
  /\ UNCHANGED <<fixed, at, closed, fetchPos, owner, arg, calls, moved,
                 panicked, seen, listers>>
WriteBytes(u) ==
  /\ pc[u] = "write2" /\ Free
  /\ data' = Written(data, arg[u], <<u>>)
  /\ at' = Len(data')
  /\ written' = Append(written, u)
  /\ Goto(u, "idle")
  /\ UNCHANGED <<fixed, closed, fetchPos, owner, arg, calls, moved, panicked, seen, listers>>

\* A position beyond the end makes the slice bounds negative.
Read(u) ==
  /\ pc[u] = "read" /\ Free
  /\ IF closed \/ (arg[u] > 0 /\ at = Size) THEN UNCHANGED <<at, panicked>>
     ELSE IF at > Size THEN panicked' = TRUE /\ UNCHANGED at
     ELSE /\ at' = IF Size - at >= arg[u] THEN at + arg[u] ELSE Size
          /\ UNCHANGED panicked
  /\ Goto(u, "idle")
  /\ UNCHANGED <<fixed, data, closed, fetchPos, owner, arg, calls, written, moved,
                 seen, listers>>

\* The size is compared, and then the data, as it is by then, cut or extended.
\* Cut at more than its length by now, it shows what its array held, or panics.
Compare(u) ==
  /\ pc[u] = "truncate"
  /\ Goto(u, IF closed THEN "idle" ELSE IF arg[u] > Size THEN "extend" ELSE "shorten")
  /\ arg' = [arg EXCEPT ![u] = IF arg[u] > Size THEN arg[u] - Size ELSE arg[u]]
  /\ UNCHANGED <<fixed, data, at, closed, fetchPos, owner, calls, history>>
Resize(u) ==
  /\ \/ pc[u] = "extend" /\ data' = data \o Zeros(arg[u]) /\ UNCHANGED panicked
     \/ /\ pc[u] = "shorten" /\ arg[u] <= Size
        /\ data' = SubSeq(data, 1, arg[u]) /\ UNCHANGED panicked
     \/ /\ pc[u] = "shorten" /\ arg[u] > Size
        /\ \/ panicked' = TRUE /\ UNCHANGED data
           \/ /\ data' = data \o [i \in 1..(arg[u] - Size) |-> Stale]
              /\ UNCHANGED panicked
  /\ Len(data') <= MaxLen
  /\ moved' = TRUE /\ Goto(u, "idle")
  /\ UNCHANGED <<fixed, at, closed, fetchPos, owner, arg, calls, written, seen, listers>>

\* Close of dsfs saves the file under the mutex and keeps it if that fails.
Close(u) ==
  /\ pc[u] = "close"
  /\ at' = 0 /\ moved' = TRUE /\ Goto(u, "close2")
  /\ UNCHANGED <<fixed, data, closed, fetchPos, owner, arg, calls, written,
                 panicked, seen, listers>>
CloseLocked(u) ==
  /\ pc[u] = "close2" /\ Free
  /\ closed' = TRUE
  /\ \/ UNCHANGED owner
     \/ kind = "dsfs" /\ owner' = {u}
  /\ Goto(u, "idle")
  /\ UNCHANGED <<fixed, data, at, fetchPos, arg, calls, written, moved, panicked,
                 seen, listers>>

\* Readdir(n) with n > 0: all entries, or none and EOF, in turns.
Readdir(u) ==
  /\ pc[u] = "list"
  /\ IF fetchPos = 0
     THEN fetchPos' = entries /\ seen' = [seen EXCEPT ![u] = entries] /\ Goto(u, "idle")
     ELSE fetchPos' = 0 /\ UNCHANGED seen /\ Goto(u, "eof")
  /\ listers' = listers \cup {u}
  /\ UNCHANGED <<fixed, data, at, closed, owner, arg, calls, written, moved,
                 panicked>>
Listed(u) ==
  /\ pc[u] = "eof"
  /\ seen' = [seen EXCEPT ![u] = 0] /\ Goto(u, "idle")
  /\ UNCHANGED <<fixed, data, at, closed, fetchPos, owner, arg, calls, written, moved,
                 panicked, listers>>

FNext == \E u \in Users :
  \/ Call(u) \/ Open(u) \/ Position(u) \/ WritePosition(u) \/ WriteBytes(u) \/ Read(u)
  \/ Compare(u) \/ Resize(u) \/ Close(u) \/ CloseLocked(u) \/ Readdir(u) \/ Listed(u)

FSpec == FInit /\ [][FNext]_fvars
-----------------------------------------------------------------------------
\* What clients write one after the other stays: the file is all that was
\* written, in order, unless someone moved the position, which every Open does,
\* changed the size, or two writes overlapped.  And a reader who is told EOF has
\* had the entries of the directory, unless others list with it.
NothingSkipped ==
  /\ ~moved => data = written
  /\ \A u \in Users : pc[u] = "eof" /\ listers = {u} => seen[u] = entries
=============================================================================
