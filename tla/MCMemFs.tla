------------------------------- MODULE MCMemFs -------------------------------
(* Two clients of a file system in memory, alone or in front of another that   *)
(* holds the directory news and the file fa in it.  newsline is a sibling of   *)
(* news, and its name begins with that of news.                                *)
EXTENDS MemFs, TLC

CONSTANTS Kinds, MaxLen, Entries, MaxCalls,  \* FileObject
          c1, c2, root, news, newsline, fa, fb
ASSUME ObjectAssumption == MaxLen \in Nat

MCNodes == {root, news, newsline, fa, fb}
MCParent == [n \in MCNodes |-> IF n \in {fa, fb} THEN news ELSE root]
MCLonger == {<<news, newsline>>}
MCBytes == MCNodes \cup {"w"}

Ask(op, n, form) == [op |-> op, k |-> Key(n, form), to |-> Key(n, form), data |-> <<"w">>]
Alone == [n \in {} |-> "dir"]
Behind == [n \in {news, fa} |-> IF n = news THEN "dir" ELSE "file"]

Making == [shadow |-> Alone, ops |-> 3, requests |->
  {Ask("WriteFile", fa, "file"), Ask("WriteFile", fb, "file"), Ask("Mkdir", news, "dir"),
   Ask("ReadDir", news, "dir"), Ask("Chmod", fb, "file")}]
Removing == [shadow |-> Alone, ops |-> 3, requests |->
  {Ask("Create", fb, "file"), Ask("RemoveAll", news, "file"), Ask("Mkdir", newsline, "dir"),
   Ask("ReadDir", root, "dir"), Ask("Remove", fb, "file"), Ask("RemoveAll", root, "dir")}]
Renaming == [shadow |-> Alone, ops |-> 5, requests |->
  {Ask("Create", fb, "file"), Ask("Create", fa, "file"),
   [Ask("Rename", fb, "file") EXCEPT !.to = Key(fa, "file")]}]
Hiding == [shadow |-> Alone, ops |-> 3, requests |->
  {Ask("Create", news, "dir"), Ask("Create", news, "file"), Ask("Create", fa, "file"),
   Ask("Mkdir", news, "dir")}]
Filling == [shadow |-> Behind, ops |-> 2, requests |->
  {Ask("ReadFile", fa, "file"), Ask("WriteFile", fb, "file"), Ask("Open", news, "file")}]
Emptying == [shadow |-> Behind, ops |-> 2, requests |->
  {Ask("ReadFile", fa, "file"), Ask("RemoveAll", fa, "file")}]
\* No request to the file system: the clients share an open file.
Sharing == [shadow |-> Alone, ops |-> 0, requests |-> {}]
MCSetups == {Making, Removing, Renaming, Hiding, Filling, Emptying, Sharing}

VARIABLES kind, entries, data, at, closed, fetchPos, owner, pc, arg, calls,
          written, moved, seen, listers, readPanics
objvars == <<kind, entries, data, at, closed, fetchPos, owner, pc, arg, calls,
             written, moved, seen, listers, readPanics>>
O == INSTANCE FileObject WITH
       Users <- Clients, panicked <- readPanics

MCInit == Init /\ O!FInit /\ (setup.requests # {} => kind = "memfs" /\ entries = 0)
MCNext == \/ Next /\ UNCHANGED objvars
          \/ setup.requests = {} /\ O!FNext /\ UNCHANGED vars
MCSpec == MCInit /\ [][MCNext]_<<vars, objvars>>

\* What clients write one after the other is the file.
NothingSkipped == O!NothingSkipped
Sym == Permutations(Clients)
=============================================================================
