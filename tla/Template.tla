------------------------------ MODULE Template ------------------------------
(***************************************************************************)
(* The page template of package net/http/tplx on one instance: a file that *)
(* a publisher replaces, its copy in a file system in memory, and the map  *)
(* in which the prepared template is kept.  The map and its mutex are one  *)
(* variable, mp, and a reset replaces both.                                *)
(***************************************************************************)
EXTENDS Integers

CONSTANTS Readers, Resetters,
          MaxVersion  \* bound: versions of the file that are published

VARIABLES
    file,         \* the version of the file on the target, or Missing
    memory,       \* the one that fs1 read
    template,     \* mp.mp[pathToTmpl]: the version it was prepared from, Fallback, or None
    locked,       \* the mutex in mp
    page,         \* every request for a page
    reset,        \* every request for a reset
    up,           \* does the program run?
    interrupted   \* pages whose template a reset took away before it was returned

templateVars == <<file, memory, template, locked, page, reset, up, interrupted>>

Missing == 0
None == -1
Fallback == 0

TemplateInit ==
    /\ file = Missing /\ memory = Missing /\ template = None /\ locked = FALSE
    /\ page = [r \in Readers |-> [pc |-> "new", tpl |-> None]]
    /\ reset = [q \in Resetters |-> "new"]
    /\ up = TRUE /\ interrupted = {}

Published ==
    /\ file < MaxVersion /\ file' = file + 1
    /\ UNCHANGED <<memory, template, locked, page, reset, up, interrupted>>

At(r, pc) == page[r].pc = pc
Goto(r, pc, tpl) == page' = [page EXCEPT ![r] = [pc |-> pc, tpl |-> tpl]]

\* Go ends the program when it sees a map read while it is written.
MapRace == \E r \in Readers : At(r, "store")
StaysUp == up' \in IF MapRace THEN BOOLEAN ELSE {TRUE}

\* Unlock of an unlocked mutex ends the program.
Unlock == IF locked THEN locked' = FALSE /\ up' = TRUE ELSE UNCHANGED locked /\ up' = FALSE

Check(r) ==
    /\ At(r, "new") /\ ~locked /\ locked' = TRUE
    /\ Goto(r, "checked", template)
    /\ UNCHANGED <<file, memory, template, reset, up, interrupted>>

Checked(r) ==
    /\ At(r, "checked") /\ Unlock
    /\ Goto(r, IF page[r].tpl = None THEN "read" ELSE "answered", page[r].tpl)
    /\ UNCHANGED <<file, memory, template, reset, interrupted>>

\* fs1 keeps what it reads; a file that is not there, or an error, means the fallback.
ReadFile(r) ==
    /\ At(r, "read")
    /\ \/ /\ memory' = (IF memory # Missing THEN memory ELSE file)
          /\ Goto(r, "lock", IF memory' = Missing THEN Fallback ELSE memory')
       \/ memory = Missing /\ UNCHANGED memory /\ Goto(r, "lock", Fallback)
    /\ UNCHANGED <<file, template, locked, reset, up, interrupted>>

Lock(r) ==
    /\ At(r, "lock") /\ ~locked /\ locked' = TRUE
    /\ Goto(r, "store", page[r].tpl)
    /\ UNCHANGED <<file, memory, template, reset, up, interrupted>>

\* Mutant: the template is kept under another key.
Kept_elsewhere(tpl) == template

Kept(tpl) == tpl

Store(r) ==
    /\ At(r, "store") /\ template' = Kept(page[r].tpl) /\ Unlock
    /\ Goto(r, "return", page[r].tpl)
    /\ UNCHANGED <<file, memory, reset, interrupted>>

\* The map is read again, without the lock.
Return(r) ==
    /\ At(r, "return") /\ StaysUp
    /\ Goto(r, "answered", template)
    /\ UNCHANGED <<file, memory, template, locked, reset, interrupted>>

TemplateFromHugoPage(r) == Check(r) \/ Checked(r) \/ ReadFile(r) \/ Lock(r) \/ Store(r) \/ Return(r)

\* The mutex that is locked is a copy: of a locked one, it is locked for ever.
CopyMutex(q) ==
    /\ reset[q] = "new" /\ reset' = [reset EXCEPT ![q] = IF locked THEN "hangs" ELSE "look"]
    /\ UNCHANGED <<file, memory, template, locked, page, up, interrupted>>

Look(q) ==
    /\ reset[q] = "look" /\ StaysUp
    /\ reset' = [reset EXCEPT ![q] = IF template = None THEN "successful" ELSE "replace"]
    /\ UNCHANGED <<file, memory, template, locked, page, interrupted>>

Replace(q) ==
    /\ reset[q] = "replace" /\ reset' = [reset EXCEPT ![q] = "successful"]
    /\ template' = None /\ locked' = FALSE
    /\ interrupted' = interrupted \cup {r \in Readers : At(r, "return")}
    /\ UNCHANGED <<file, memory, page, up>>

TemplateFromHugoReset(q) == CopyMutex(q) \/ Look(q) \/ Replace(q)

TemplateNext ==
    /\ up
    /\ \/ Published
       \/ \E r \in Readers : TemplateFromHugoPage(r)
       \/ \E q \in Resetters : TemplateFromHugoReset(q)

TemplateSpec == TemplateInit /\ [][TemplateNext]_templateVars

(***************************************************************************)
(* A page is given a template, unless a reset took it away in the moment   *)
(* before; the lock is held by a page that goes on, and the program ends,  *)
(* without a reset, only in the unlocked read while another page is stored *)
(***************************************************************************)
TemplateServed ==
    /\ \A r \in Readers : page[r].pc = "answered" => page[r].tpl # None \/ r \in interrupted
    /\ (\A q \in Resetters : reset[q] = "new") =>
          /\ locked => \E r \in Readers : page[r].pc \in {"checked", "store"}
          /\ up \/ \E r \in Readers : page[r].pc = "store"
=============================================================================
