----------------------------- MODULE WebProofs -----------------------------
(***************************************************************************)
(* Proofs about the modules of the web application.  Each is about the     *)
(* specification of one module, for any values of its constants: MCWeb     *)
(* passes the constants on to its instances of the modules.                *)
(***************************************************************************)
EXTENDS MCWeb, SequenceTheorems, TLAPS

(***************************************************************************)
(* The page template.  A page that got past the read has a template, and   *)
(* the map has one when a page is about to return, unless a reset took it  *)
(* away.  Before the first reset the lock has exactly one holder.          *)
(***************************************************************************)
PageSteps == {"new", "checked", "read", "lock", "store", "return", "answered"}

Holding(r) == page[r].pc \in {"checked", "store"}

TemplateTyped ==
    /\ file \in Nat /\ memory \in Nat /\ template \in Int
    /\ locked \in BOOLEAN /\ up \in BOOLEAN
    /\ page \in [Readers -> [pc : PageSteps, tpl : Int]]
    /\ reset \in [Resetters -> {"new", "look", "hangs", "replace", "successful"}]

PagesPrepared ==
    \A r \in Readers :
        /\ page[r].pc \in {"lock", "store", "return"} => page[r].tpl # T!None
        /\ page[r].pc = "return" => template # T!None \/ r \in interrupted
        /\ page[r].pc = "answered" => page[r].tpl # T!None \/ r \in interrupted

LockHeld ==
    (\A q \in Resetters : reset[q] = "new") =>
        /\ locked <=> \E r \in Readers : Holding(r)
        /\ \A r, s \in Readers : Holding(r) /\ Holding(s) => r = s
        /\ up \/ \E r \in Readers : page[r].pc = "store"

TemplateInv == TemplateTyped /\ PagesPrepared /\ LockHeld

\* A page that takes a step, and the rest of the pages.
LEMMA PageStep ==
    ASSUME TemplateTyped, NEW r \in Readers, NEW pc \in PageSteps, NEW tpl \in Int, T!Goto(r, pc, tpl)
    PROVE  /\ page' \in [Readers -> [pc : PageSteps, tpl : Int]]
           /\ page'[r].pc = pc /\ page'[r].tpl = tpl
           /\ \A s \in Readers \ {r} : page'[s] = page[s]
BY DEF TemplateTyped, T!Goto

LEMMA TemplateStarts == T!TemplateInit => TemplateInv
<1> SUFFICES ASSUME T!TemplateInit PROVE TemplateInv
    OBVIOUS
<1> DEFINE first == [pc |-> "new", tpl |-> T!None]
<1>1. first \in [pc : PageSteps, tpl : Int] /\ first.pc = "new"
    BY DEF PageSteps, T!None
<1> HIDE DEF first
<1>2. page = [r \in Readers |-> first] /\ ~locked /\ up /\ locked \in BOOLEAN /\ up \in BOOLEAN
    BY DEF T!TemplateInit, first
<1>3. file \in Nat /\ memory \in Nat /\ template \in Int
    BY DEF T!TemplateInit, T!None, T!Missing
<1>4. reset \in [Resetters -> {"new", "look", "hangs", "replace", "successful"}]
    BY DEF T!TemplateInit
<1>5. page \in [Readers -> [pc : PageSteps, tpl : Int]] /\ \A r \in Readers : page[r].pc = "new"
    BY <1>1, <1>2
<1> QED BY <1>2, <1>3, <1>4, <1>5 DEF TemplateInv, TemplateTyped, PagesPrepared, LockHeld, Holding

LEMMA TemplateGoesOn == TemplateInv /\ [T!TemplateNext]_T!templateVars => TemplateInv'
<1> SUFFICES ASSUME TemplateInv, [T!TemplateNext]_T!templateVars PROVE TemplateInv'
    OBVIOUS
<1> USE DEF TemplateInv
<1>1. CASE T!Published
    BY <1>1 DEF T!Published, TemplateTyped, PagesPrepared, LockHeld, Holding
<1>2. ASSUME NEW r \in Readers, T!Check(r) PROVE TemplateInv'
    <2>1. T!Goto(r, "checked", template) /\ ~locked /\ locked' /\ page[r].pc = "new"
          /\ UNCHANGED <<file, memory, template, reset, up, interrupted>>
        BY <1>2 DEF T!Check, T!At
    <2>2. /\ page' \in [Readers -> [pc : PageSteps, tpl : Int]]
          /\ page'[r].pc = "checked" /\ page'[r].tpl = template
          /\ \A s \in Readers \ {r} : page'[s] = page[s]
        BY <2>1, PageStep DEF TemplateTyped, PageSteps
    <2>3. TemplateTyped'
        BY <2>1, <2>2, <1>2 DEF TemplateTyped, T!Check
    <2>4. PagesPrepared'
        BY <2>1, <2>2 DEF PagesPrepared
    <2>5. LockHeld'
        BY <2>1, <2>2 DEF LockHeld, Holding
    <2> QED BY <2>3, <2>4, <2>5
<1>3. ASSUME NEW r \in Readers, T!Checked(r), up PROVE TemplateInv'
    <2> DEFINE there == IF page[r].tpl = T!None THEN "read" ELSE "answered"
    <2>1. /\ T!Goto(r, there, page[r].tpl) /\ T!Unlock /\ page[r].pc = "checked"
          /\ UNCHANGED <<file, memory, template, reset, interrupted>>
        BY <1>3 DEF T!Checked, T!At
    <2>2. /\ there \in PageSteps /\ page[r].tpl \in Int
          /\ there # "checked" /\ there # "store" /\ there # "lock" /\ there # "return"
          /\ there = "answered" => page[r].tpl # T!None
        BY DEF TemplateTyped, PageSteps
    <2> HIDE DEF there
    <2>3. /\ page' \in [Readers -> [pc : PageSteps, tpl : Int]]
          /\ page'[r].pc = there /\ page'[r].tpl = page[r].tpl
          /\ \A s \in Readers \ {r} : page'[s] = page[s]
        BY <2>1, <2>2, PageStep
    <2>4. TemplateTyped'
        BY <2>1, <2>3 DEF TemplateTyped, T!Unlock
    <2>5. PagesPrepared'
        BY <2>1, <2>2, <2>3 DEF PagesPrepared
    <2>6. ASSUME \A q \in Resetters : reset'[q] = "new" PROVE LockHeld'
        <3>1. locked /\ ~locked' /\ up'
            BY <1>3, <2>1, <2>6 DEF LockHeld, Holding, T!Unlock
        <3>2. \A s \in Readers : ~Holding(s)'
            BY <2>1, <2>2, <2>3, <2>6 DEF LockHeld, Holding
        <3> QED BY <3>1, <3>2 DEF LockHeld
    <2> QED BY <2>4, <2>5, <2>6 DEF LockHeld
<1>4. ASSUME NEW r \in Readers, T!ReadFile(r) PROVE TemplateInv'
    <2>1. /\ page[r].pc = "read" /\ memory' \in Nat
          /\ UNCHANGED <<file, template, locked, reset, up, interrupted>>
        BY <1>4 DEF T!ReadFile, T!At, TemplateTyped
    <2>2. PICK tpl \in Nat : T!Goto(r, "lock", tpl)
        BY <1>4, <2>1 DEF T!ReadFile, T!Fallback
    <2>3. /\ page' \in [Readers -> [pc : PageSteps, tpl : Int]]
          /\ page'[r].pc = "lock" /\ page'[r].tpl = tpl
          /\ \A s \in Readers \ {r} : page'[s] = page[s]
        BY <2>2, PageStep DEF PageSteps
    <2>4. tpl # T!None
        BY DEF T!None
    <2>5. TemplateTyped'
        BY <2>1, <2>3 DEF TemplateTyped
    <2>6. PagesPrepared'
        BY <2>1, <2>3, <2>4 DEF PagesPrepared
    <2>7. LockHeld'
        BY <2>1, <2>3 DEF LockHeld, Holding
    <2> QED BY <2>5, <2>6, <2>7
<1>5. ASSUME NEW r \in Readers, T!Lock(r) PROVE TemplateInv'
    <2>1. T!Goto(r, "store", page[r].tpl) /\ ~locked /\ locked' = TRUE /\ page[r].pc = "lock"
          /\ UNCHANGED <<file, memory, template, reset, up, interrupted>>
        BY <1>5 DEF T!Lock, T!At
    <2>2. /\ page' \in [Readers -> [pc : PageSteps, tpl : Int]]
          /\ page'[r].pc = "store" /\ page'[r].tpl = page[r].tpl
          /\ \A s \in Readers \ {r} : page'[s] = page[s]
        BY <2>1, PageStep DEF TemplateTyped, PageSteps
    <2>3. TemplateTyped'
        BY <2>1, <2>2 DEF TemplateTyped
    <2>4. PagesPrepared'
        BY <2>1, <2>2 DEF PagesPrepared
    <2>5. LockHeld'
        BY <2>1, <2>2 DEF LockHeld, Holding
    <2> QED BY <2>3, <2>4, <2>5
<1>6. ASSUME NEW r \in Readers, T!Store(r) PROVE TemplateInv'
    <2>1. /\ T!Goto(r, "return", page[r].tpl) /\ T!Unlock /\ page[r].pc = "store"
          /\ template' = page[r].tpl /\ UNCHANGED <<file, memory, reset, interrupted>>
        BY <1>6 DEF T!Store, T!At, T!Kept
    <2>2. /\ page' \in [Readers -> [pc : PageSteps, tpl : Int]]
          /\ page'[r].pc = "return" /\ page'[r].tpl = page[r].tpl
          /\ \A s \in Readers \ {r} : page'[s] = page[s]
        BY <2>1, PageStep DEF TemplateTyped, PageSteps
    <2>3. TemplateTyped'
        BY <2>1, <2>2 DEF TemplateTyped, T!Unlock
    <2>4. PagesPrepared'
        BY <2>1, <2>2 DEF PagesPrepared
    <2>5. ASSUME \A q \in Resetters : reset'[q] = "new" PROVE LockHeld'
        <3>1. locked /\ ~locked' /\ up'
            BY <2>1, <2>5 DEF LockHeld, Holding, T!Unlock
        <3>2. \A s \in Readers : ~Holding(s)'
            BY <2>1, <2>2, <2>5 DEF LockHeld, Holding
        <3> QED BY <3>1, <3>2 DEF LockHeld
    <2> QED BY <2>3, <2>4, <2>5 DEF LockHeld
<1>7. ASSUME NEW r \in Readers, T!Return(r) PROVE TemplateInv'
    <2>1. /\ T!Goto(r, "answered", template) /\ T!StaysUp /\ page[r].pc = "return"
          /\ UNCHANGED <<file, memory, template, locked, reset, interrupted>>
        BY <1>7 DEF T!Return, T!At
    <2>2. /\ page' \in [Readers -> [pc : PageSteps, tpl : Int]]
          /\ page'[r].pc = "answered" /\ page'[r].tpl = template
          /\ \A s \in Readers \ {r} : page'[s] = page[s]
        BY <2>1, PageStep DEF TemplateTyped, PageSteps
    <2>3. TemplateTyped'
        BY <2>1, <2>2 DEF TemplateTyped, T!StaysUp
    <2>4. PagesPrepared'
        BY <2>1, <2>2 DEF PagesPrepared
    <2>5. up' \/ \E s \in Readers : page'[s].pc = "store"
        BY <2>1, <2>2 DEF T!StaysUp, T!MapRace, T!At
    <2>6. LockHeld'
        BY <2>1, <2>2, <2>5 DEF LockHeld, Holding
    <2> QED BY <2>3, <2>4, <2>6
<1>8. ASSUME NEW q \in Resetters, T!CopyMutex(q) \/ T!Look(q) PROVE TemplateInv'
    <2>1. /\ reset' \in [Resetters -> {"new", "look", "hangs", "replace", "successful"}] /\ up' \in BOOLEAN
          /\ UNCHANGED <<file, memory, template, locked, page, interrupted>>
        BY <1>8 DEF T!CopyMutex, T!Look, T!StaysUp, TemplateTyped
    <2>2. reset'[q] # "new"
        BY <1>8 DEF T!CopyMutex, T!Look, TemplateTyped
    <2> QED BY <2>1, <2>2 DEF TemplateTyped, PagesPrepared, LockHeld
<1>9. ASSUME NEW q \in Resetters, T!Replace(q) PROVE TemplateInv'
    <2>1. /\ reset' \in [Resetters -> {"new", "look", "hangs", "replace", "successful"}] /\ reset'[q] # "new"
          /\ template' = T!None /\ locked' = FALSE /\ UNCHANGED <<file, memory, page, up>>
        BY <1>9 DEF T!Replace, TemplateTyped
    <2>2. interrupted' = interrupted \cup {r \in Readers : page[r].pc = "return"}
        BY <1>9 DEF T!Replace, T!At
    <2>3. template' \in Int
        BY <2>1 DEF T!None
    <2>4. locked' \in BOOLEAN
        BY <2>1
    <2> QED BY <2>1, <2>2, <2>3, <2>4 DEF TemplateTyped, PagesPrepared, LockHeld
<1>10. CASE UNCHANGED T!templateVars
    BY <1>10 DEF T!templateVars, TemplateTyped, PagesPrepared, LockHeld, Holding
<1> QED
    BY <1>1, <1>2, <1>3, <1>4, <1>5, <1>6, <1>7, <1>8, <1>9, <1>10
    DEF T!TemplateNext, T!TemplateFromHugoPage, T!TemplateFromHugoReset

(***************************************************************************)
(* TemplateFromHugoPage gives a page a template, but for those from whom a *)
(* reset takes it; without resets its lock is never left behind, and the   *)
(* program ends only in its unlocked read of the map.                      *)
(***************************************************************************)
THEOREM TemplateIsServed == T!TemplateSpec => []TemplateServed
<1>1. TemplateInv => TemplateServed
    BY DEF TemplateInv, PagesPrepared, LockHeld, Holding, TemplateServed, T!TemplateServed
<1> QED
    BY TemplateStarts, TemplateGoesOn, <1>1, PTL DEF T!TemplateSpec

(***************************************************************************)
(* The payments.  A handler that is about to save has an order that may be *)
(* saved, and one that saved has left an invoice or is among the missed.   *)
(***************************************************************************)
PaymentTyped ==
    /\ callback \in [Callbacks -> [order : Orders \cup {P!None}, arrives : BOOLEAN,
                                   pc : {"idle", "begun", "save", "retrieve", "ended"}]]
    /\ invoices \in [P!Keys -> SUBSET [order : Orders, F : {P!BTC(o) : o \in Orders}]]
    /\ \A c \in Callbacks : callback[c].pc # "idle" => callback[c].order \in Orders

\* The order may be saved, under its key.
Savable(o) == Order[o].status = "completed" /\ P!custom(o) \in P!Keys

\* There is an invoice for it, or a failure is known.
Kept(o) == P!custom(o) \in P!Keys /\ (invoices[P!custom(o)] # {} \/ o \in missed)

HandlersChecked ==
    \A c \in Callbacks : /\ callback[c].pc = "save" => Savable(callback[c].order)
                         /\ callback[c].pc = "retrieve" => Kept(callback[c].order)

PaymentInv == PaymentTyped /\ HandlersChecked /\ P!InvoicesMatchOrders

\* What an answer settles; Coinbase takes 411 for no success.
LEMMA ReplySettles ==
    ASSUME NEW c \in Callbacks, NEW status \in {P!LengthRequired, P!NotWritten, P!OK}, NEW panics \in BOOLEAN,
           PaymentTyped, callback[c].pc # "idle", P!Reply(c, status, panics)
    PROVE  /\ callback' \in [Callbacks -> [order : Orders \cup {P!None}, arrives : BOOLEAN,
                                           pc : {"idle", "begun", "save", "retrieve", "ended"}]]
           /\ callback'[c].pc = "ended" /\ callback'[c].order = callback[c].order
           /\ \A d \in Callbacks \ {c} : callback'[d] = callback[d]
           /\ settled' \subseteq settled \cup {callback[c].order}
           /\ status = P!LengthRequired => settled' = settled
<1>1. callback' = [callback EXCEPT ![c].pc = "ended"]
    BY DEF P!Reply
<1>2. settled' \subseteq settled \cup {callback[c].order}
    BY DEF P!Reply
<1>3. ASSUME status = P!LengthRequired PROVE settled' = settled
    <2>1. P!Answer(TRUE, TRUE, P!End(status, panics)) = 411
        BY <1>3 DEF P!Answer, P!End, P!LengthRequired, P!NotWritten, P!OK
    <2> DEFINE answer == P!Answer(TRUE, TRUE, P!End(status, panics))
    <2> HIDE DEF answer
    <2>2. answer # P!OK
        <3>1. answer = 411
            BY <2>1 DEF answer
        <3> QED BY <3>1 DEF P!OK
    <2>3. settled' = settled \cup {} \/ settled' = settled
        BY <2>2 DEF answer, P!Reply
    <2> QED BY <2>3
<1> QED BY <1>1, <1>2, <1>3 DEF PaymentTyped

\* An answer leaves the invariant, when the order is kept or the answer is no success.
LEMMA ReplyKeeps ==
    ASSUME NEW c \in Callbacks, NEW status \in {P!LengthRequired, P!NotWritten, P!OK}, NEW panics \in BOOLEAN,
           PaymentInv, callback[c].pc # "idle", P!Reply(c, status, panics), UNCHANGED invoices,
           missed \subseteq missed',
           status # P!LengthRequired => callback[c].order \in missed' \/ Kept(callback[c].order)
    PROVE  PaymentInv'
<1> USE DEF PaymentInv
<1>1. /\ callback' \in [Callbacks -> [order : Orders \cup {P!None}, arrives : BOOLEAN,
                                      pc : {"idle", "begun", "save", "retrieve", "ended"}]]
      /\ callback'[c].pc = "ended" /\ callback'[c].order = callback[c].order
      /\ \A d \in Callbacks \ {c} : callback'[d] = callback[d]
      /\ settled' \subseteq settled \cup {callback[c].order}
      /\ status = P!LengthRequired => settled' = settled
    BY ReplySettles
<1>2. PaymentTyped'
    BY <1>1 DEF PaymentTyped
<1>3. HandlersChecked'
    BY <1>1 DEF HandlersChecked, Kept, Savable
<1>4. P!InvoicesMatchOrders'
    BY <1>1 DEF P!InvoicesMatchOrders, P!Nothing, Kept
<1> QED BY <1>2, <1>3, <1>4

LEMMA PaymentStarts == P!PaymentInit => PaymentInv
BY DEF P!PaymentInit, PaymentInv, PaymentTyped, HandlersChecked, P!InvoicesMatchOrders, P!Idle, P!Nothing

LEMMA PaymentGoesOn == PaymentInv /\ [P!PaymentNext]_P!paymentVars => PaymentInv'
<1> SUFFICES ASSUME PaymentInv, [P!PaymentNext]_P!paymentVars PROVE PaymentInv'
    OBVIOUS
<1> USE DEF PaymentInv
<1>1. ASSUME NEW c \in Callbacks, P!Announce(c) PROVE PaymentInv'
    <2>1. PICK o \in Orders \ settled, arrives \in BOOLEAN :
              callback' = [callback EXCEPT ![c] = [order |-> o, pc |-> "begun", arrives |-> arrives]]
        BY <1>1 DEF P!Announce
    <2>2. UNCHANGED <<invoices, settled, missed>>
        BY <1>1 DEF P!Announce
    <2> DEFINE a == [order |-> o, pc |-> "begun", arrives |-> arrives]
    <2>3. /\ a \in [order : Orders \cup {P!None}, arrives : BOOLEAN,
                    pc : {"idle", "begun", "save", "retrieve", "ended"}]
          /\ a.pc = "begun" /\ a.order \in Orders
        OBVIOUS
    <2>4. callback' = [callback EXCEPT ![c] = a]
        BY <2>1
    <2> HIDE DEF a
    <2>5. PaymentTyped'
        BY <2>2, <2>3, <2>4 DEF PaymentTyped
    <2>6. HandlersChecked'
        BY <2>2, <2>3, <2>4 DEF HandlersChecked, PaymentTyped, Savable, Kept
    <2>7. P!InvoicesMatchOrders'
        BY <2>2 DEF P!InvoicesMatchOrders
    <2> QED BY <2>5, <2>6, <2>7
<1>2. ASSUME NEW c \in Callbacks, P!Begin(c) PROVE PaymentInv'
    <2> DEFINE o == callback[c].order
    <2>1. callback[c].pc = "begun" /\ o \in Orders /\ UNCHANGED invoices
        BY <1>2 DEF P!Begin, PaymentTyped
    <2>2. ASSUME P!Reply(c, P!LengthRequired, FALSE) /\ UNCHANGED missed PROVE PaymentInv'
        BY <2>1, <2>2, ReplyKeeps
    <2>3. ASSUME NEW panics \in BOOLEAN, P!Reply(c, P!NotWritten, panics), missed' = missed \cup {o} PROVE PaymentInv'
        BY <2>1, <2>3, ReplyKeeps
    <2>4. ASSUME /\ P!custom(o) # P!NoString /\ P!custom(o) \notin P!Malformed /\ P!Accepted(o)
                 /\ callback' = [callback EXCEPT ![c].pc = "save"] /\ UNCHANGED <<settled, missed>>
          PROVE  PaymentInv'
        <3>1. Savable(o)
            BY <2>1, <2>4 DEF Savable, P!Accepted, P!Keys
        <3>2. /\ callback' \in [Callbacks -> [order : Orders \cup {P!None}, arrives : BOOLEAN,
                                              pc : {"idle", "begun", "save", "retrieve", "ended"}]]
              /\ callback'[c].pc = "save" /\ callback'[c].order = o
              /\ \A d \in Callbacks \ {c} : callback'[d] = callback[d]
            BY <2>4 DEF PaymentTyped
        <3>3. PaymentTyped'
            BY <2>1, <3>2 DEF PaymentTyped
        <3>4. HandlersChecked'
            BY <2>1, <2>4, <3>1, <3>2 DEF HandlersChecked, Savable, Kept
        <3>5. P!InvoicesMatchOrders'
            BY <2>1, <2>4 DEF P!InvoicesMatchOrders
        <3> QED BY <3>3, <3>4, <3>5
    <2> QED
        BY <1>2, <2>1, <2>2, <2>3, <2>4 DEF P!Begin
<1>3. ASSUME NEW c \in Callbacks, P!Save(c) PROVE PaymentInv'
    <2> DEFINE o == callback[c].order
               blob == [order |-> o, F |-> P!BTC(o)]
    <2>1. /\ callback[c].pc = "save" /\ callback' = [callback EXCEPT ![c].pc = "retrieve"]
          /\ UNCHANGED settled
          /\ \/ invoices' = [invoices EXCEPT ![P!custom(o)] = {blob}] /\ UNCHANGED missed
             \/ missed' = missed \cup {o} /\ UNCHANGED invoices
        BY <1>3 DEF P!Save, P!Blob
    <2>2. Savable(o) /\ o \in Orders
        BY <2>1 DEF HandlersChecked, PaymentTyped
    <2>3. /\ blob \in [order : Orders, F : {P!BTC(q) : q \in Orders}]
          /\ blob.order = o /\ blob.F = P!BTC(o)
        BY <2>2
    <2> HIDE DEF blob
    <2>4. /\ callback' \in [Callbacks -> [order : Orders \cup {P!None}, arrives : BOOLEAN,
                                          pc : {"idle", "begun", "save", "retrieve", "ended"}]]
          /\ callback'[c].pc = "retrieve" /\ callback'[c].order = o
          /\ \A d \in Callbacks \ {c} : callback'[d] = callback[d]
        BY <2>1 DEF PaymentTyped
    <2> HIDE DEF o
    <2>5. /\ invoices' \in [P!Keys -> SUBSET [order : Orders, F : {P!BTC(q) : q \in Orders}]]
          /\ \A k \in P!Keys : invoices'[k] = invoices[k] \/ (k = P!custom(o) /\ invoices'[k] = {blob})
          /\ missed \subseteq missed' /\ (invoices'[P!custom(o)] # {} \/ o \in missed')
        <3> DEFINE Blobs == [order : Orders, F : {P!BTC(q) : q \in Orders}]
        <3>1. {blob} \in SUBSET Blobs /\ invoices \in [P!Keys -> SUBSET Blobs] /\ P!custom(o) \in P!Keys
            BY <2>2, <2>3 DEF PaymentTyped, Savable
        <3> HIDE DEF Blobs
        <3>2. invoices' \in [P!Keys -> SUBSET Blobs]
            BY <2>1, <3>1
        <3>3. /\ \A k \in P!Keys : invoices'[k] = invoices[k] \/ (k = P!custom(o) /\ invoices'[k] = {blob})
              /\ missed \subseteq missed' /\ (invoices'[P!custom(o)] # {} \/ o \in missed')
            BY <2>1, <3>1
        <3> QED BY <3>2, <3>3 DEF Blobs
    <2>6. PaymentTyped'
        BY <2>1, <2>2, <2>4, <2>5 DEF PaymentTyped
    <2>7. HandlersChecked'
        BY <2>1, <2>2, <2>4, <2>5 DEF HandlersChecked, Savable, Kept
    <2>8. P!InvoicesMatchOrders'
        BY <2>1, <2>2, <2>3, <2>5 DEF P!InvoicesMatchOrders, P!Nothing, Savable
    <2> QED BY <2>6, <2>7, <2>8
<1>4. ASSUME NEW c \in Callbacks, P!Retrieve(c) PROVE PaymentInv'
    <2>1. callback[c].pc = "retrieve" /\ P!Reply(c, P!OK, FALSE) /\ UNCHANGED <<invoices, missed>>
        BY <1>4 DEF P!Retrieve
    <2>2. Kept(callback[c].order)
        BY <2>1 DEF HandlersChecked
    <2> QED BY <2>1, <2>2, ReplyKeeps
<1>5. CASE UNCHANGED P!paymentVars
    BY <1>5 DEF P!paymentVars, PaymentTyped, HandlersChecked, P!InvoicesMatchOrders, Savable, Kept
<1> QED
    BY <1>1, <1>2, <1>3, <1>4, <1>5 DEF P!PaymentNext

(***************************************************************************)
(* confirmPay saves invoices of completed orders only, with their amounts  *)
(* and under their keys; and an order that Coinbase announces no more has  *)
(* one, or is among those that a failure kept out.                         *)
(***************************************************************************)
THEOREM InvoicesAreOfOrders == P!PaymentSpec => []InvoicesMatchOrders
<1>1. PaymentInv => InvoicesMatchOrders
    BY DEF PaymentInv, InvoicesMatchOrders
<1> QED
    BY PaymentStarts, PaymentGoesOn, <1>1, PTL DEF P!PaymentSpec

(***************************************************************************)
(* The record about the instance.  Who is past the first field, or finds a *)
(* record that was ever finished, finds the instance identified.  No       *)
(* instances are counted then only while a request is about to correct it. *)
(***************************************************************************)
AskSteps == {"new", "version", "instances", "one", "host", "others", "date", "has"}

Counted == {"host", "others", "date", "has"}

InfoTyped ==
    /\ asker \in [Askers -> AskSteps]
    /\ ii = [InstanceID |-> ii.InstanceID, NumInstances |-> ii.NumInstances,
             Hostname |-> ii.Hostname, HostnameInst0 |-> ii.HostnameInst0]

Identified ==
    (age # "never" \/ \E r \in Askers : asker[r] \notin {"new", "version"}) => ii.InstanceID # ""

Corrected ==
    (age # "never" \/ \E r \in Askers : asker[r] \in Counted) =>
        (ii.NumInstances = 0 => \E q \in Askers : asker[q] = "one")

InfoInv == InfoTyped /\ Identified /\ Corrected

\* A request that takes a step, and the rest of the requests.
LEMMA AskStep ==
    ASSUME InfoTyped, NEW r \in Askers, NEW here, NEW there \in AskSteps, I!At(r, here, there)
    PROVE  /\ asker[r] = here /\ asker' \in [Askers -> AskSteps] /\ asker'[r] = there
           /\ \A s \in Askers \ {r} : asker'[s] = asker[s]
BY DEF InfoTyped, I!At

LEMMA InfoStarts == I!InfoInit => InfoInv
BY DEF I!InfoInit, I!Empty, InfoInv, InfoTyped, Identified, Corrected, AskSteps, Counted

LEMMA InfoGoesOn == InfoInv /\ [I!InfoNext]_I!infoVars => InfoInv'
<1> SUFFICES ASSUME InfoInv, [I!InfoNext]_I!infoVars PROVE InfoInv'
    OBVIOUS
<1> USE DEF InfoInv
<1>1. CASE I!Tick
    BY <1>1 DEF I!Tick, InfoTyped, Identified, Corrected
<1>2. ASSUME NEW r \in Askers, I!GetByContext(r) PROVE InfoInv'
    <2> DEFINE there == IF I!UpToDate THEN "has" ELSE "version"
    <2>1. /\ I!At(r, "new", there) /\ UNCHANGED <<ii, age>>
          /\ there \in AskSteps /\ there \in {"has", "version"} /\ (there = "has" => age # "never")
        BY <1>2 DEF I!GetByContext, I!UpToDate, AskSteps
    <2> HIDE DEF there
    <2>2. /\ asker[r] = "new" /\ asker' \in [Askers -> AskSteps] /\ asker'[r] = there
          /\ \A s \in Askers \ {r} : asker'[s] = asker[s]
        BY <2>1, AskStep
    <2> QED BY <2>1, <2>2 DEF InfoTyped, Identified, Corrected, Counted
<1>3. ASSUME NEW r \in Askers, I!Version(r) PROVE InfoInv'
    <2>1. /\ asker[r] = "version" /\ asker' \in [Askers -> AskSteps] /\ asker'[r] = "instances"
          /\ \A s \in Askers \ {r} : asker'[s] = asker[s]
        BY <1>3, AskStep DEF I!Version, AskSteps
    <2>2. ii' = [InstanceID |-> "id", NumInstances |-> ii.NumInstances,
                 Hostname |-> ii.Hostname, HostnameInst0 |-> ii.HostnameInst0] /\ age' = age
        BY <1>3 DEF I!Version, InfoTyped
    <2> QED BY <2>1, <2>2 DEF InfoTyped, Identified, Corrected, Counted
<1>4. ASSUME NEW r \in Askers, I!NumInstances(r) PROVE InfoInv'
    <2>1. /\ asker[r] = "instances" /\ asker' \in [Askers -> AskSteps] /\ asker'[r] = "one"
          /\ \A s \in Askers \ {r} : asker'[s] = asker[s]
        BY <1>4, AskStep DEF I!NumInstances, AskSteps
    <2>2. PICK n : ii' = [ii EXCEPT !.NumInstances = n]
        BY <1>4 DEF I!NumInstances
    <2>3. ii' = [InstanceID |-> ii.InstanceID, NumInstances |-> n,
                 Hostname |-> ii.Hostname, HostnameInst0 |-> ii.HostnameInst0] /\ age' = age
        BY <1>4, <2>2 DEF I!NumInstances, InfoTyped
    <2> QED BY <2>1, <2>3 DEF InfoTyped, Identified, Corrected, Counted
<1>5. ASSUME NEW r \in Askers, I!AtLeastOne(r) PROVE InfoInv'
    <2>1. /\ asker[r] = "one" /\ asker' \in [Askers -> AskSteps] /\ asker'[r] = "host"
          /\ \A s \in Askers \ {r} : asker'[s] = asker[s]
        BY <1>5, AskStep DEF I!AtLeastOne, AskSteps
    <2>2. ii' = [InstanceID |-> ii.InstanceID, NumInstances |-> I!Assumed(ii.NumInstances),
                 Hostname |-> ii.Hostname, HostnameInst0 |-> ii.HostnameInst0] /\ age' = age
        BY <1>5 DEF I!AtLeastOne, InfoTyped
    <2>3. I!Assumed(ii.NumInstances) # 0
        BY DEF I!Assumed
    <2> QED BY <2>1, <2>2, <2>3 DEF InfoTyped, Identified, Corrected, Counted
<1>6. ASSUME NEW r \in Askers, I!Hostname(r) PROVE InfoInv'
    <2>1. /\ asker[r] = "host" /\ asker' \in [Askers -> AskSteps] /\ asker'[r] = "others"
          /\ \A s \in Askers \ {r} : asker'[s] = asker[s]
        BY <1>6, AskStep DEF I!Hostname, AskSteps
    <2>2. PICK name : ii' = [ii EXCEPT !.Hostname = name]
        BY <1>6 DEF I!Hostname
    <2>3. ii' = [InstanceID |-> ii.InstanceID, NumInstances |-> ii.NumInstances,
                 Hostname |-> name, HostnameInst0 |-> ii.HostnameInst0] /\ age' = age
        BY <1>6, <2>2 DEF I!Hostname, InfoTyped
    <2> QED BY <2>1, <2>3 DEF InfoTyped, Identified, Corrected, Counted
<1>7. ASSUME NEW r \in Askers, I!OtherHostnames(r) PROVE InfoInv'
    <2>1. /\ asker[r] = "others" /\ asker' \in [Askers -> AskSteps] /\ asker'[r] = "date"
          /\ \A s \in Askers \ {r} : asker'[s] = asker[s]
        BY <1>7, AskStep DEF I!OtherHostnames, AskSteps
    <2>2. PICK name : ii' = [ii EXCEPT !.HostnameInst0 = name]
        BY <1>7 DEF I!OtherHostnames
    <2>3. ii' = [InstanceID |-> ii.InstanceID, NumInstances |-> ii.NumInstances,
                 Hostname |-> ii.Hostname, HostnameInst0 |-> name] /\ age' = age
        BY <1>7, <2>2 DEF I!OtherHostnames, InfoTyped
    <2> QED BY <2>1, <2>3 DEF InfoTyped, Identified, Corrected, Counted
<1>8. ASSUME NEW r \in Askers, I!LastUpdated(r) PROVE InfoInv'
    <2>1. /\ asker[r] = "date" /\ asker' \in [Askers -> AskSteps] /\ asker'[r] = "has"
          /\ \A s \in Askers \ {r} : asker'[s] = asker[s]
        BY <1>8, AskStep DEF I!LastUpdated, AskSteps
    <2>2. ii' = ii
        BY <1>8 DEF I!LastUpdated
    <2> QED BY <2>1, <2>2 DEF InfoTyped, Identified, Corrected, Counted
<1>9. ASSUME NEW r \in Askers, I!Use(r) PROVE InfoInv'
    <2>1. /\ asker[r] = "has" /\ asker' \in [Askers -> AskSteps] /\ asker'[r] = "new"
          /\ \A s \in Askers \ {r} : asker'[s] = asker[s]
        BY <1>9, AskStep DEF I!Use, AskSteps
    <2>2. UNCHANGED <<ii, age>>
        BY <1>9 DEF I!Use
    <2> QED BY <2>1, <2>2 DEF InfoTyped, Identified, Corrected, Counted
<1>10. CASE UNCHANGED I!infoVars
    BY <1>10 DEF I!infoVars, InfoTyped, Identified, Corrected
<1> QED
    BY <1>1, <1>2, <1>3, <1>4, <1>5, <1>6, <1>7, <1>8, <1>9, <1>10 DEF I!InfoNext

(***************************************************************************)
(* Whoever GetByContext gave the record finds its instance identified, and *)
(* finds none counted only while another request is about to correct that. *)
(***************************************************************************)
THEOREM InfoIsUsable == I!InfoSpec => []InfoUsable
<1>1. InfoInv => InfoUsable
    BY DEF InfoInv, Identified, Corrected, Counted, InfoUsable, I!InfoUsable
<1> QED
    BY InfoStarts, InfoGoesOn, <1>1, PTL DEF I!InfoSpec

(***************************************************************************)
(* The counters.  A commit or a reset comes right after the read that it   *)
(* goes by, and whoever is about to do one knows what the entity says, or  *)
(* can tell from the number of writes that it does not.                    *)
(***************************************************************************)
Ops == [op : {"begin", "commit", "get", "reset", "add"}, ns : N!Namespaces]

\* What is left begins with a write that goes by an earlier read.
Later(left) == left # <<>> /\ left[1].op \in {"commit", "reset"}

Paired(left) ==
    /\ left \in Seq(Ops)
    /\ \A i \in 1 .. Len(left) - 1 :
          left[i + 1].op \in {"commit", "reset"} =>
              left[i].op \in {"begin", "get"} /\ left[i].ns = left[i + 1].ns

Records == [begun : BOOLEAN, left : Seq(Ops), seen : Int, read : Int, tries : Int]

Informed(r) ==
    Later(r.left) =>
        LET ns == r.left[1].ns
        IN  r.seen <= writes[ns] /\ (r.seen = writes[ns] => r.read = count[ns])

CounterTyped ==
    /\ handler \in [Handlers -> Records]
    /\ count \in [N!Namespaces -> Int] /\ writes \in [N!Namespaces -> Int]
    /\ floor \in [N!Namespaces -> Int] /\ gained \in [N!Namespaces -> Int] /\ reported \in [N!Namespaces -> Int]

HandlersInformed == \A h \in Handlers : Paired(handler[h].left) /\ Informed(handler[h])

CounterInv == CounterTyped /\ HandlersInformed /\ N!CountsAddUp

\* What follows the first operation.
LEMMA TailPaired ==
    ASSUME NEW left, Paired(left), left # <<>>
    PROVE  /\ Paired(Tail(left))
           /\ Later(Tail(left)) => left[1].op \in {"begin", "get"} /\ left[1].ns = Tail(left)[1].ns
           /\ left[1] \in Ops
<1>1. left \in Seq(Ops) /\ Len(left) \in Nat /\ Len(left) >= 1
    BY DEF Paired
<1>2. /\ Tail(left) \in Seq(Ops) /\ Len(Tail(left)) = Len(left) - 1
      /\ \A i \in 1 .. Len(left) - 1 : Tail(left)[i] = left[i + 1]
    BY <1>1
<1>3. Paired(Tail(left))
    <2>1. ASSUME NEW i \in 1 .. Len(Tail(left)) - 1
          PROVE  i + 1 \in 1 .. Len(left) - 1 /\ Tail(left)[i] = left[i + 1] /\ Tail(left)[i + 1] = left[i + 1 + 1]
        BY <1>1, <1>2
    <2> QED BY <1>2, <2>1 DEF Paired
<1>4. ASSUME Later(Tail(left))
      PROVE  left[1].op \in {"begin", "get"} /\ left[1].ns = Tail(left)[1].ns
    <2>1. Len(Tail(left)) >= 1
        BY <1>2, <1>4 DEF Later
    <2>2. 1 \in 1 .. Len(left) - 1 /\ Tail(left)[1] = left[1 + 1]
        BY <1>1, <1>2, <2>1
    <2> QED BY <1>4, <2>2 DEF Paired, Later
<1>5. left[1] \in Ops
    BY <1>1
<1> QED BY <1>3, <1>4, <1>5

\* One piece of a program after the other.
LEMMA JoinedPaired ==
    ASSUME NEW s, NEW t, Paired(s), Paired(t), ~Later(s), ~Later(t)
    PROVE  Paired(s \o t) /\ ~Later(s \o t)
<1>1. /\ s \in Seq(Ops) /\ t \in Seq(Ops) /\ s \o t \in Seq(Ops)
      /\ Len(s) \in Nat /\ Len(t) \in Nat /\ Len(s \o t) = Len(s) + Len(t)
    BY DEF Paired
<1>2. /\ \A i \in 1 .. Len(s) : (s \o t)[i] = s[i]
      /\ \A i \in 1 .. Len(t) : (s \o t)[Len(s) + i] = t[i]
    BY <1>1
<1>3. ASSUME NEW i \in 1 .. Len(s \o t) - 1, (s \o t)[i + 1].op \in {"commit", "reset"}
      PROVE  (s \o t)[i].op \in {"begin", "get"} /\ (s \o t)[i].ns = (s \o t)[i + 1].ns
    <2>1. CASE i + 1 \in 1 .. Len(s)
        <3>1. i \in 1 .. Len(s) - 1 /\ (s \o t)[i] = s[i] /\ (s \o t)[i + 1] = s[i + 1]
            BY <1>1, <1>2, <2>1
        <3> QED BY <1>3, <3>1 DEF Paired
    <2>2. CASE i = Len(s)
        <3>1. 1 \in 1 .. Len(t) /\ (s \o t)[i + 1] = t[1]
            BY <1>1, <1>2, <2>2
        <3>2. t # <<>>
            BY <1>1, <3>1
        <3> QED BY <1>3, <3>1, <3>2 DEF Later
    <2>3. CASE i > Len(s)
        <3> DEFINE j == i - Len(s)
        <3>1. j \in 1 .. Len(t) - 1 /\ j + 1 \in 1 .. Len(t) /\ i = Len(s) + j /\ i + 1 = Len(s) + (j + 1)
            BY <1>1, <2>3
        <3>2. (s \o t)[i] = t[j] /\ (s \o t)[i + 1] = t[j + 1]
            BY <1>2, <3>1
        <3> QED BY <1>3, <3>1, <3>2 DEF Paired
    <2> QED BY <1>1, <2>1, <2>2, <2>3
<1>4. ~Later(s \o t)
    <2>1. CASE s = <<>>
        <3>1. s \o t = t
            BY <1>1, <2>1
        <3> QED BY <3>1
    <2>2. CASE s # <<>>
        <3>1. 1 \in 1 .. Len(s) /\ (s \o t)[1] = s[1]
            BY <1>1, <1>2, <2>2
        <3> QED BY <2>2, <3>1 DEF Later
    <2> QED BY <2>1, <2>2
<1> QED BY <1>1, <1>3, <1>4 DEF Paired

\* An operation and the write that goes by it.
LEMMA PairPaired ==
    ASSUME NEW ns \in N!Namespaces, NEW first \in {"begin", "get"}, NEW second \in {"commit", "reset"}
    PROVE  /\ Paired(<<N!Op(first, ns), N!Op(second, ns)>>)
           /\ ~Later(<<N!Op(first, ns), N!Op(second, ns)>>)
<1> DEFINE a == N!Op(first, ns)
           b == N!Op(second, ns)
<1>1. a \in Ops /\ b \in Ops /\ a.op = first /\ a.ns = ns /\ b.ns = ns
    BY DEF N!Op, Ops
<1> HIDE DEF a, b
<1>2. /\ <<a, b>> \in Seq(Ops) /\ Len(<<a, b>>) = 2
      /\ <<a, b>>[1] = a /\ <<a, b>>[2] = b
    BY <1>1
<1>3. Paired(<<a, b>>)
    <2>1. \A i \in 1 .. Len(<<a, b>>) - 1 : i = 1 /\ i + 1 = 2
        BY <1>2
    <2> QED BY <1>1, <1>2, <2>1 DEF Paired
<1>4. ~Later(<<a, b>>)
    BY <1>1, <1>2 DEF Later
<1> QED BY <1>3, <1>4 DEF a, b

\* An operation that no write goes by.
LEMMA OnePaired ==
    ASSUME NEW ns \in N!Namespaces, NEW name \in {"get", "add"}
    PROVE  Paired(<<N!Op(name, ns)>>) /\ ~Later(<<N!Op(name, ns)>>)
<1> DEFINE a == N!Op(name, ns)
<1>1. a \in Ops /\ a.op = name
    BY DEF N!Op, Ops
<1> HIDE DEF a
<1>2. <<a>> \in Seq(Ops) /\ Len(<<a>>) = 1 /\ <<a>>[1] = a
    BY <1>1
<1>3. Paired(<<a>>)
    BY <1>2 DEF Paired
<1>4. ~Later(<<a>>)
    BY <1>1, <1>2 DEF Later
<1> QED BY <1>3, <1>4 DEF a

LEMMA TwoOnes == \A a, b : <<a>> \o <<b>> = <<a, b>>
<1> SUFFICES ASSUME NEW a, NEW b PROVE <<a>> \o <<b>> = <<a, b>>
    OBVIOUS
<1>1. /\ <<a>> \in Seq({a, b}) /\ Len(<<a>>) = 1 /\ <<a>>[1] = a
      /\ <<b>> \in Seq({a, b}) /\ Len(<<b>>) = 1 /\ <<b>>[1] = b
      /\ <<a, b>> \in Seq({a, b}) /\ Len(<<a, b>>) = 2 /\ <<a, b>>[1] = a /\ <<a, b>>[2] = b
    OBVIOUS
<1>2. /\ <<a>> \o <<b>> \in Seq({a, b}) /\ Len(<<a>> \o <<b>>) = 2
      /\ (<<a>> \o <<b>>)[1] = a /\ (<<a>> \o <<b>>)[2] = b
    BY <1>1, ConcatProperties
<1> DEFINE s == <<a>> \o <<b>>
           t == <<a, b>>
<1>3. s \in Seq({a, b}) /\ t \in Seq({a, b}) /\ Len(s) = 2 /\ Len(t) = 2 /\ s[1] = t[1] /\ s[2] = t[2]
    BY <1>1, <1>2
<1> HIDE DEF s, t
<1>4. \A i \in 1 .. Len(s) : s[i] = t[i]
    BY <1>3
<1>5. s = t
    BY <1>3, <1>4, SeqEqual
<1> QED BY <1>5 DEF s, t

\* What the requests and the tasks do is put together from these.
LEMMA ProgramsPaired ==
    ASSUME NEW reset_ \in BOOLEAN, NEW ns \in N!Namespaces
    PROVE  /\ Paired(N!queuePop(ns)) /\ ~Later(N!queuePop(ns))
           /\ Paired(N!readBothNamespaces(reset_)) /\ ~Later(N!readBothNamespaces(reset_))
           /\ Paired(N!incrementBothNamespaces(reset_)) /\ ~Later(N!incrementBothNamespaces(reset_))
           /\ Paired(N!queuePush(reset_)) /\ ~Later(N!queuePush(reset_))
<1> DEFINE Fine(s) == Paired(s) /\ ~Later(s)
<1>1. "" \in N!Namespaces /\ "ns01" \in N!Namespaces
    BY DEF N!Namespaces
<1>2. ASSUME NEW s, NEW t, Fine(s), Fine(t) PROVE Fine(s \o t)
    BY <1>2, JoinedPaired
<1>3. ASSUME NEW m \in N!Namespaces PROVE Fine(N!agnosticIncrement(m))
    BY PairPaired DEF N!agnosticIncrement
<1>4. ASSUME NEW m \in N!Namespaces PROVE Fine(N!agnosticReadReset(m, reset_))
    <2>1. CASE reset_
        <3>1. N!agnosticReadReset(m, reset_) = <<N!Op("get", m), N!Op("reset", m)>>
            BY <2>1, TwoOnes DEF N!agnosticReadReset
        <3> QED BY <3>1, PairPaired
    <2>2. CASE ~reset_
        <3>1. N!agnosticReadReset(m, reset_) = <<N!Op("get", m)>>
            BY <2>2 DEF N!agnosticReadReset
        <3> QED BY <3>1, OnePaired
    <2> QED BY <2>1, <2>2
<1>5. Fine(<<N!Op("add", ""), N!Op("add", "ns01")>>)
    <2>1. <<N!Op("add", ""), N!Op("add", "ns01")>> = <<N!Op("add", "")>> \o <<N!Op("add", "ns01")>>
        BY TwoOnes
    <2>2. Fine(<<N!Op("add", "")>>) /\ Fine(<<N!Op("add", "ns01")>>)
        BY <1>1, OnePaired
    <2> HIDE DEF Fine
    <2> QED BY <1>2, <2>1, <2>2
<1> HIDE DEF Fine
<1>6. Fine(N!readBothNamespaces(reset_))
    BY <1>1, <1>2, <1>4 DEF N!readBothNamespaces
<1>7. Fine(N!incrementBothNamespaces(reset_))
    <2>1. Fine(N!agnosticIncrement("") \o N!agnosticIncrement("ns01"))
        BY <1>1, <1>2, <1>3
    <2> QED BY <1>2, <1>6, <2>1 DEF N!incrementBothNamespaces
<1>8. Fine(N!queuePush(reset_))
    <2>1. Fine(<<N!Op("add", ""), N!Op("add", "ns01")>> \o N!readBothNamespaces(reset_))
        BY <1>2, <1>5, <1>6
    <2> QED BY <1>2, <1>6, <2>1 DEF N!queuePush
<1>9. Fine(N!queuePop(ns))
    BY <1>3 DEF N!queuePop
<1> QED BY <1>6, <1>7, <1>8, <1>9 DEF Fine

\* A step of one handler, with a write or without one.
LEMMA HandlerStep ==
    ASSUME CounterInv, NEW h \in Handlers, NEW r \in Records, N!Set(h, r), Paired(r.left), Informed(r)',
           \/ UNCHANGED <<count, writes>>
           \/ \E ns \in N!Namespaces, value \in Int : N!Write(ns, value)
    PROVE  /\ handler' \in [Handlers -> Records] /\ HandlersInformed'
           /\ count' \in [N!Namespaces -> Int] /\ writes' \in [N!Namespaces -> Int]
<1>1. handler' \in [Handlers -> Records] /\ handler'[h] = r /\ \A g \in Handlers \ {h} : handler'[g] = handler[g]
    BY DEF CounterInv, CounterTyped, N!Set
<1>2. /\ count' \in [N!Namespaces -> Int] /\ writes' \in [N!Namespaces -> Int]
      /\ \A m \in N!Namespaces : \/ writes'[m] = writes[m] /\ count'[m] = count[m]
                                 \/ writes'[m] = writes[m] + 1
    BY DEF CounterInv, CounterTyped, N!Write
<1>3. ASSUME NEW g \in Handlers \ {h} PROVE Paired(handler'[g].left) /\ Informed(handler[g])'
    <2> DEFINE q == handler[g]
    <2>1. q \in Records /\ Paired(q.left) /\ Informed(q) /\ handler'[g] = q
        BY <1>1 DEF CounterInv, CounterTyped, HandlersInformed
    <2>2. ASSUME Later(q.left) PROVE q.left[1].ns \in N!Namespaces /\ q.seen \in Int
        <3>1. q.left[1] \in Ops
            BY <2>1, <2>2, TailPaired DEF Later
        <3> QED BY <2>1, <3>1 DEF Ops, Records
    <2> HIDE DEF q
    <2>3. Informed(q)'
        <3>1. Later(q.left) => q.left[1].ns \in N!Namespaces /\ q.seen \in Int
            BY <2>2
        <3>2. q' = q
            BY <2>1 DEF q
        <3> QED BY <2>1, <3>1, <3>2, <1>2 DEF Informed, CounterInv, CounterTyped
    <2> QED BY <2>1, <2>3 DEF q
<1>4. HandlersInformed'
    BY <1>1, <1>3 DEF HandlersInformed
<1> QED BY <1>1, <1>2, <1>4

\* A handler that has done its first operation.
LEMMA DoneRecord ==
    ASSUME CounterInv, NEW h \in Handlers, handler[h].left # <<>>
    PROVE  /\ N!Done(h) \in Records /\ N!Done(h).left = Tail(handler[h].left)
           /\ N!Done(h).seen = handler[h].seen /\ N!Done(h).read = handler[h].read
           /\ Paired(N!Done(h).left) /\ Paired(handler[h].left) /\ handler[h].left[1] \in Ops
           /\ Later(N!Done(h).left) => /\ handler[h].left[1].op \in {"begin", "get"}
                                       /\ handler[h].left[1].ns = N!Done(h).left[1].ns
<1>1. handler[h] \in Records /\ Paired(handler[h].left)
    BY DEF CounterInv, CounterTyped, HandlersInformed
<1>2. Tail(handler[h].left) \in Seq(Ops)
    BY <1>1, TailPaired DEF Paired
<1>3. /\ N!Done(h) \in Records /\ N!Done(h).left = Tail(handler[h].left)
      /\ N!Done(h).seen = handler[h].seen /\ N!Done(h).read = handler[h].read
    BY <1>1, <1>2 DEF N!Done, Records
<1> QED BY <1>1, <1>3, TailPaired

\* A step that leaves the entities alone.
LEMMA QuietStep ==
    ASSUME CounterInv, NEW h \in Handlers, NEW r \in Records, N!Set(h, r), Paired(r.left), Informed(r),
           UNCHANGED <<count, writes, floor, gained, reported, disturbed>>
    PROVE  CounterInv'
<1>1. Informed(r)'
    BY DEF Informed
<1>2. /\ handler' \in [Handlers -> Records] /\ HandlersInformed'
      /\ count' \in [N!Namespaces -> Int] /\ writes' \in [N!Namespaces -> Int]
    BY <1>1, HandlerStep
<1>3. CounterTyped'
    BY <1>2 DEF CounterInv, CounterTyped
<1>4. N!CountsAddUp'
    BY DEF CounterInv, N!CountsAddUp
<1> QED BY <1>2, <1>3, <1>4 DEF CounterInv

\* A request or a task begins.
LEMMA StartKeeps ==
    ASSUME CounterInv, NEW h \in Handlers, NEW program, Paired(program), ~Later(program), N!Start(h, program)
    PROVE  CounterInv'
<1>1. PICK r : r = [[handler[h] EXCEPT !.begun = TRUE] EXCEPT !.left = program]
    OBVIOUS
<1>2. handler[h] \in Records /\ program \in Seq(Ops)
    BY DEF CounterInv, CounterTyped, Paired
<1>3. r \in Records /\ r.left = program
    BY <1>1, <1>2 DEF Records
<1>4. N!Set(h, r)
    BY <1>1 DEF N!Start, N!Set, CounterInv, CounterTyped
<1> QED BY <1>3, <1>4, QuietStep DEF Informed, N!Start

\* A transaction or a read, after which the handler knows the entity.
LEMMA ReadKeeps ==
    ASSUME CounterInv, NEW h \in Handlers, NEW ns \in N!Namespaces, NEW name, N!Next1(h, ns, name),
           N!Set(h, [N!Done(h) EXCEPT !.seen = writes[ns], !.read = count[ns]]),
           UNCHANGED <<count, writes, floor, gained, reported, disturbed>>
    PROVE  CounterInv'
<1>1. PICK r : r = [N!Done(h) EXCEPT !.seen = writes[ns], !.read = count[ns]]
    OBVIOUS
<1>2. handler[h].left # <<>> /\ handler[h].left[1] = N!Op(name, ns)
    BY DEF N!Next1
<1>3. writes[ns] \in Int /\ count[ns] \in Int
    BY DEF CounterInv, CounterTyped
<1>4. r \in Records /\ r.left = N!Done(h).left /\ r.seen = writes[ns] /\ r.read = count[ns]
    BY <1>1, <1>2, <1>3, DoneRecord DEF Records
<1>5. Paired(r.left) /\ (Later(r.left) => r.left[1].ns = ns)
    BY <1>2, <1>4, DoneRecord DEF N!Op
<1>6. Informed(r)
    BY <1>3, <1>4, <1>5 DEF Informed
<1>7. N!Set(h, r)
    BY <1>1
<1> QED BY <1>4, <1>5, <1>6, <1>7, QuietStep

\* A handler that goes on without a read that it could write by.
LEMMA SkipKeeps ==
    ASSUME CounterInv, NEW h \in Handlers, NEW r \in Records, N!Set(h, r), Paired(r.left), ~Later(r.left),
           UNCHANGED <<count, writes, floor, gained, reported, disturbed>>
    PROVE  CounterInv'
BY QuietStep DEF Informed

\* A transaction that met another write is put before what is left.
LEMMA AgainPaired ==
    ASSUME NEW left, Paired(left), NEW ns \in N!Namespaces, left # <<>>, left[1] = N!Op("commit", ns)
    PROVE  Paired(<<N!Op("begin", ns)>> \o left) /\ ~Later(<<N!Op("begin", ns)>> \o left)
<1> DEFINE a == N!Op("begin", ns)
           s == <<a>> \o left
<1>1. a \in Ops /\ a.op = "begin" /\ a.ns = ns /\ left[1].ns = ns
    BY DEF N!Op, Ops
<1> HIDE DEF a
<1>2. left \in Seq(Ops) /\ <<a>> \in Seq(Ops) /\ Len(<<a>>) = 1 /\ <<a>>[1] = a
    BY <1>1 DEF Paired
<1>3. /\ s \in Seq(Ops) /\ Len(s) = Len(left) + 1 /\ Len(left) \in Nat /\ s[1] = a
      /\ \A i \in 1 .. Len(left) : s[i + 1] = left[i]
    BY <1>2, ConcatProperties
<1> HIDE DEF s
<1>4. ASSUME NEW i \in 1 .. Len(s) - 1, s[i + 1].op \in {"commit", "reset"}
      PROVE  s[i].op \in {"begin", "get"} /\ s[i].ns = s[i + 1].ns
    <2>1. CASE i = 1
        <3>1. 1 \in 1 .. Len(left) /\ s[1 + 1] = left[1]
            BY <1>3, <1>4, <2>1
        <3> QED BY <1>1, <1>3, <2>1, <3>1
    <2>2. CASE i > 1
        <3>1. i - 1 \in 1 .. Len(left) - 1 /\ i \in 1 .. Len(left) /\ (i - 1) + 1 = i
            BY <1>3, <1>4, <2>2
        <3>2. s[i] = left[i - 1] /\ s[i + 1] = left[i]
            BY <1>3, <3>1
        <3> QED BY <1>4, <3>1, <3>2 DEF Paired
    <2> QED BY <2>1, <2>2
<1>5. Paired(s)
    BY <1>3, <1>4 DEF Paired
<1>6. ~Later(s)
    BY <1>1, <1>3 DEF Later
<1> QED BY <1>5, <1>6 DEF s, a

LEMMA CommitKeeps ==
    ASSUME CounterInv, NEW h \in Handlers, NEW ns \in N!Namespaces, N!CommitTx(h, ns)
    PROVE  CounterInv'
<1>1. /\ handler[h].left # <<>> /\ handler[h].left[1] = N!Op("commit", ns)
      /\ N!Op("commit", ns).op = "commit" /\ N!Op("commit", ns).ns = ns
      /\ UNCHANGED <<queue, floor, reported, disturbed>>
    BY DEF N!CommitTx, N!Next1, N!Op
<1>2. /\ N!Done(h) \in Records /\ N!Done(h).left = Tail(handler[h].left)
      /\ Paired(N!Done(h).left) /\ Paired(handler[h].left) /\ ~Later(N!Done(h).left)
    BY <1>1, DoneRecord
<1>3. handler[h] \in Records /\ handler[h].tries \in Int
    BY DEF CounterInv, CounterTyped, Records
<1>4. PICK done : done = [N!Done(h) EXCEPT !.tries = 0]
    OBVIOUS
<1>5. done \in Records /\ done.left = N!Done(h).left
    BY <1>2, <1>4 DEF Records
<1>6. CASE N!Conflict(h, ns)
    <2>1. UNCHANGED <<count, writes, floor, gained, reported, disturbed>>
        BY <1>1, <1>6 DEF N!CommitTx
    <2>2. CASE handler[h].tries + 1 < N!Attempts
        <3> DEFINE again == <<N!Op("begin", ns)>> \o handler[h].left
        <3>1. PICK r : r = [handler[h] EXCEPT !.left = again, !.tries = @ + 1]
            OBVIOUS
        <3>2. Paired(again) /\ ~Later(again)
            BY <1>1, <1>2, AgainPaired
        <3>3. N!Set(h, r)
            BY <1>6, <2>2, <3>1 DEF N!CommitTx
        <3> HIDE DEF again
        <3>4. r \in Records /\ r.left = again
            <4>1. again \in Seq(Ops) /\ handler[h].tries + 1 \in Int
                BY <1>3, <3>2 DEF Paired
            <4>2. r = [[handler[h] EXCEPT !.left = again] EXCEPT !.tries = handler[h].tries + 1]
                BY <1>3, <3>1 DEF Records
            <4> DEFINE tries == handler[h].tries + 1
            <4> HIDE DEF tries
            <4>3. r = [[handler[h] EXCEPT !.left = again] EXCEPT !.tries = tries] /\ tries \in Int
                BY <4>1, <4>2 DEF tries
            <4> QED BY <1>3, <4>1, <4>3 DEF Records
        <3> QED BY <2>1, <3>2, <3>3, <3>4, SkipKeeps
    <2>3. CASE ~(handler[h].tries + 1 < N!Attempts)
        <3>1. N!Set(h, done)
            BY <1>4, <1>6, <2>3 DEF N!CommitTx
        <3> QED BY <1>2, <1>5, <2>1, <3>1, SkipKeeps
    <2> QED BY <2>2, <2>3
<1>7. CASE ~N!Conflict(h, ns)
    <2> DEFINE value == handler[h].read + 1
    <2>1. /\ N!Set(h, done) /\ N!Write(ns, value)
          /\ gained' = [gained EXCEPT ![ns] = @ + 1]
        BY <1>4, <1>7 DEF N!CommitTx
    <2>2. value \in Int
        BY <1>3 DEF Records
    <2>3. handler[h].read = count[ns]
        <3>1. Later(handler[h].left) /\ handler[h].left[1].ns = ns
            BY <1>1 DEF Later
        <3>2. Informed(handler[h])
            BY DEF CounterInv, HandlersInformed
        <3> QED BY <1>7, <3>1, <3>2 DEF Informed, N!Conflict
    <2>4. /\ count' = [count EXCEPT ![ns] = count[ns] + 1]
        BY <2>1, <2>3 DEF N!Write
    <2> HIDE DEF value
    <2>5. Informed(done)'
        BY <1>2, <1>5 DEF Informed
    <2>6. /\ handler' \in [Handlers -> Records] /\ HandlersInformed'
          /\ count' \in [N!Namespaces -> Int] /\ writes' \in [N!Namespaces -> Int]
        BY <1>2, <1>5, <2>1, <2>2, <2>5, HandlerStep
    <2>7. CounterTyped'
        <3>1. gained' \in [N!Namespaces -> Int]
            BY <2>1 DEF CounterInv, CounterTyped
        <3> QED BY <1>1, <2>6, <3>1 DEF CounterInv, CounterTyped
    <2>8. N!CountsAddUp'
        BY <1>1, <2>1, <2>4 DEF CounterInv, CounterTyped, N!CountsAddUp
    <2> QED BY <2>6, <2>7, <2>8 DEF CounterInv
<1> QED BY <1>6, <1>7

LEMMA ResetKeeps ==
    ASSUME CounterInv, NEW h \in Handlers, NEW ns \in N!Namespaces, N!Reset(h, ns)
    PROVE  CounterInv'
<1>1. /\ handler[h].left # <<>> /\ handler[h].left[1] = N!Op("reset", ns)
      /\ N!Op("reset", ns).op = "reset" /\ N!Op("reset", ns).ns = ns
      /\ N!Set(h, N!Done(h)) /\ N!Write(ns, N!AfterReset)
      /\ reported' = [reported EXCEPT ![ns] = @ + handler[h].read - floor[ns]]
      /\ floor' = [floor EXCEPT ![ns] = N!AfterReset]
      /\ disturbed' = IF writes[ns] # handler[h].seen THEN disturbed \cup {ns} ELSE disturbed
      /\ UNCHANGED <<queue, gained>>
    BY DEF N!Reset, N!Next1, N!Op
<1>2. PICK done : done = N!Done(h)
    OBVIOUS
<1>3. done \in Records /\ Paired(done.left) /\ ~Later(done.left)
    BY <1>1, <1>2, DoneRecord
<1>4. Informed(done)'
    BY <1>3 DEF Informed
<1>5. N!AfterReset \in Int
    BY DEF N!AfterReset
<1>6. /\ handler' \in [Handlers -> Records] /\ HandlersInformed'
      /\ count' \in [N!Namespaces -> Int] /\ writes' \in [N!Namespaces -> Int]
    BY <1>1, <1>2, <1>3, <1>4, <1>5, HandlerStep
<1>7. handler[h].read \in Int
    BY DEF CounterInv, CounterTyped, Records
<1>8. CounterTyped'
    <2>1. gained' \in [N!Namespaces -> Int]
        BY <1>1 DEF CounterInv, CounterTyped
    <2>2. reported' \in [N!Namespaces -> Int]
        BY <1>1, <1>7 DEF CounterInv, CounterTyped
    <2>3. floor' \in [N!Namespaces -> Int]
        BY <1>1, <1>5 DEF CounterInv, CounterTyped
    <2> QED BY <1>6, <2>1, <2>2, <2>3 DEF CounterTyped
<1>9. writes[ns] = handler[h].seen => handler[h].read = count[ns]
    <2>1. Later(handler[h].left) /\ handler[h].left[1].ns = ns
        BY <1>1 DEF Later
    <2>2. Informed(handler[h])
        BY DEF CounterInv, HandlersInformed
    <2> QED BY <2>1, <2>2 DEF Informed
<1>10. N!CountsAddUp'
    <2>1. ASSUME NEW m \in N!Namespaces \ disturbed'
          PROVE  gained'[m] = reported'[m] + count'[m] - floor'[m]
        <3>1. m \in N!Namespaces \ disturbed /\ gained[m] = reported[m] + count[m] - floor[m]
            BY <1>1, <2>1 DEF CounterInv, N!CountsAddUp
        <3>2. CASE m # ns
            BY <1>1, <3>1, <3>2 DEF CounterInv, CounterTyped, N!Write
        <3>3. CASE m = ns
            <4>1. handler[h].read = count[ns]
                BY <1>1, <1>9, <2>1, <3>3
            <4>2. /\ reported'[m] = reported[m] + count[m] - floor[m]
                  /\ count'[m] = N!AfterReset /\ floor'[m] = N!AfterReset /\ gained'[m] = gained[m]
                BY <1>1, <3>3, <4>1 DEF CounterInv, CounterTyped, N!Write
            <4>3. reported[m] \in Int /\ count[m] \in Int /\ floor[m] \in Int
                BY DEF CounterInv, CounterTyped
            <4> QED BY <1>5, <3>1, <4>2, <4>3
        <3> QED BY <3>2, <3>3
    <2> QED BY <2>1 DEF N!CountsAddUp
<1> QED BY <1>6, <1>8, <1>10 DEF CounterInv

LEMMA AddKeeps ==
    ASSUME CounterInv, NEW h \in Handlers, NEW ns \in N!Namespaces, N!Add(h, ns)
    PROVE  CounterInv'
<1>1. /\ handler[h].left # <<>> /\ handler[h].left[1] = N!Op("add", ns) /\ N!Op("add", ns).op = "add"
      /\ N!Set(h, N!Done(h)) /\ UNCHANGED <<count, writes, floor, gained, reported, disturbed>>
    BY DEF N!Add, N!Next1, N!Op
<1>2. PICK done : done = N!Done(h)
    OBVIOUS
<1>3. done \in Records /\ Paired(done.left) /\ ~Later(done.left)
    BY <1>1, <1>2, DoneRecord
<1> QED BY <1>1, <1>2, <1>3, SkipKeeps

\* A failed call takes the write that would go by it along.
LEMMA FailKeeps ==
    ASSUME CounterInv, NEW h \in Handlers, N!Fail(h)
    PROVE  CounterInv'
<1>1. /\ handler[h].left # <<>> /\ N!Set(h, [N!Return(h) EXCEPT !.tries = 0])
      /\ UNCHANGED <<count, writes, floor, gained, reported, disturbed>>
    BY DEF N!Fail
<1> DEFINE rest == N!Done(h).left
           left == IF Later(rest) THEN Tail(rest) ELSE rest
<1>2. N!Done(h) \in Records /\ Paired(rest)
    BY <1>1, DoneRecord
<1>3. Paired(left) /\ ~Later(left)
    <2>1. CASE Later(rest)
        <3>1. rest # <<>> /\ rest[1].op \in {"commit", "reset"}
            BY <2>1 DEF Later
        <3>2. Paired(Tail(rest)) /\ ~Later(Tail(rest))
            BY <1>2, <3>1, TailPaired
        <3> QED BY <2>1, <3>2
    <2> QED BY <1>2, <2>1
<1>4. N!Return(h) = [N!Done(h) EXCEPT !.left = left]
    <2>1. rest # <<>> => Head(rest) = rest[1]
        BY <1>2 DEF Paired
    <2> QED BY <2>1 DEF N!Return, Later
<1> HIDE DEF left
<1>5. PICK r : r = [N!Return(h) EXCEPT !.tries = 0]
    OBVIOUS
<1>6. N!Return(h) \in Records /\ N!Return(h).left = left
    BY <1>2, <1>3, <1>4 DEF Records, Paired
<1>7. r \in Records /\ r.left = left
    BY <1>5, <1>6 DEF Records
<1> QED BY <1>1, <1>3, <1>5, <1>7, SkipKeeps

LEMMA CounterStarts == N!NsInit => CounterInv
<1> SUFFICES ASSUME N!NsInit PROVE CounterInv
    OBVIOUS
<1>1. N!Idle \in Records /\ Paired(N!Idle.left) /\ ~Later(N!Idle.left)
    <2>1. N!Idle.left = <<>> /\ <<>> \in Seq(Ops) /\ Len(<<>>) = 0
        BY DEF N!Idle
    <2> QED BY <2>1 DEF N!Idle, Records, Paired, Later
<1>2. handler = [h \in Handlers |-> N!Idle]
    BY DEF N!NsInit
<1>3. handler \in [Handlers -> Records] /\ HandlersInformed
    BY <1>1, <1>2 DEF HandlersInformed, Informed
<1>4. CounterTyped
    BY <1>3 DEF N!NsInit, CounterTyped
<1>5. N!CountsAddUp
    BY DEF N!NsInit, N!CountsAddUp
<1> QED BY <1>3, <1>4, <1>5 DEF CounterInv

LEMMA CounterGoesOn == CounterInv /\ [N!NsNext]_N!nsVars => CounterInv'
<1> SUFFICES ASSUME CounterInv, [N!NsNext]_N!nsVars PROVE CounterInv'
    OBVIOUS
<1>1. ASSUME NEW h \in Handlers, N!Request(h) PROVE CounterInv'
    <2>1. PICK doReset \in BOOLEAN :
              \E program \in {N!readBothNamespaces(doReset), N!incrementBothNamespaces(doReset), N!queuePush(doReset)} :
                  N!Start(h, program)
        BY <1>1 DEF N!Request
    <2>2. PICK program \in {N!readBothNamespaces(doReset), N!incrementBothNamespaces(doReset), N!queuePush(doReset)} :
              N!Start(h, program)
        BY <2>1
    <2>3. "" \in N!Namespaces
        BY DEF N!Namespaces
    <2>4. Paired(program) /\ ~Later(program)
        BY <2>3, ProgramsPaired
    <2> QED BY <2>2, <2>4, StartKeeps
<1>2. ASSUME NEW h \in Handlers, N!RunTask(h) PROVE CounterInv'
    <2>1. PICK ns \in N!Namespaces : N!Start(h, N!queuePop(ns))
        BY <1>2 DEF N!RunTask
    <2>2. Paired(N!queuePop(ns)) /\ ~Later(N!queuePop(ns))
        BY ProgramsPaired
    <2> QED BY <2>1, <2>2, StartKeeps
<1>3. ASSUME NEW h \in Handlers, NEW ns \in N!Namespaces, N!BeginTx(h, ns) \/ N!Get(h, ns) PROVE CounterInv'
    <2>1. /\ N!Next1(h, ns, "begin") \/ N!Next1(h, ns, "get")
          /\ N!Set(h, [N!Done(h) EXCEPT !.seen = writes[ns], !.read = count[ns]])
          /\ UNCHANGED <<count, writes, floor, gained, reported, disturbed>>
        BY <1>3 DEF N!BeginTx, N!Get
    <2> QED BY <2>1, ReadKeeps
<1>4. CASE UNCHANGED N!nsVars
    BY <1>4 DEF N!nsVars, CounterInv, CounterTyped, HandlersInformed, Informed, N!CountsAddUp
<1> QED
    BY <1>1, <1>2, <1>3, <1>4, CommitKeeps, ResetKeeps, AddKeeps, FailKeeps DEF N!NsNext

(***************************************************************************)
(* Increments are neither lost nor counted twice by agnosticIncrement and  *)
(* agnosticReadReset, except in a namespace where a write came between the *)
(* read and the write of a reset.                                          *)
(***************************************************************************)
THEOREM CountsAreKept == N!NsSpec => []CountsAddUp
<1>1. CounterInv => CountsAddUp
    BY DEF CounterInv, CountsAddUp
<1> QED
    BY CounterStarts, CounterGoesOn, <1>1, PTL DEF N!NsSpec

(***************************************************************************)
(* The fetching of an address.  As long as the first attempt is under way  *)
(* UrlGetter sends the way the address says; the fallback is that of a GET    *)
(* with a certificate problem; and a repetition follows on either of them. *)
(***************************************************************************)
IsSend(s) ==
    s = [scheme |-> s.scheme, method |-> s.method, body |-> s.body, attempt |-> s.attempt,
         hop |-> s.hop]

SameScheme == \A i \in DOMAIN sent : ~sent[i].hop => sent[i].scheme = url.scheme

FellBack == call.method = "GET" /\ seen[1] = "certificate"

GetterTyped ==
    /\ \E S : sent \in Seq(S)
    /\ seen \in Seq(U!Statuses \cup U!Errors)
    /\ \A i \in DOMAIN sent : IsSend(sent[i])
    /\ sent # <<>> => ~sent[1].hop
    /\ url = [scheme |-> url.scheme, path |-> url.path]

AttemptsInOrder ==
    /\ at = "new" => sent = <<>> /\ seen = <<>>
    /\ at = "first" => /\ sent # <<>> /\ seen = <<>> /\ SameScheme
                       /\ \A i \in DOMAIN sent : sent[i].attempt = "first"
    /\ at = "fallback" => sent # <<>> /\ Len(seen) = 1 /\ FellBack
    /\ at = "again" => sent # <<>> /\ Len(seen) >= 1 /\ (FellBack \/ (seen[1] \in U!Refused /\ SameScheme))

GetterInv == GetterTyped /\ AttemptsInOrder /\ U!FetchesAsAsked

\* What went out, and one request more.
LEMMA OneMore ==
    ASSUME NEW x, \E S : sent \in Seq(S)
    PROVE  /\ \E S : Append(sent, x) \in Seq(S)
           /\ Append(sent, x) # <<>>
           /\ \A i \in DOMAIN Append(sent, x) :
                 (i \in DOMAIN sent /\ Append(sent, x)[i] = sent[i]) \/ Append(sent, x)[i] = x
           /\ sent # <<>> => Append(sent, x)[1] = sent[1] /\ 1 \in DOMAIN sent /\ Len(sent) \in DOMAIN sent
           /\ sent = <<>> => Append(sent, x)[1] = x
<1>1. PICK S : sent \in Seq(S)
    OBVIOUS
<1>2. sent \in Seq(S \cup {x})
    BY <1>1
<1> DEFINE T_ == S \cup {x}
<1>3. x \in T_ /\ sent \in Seq(T_)
    BY <1>2
<1> HIDE DEF T_
<1>4. /\ Append(sent, x) \in Seq(T_) /\ Len(sent) \in Nat /\ Len(Append(sent, x)) = Len(sent) + 1
      /\ DOMAIN sent = 1 .. Len(sent) /\ DOMAIN Append(sent, x) = 1 .. Len(sent) + 1
      /\ \A i \in 1 .. Len(sent) : Append(sent, x)[i] = sent[i]
      /\ Append(sent, x)[Len(sent) + 1] = x
    BY <1>3, AppendProperties
<1>5. sent # <<>> => 1 \in 1 .. Len(sent) /\ Len(sent) \in 1 .. Len(sent)
    BY <1>3, <1>4
<1>6. sent = <<>> => Len(sent) = 0
    BY <1>3
<1>7. Append(sent, x) # <<>>
    BY <1>4
<1>8. \A i \in 1 .. Len(sent) + 1 : i \in 1 .. Len(sent) \/ i = Len(sent) + 1
    BY <1>4
<1> QED BY <1>4, <1>5, <1>6, <1>7, <1>8

\* The outcomes, and one more.
LEMMA OneMoreSeen ==
    ASSUME NEW o \in U!Statuses \cup U!Errors, GetterTyped
    PROVE  /\ Append(seen, o) \in Seq(U!Statuses \cup U!Errors) /\ Len(Append(seen, o)) = Len(seen) + 1
           /\ Append(seen, o)[Len(Append(seen, o))] = o /\ Len(seen) \in Nat
           /\ seen # <<>> => Append(seen, o)[1] = seen[1]
           /\ seen = <<>> => Append(seen, o)[1] = o /\ Len(seen) = 0
<1> DEFINE O == U!Statuses \cup U!Errors
<1>1. seen \in Seq(O) /\ o \in O
    BY DEF GetterTyped
<1> HIDE DEF O
<1>2. /\ Append(seen, o) \in Seq(O) /\ Len(seen) \in Nat /\ Len(Append(seen, o)) = Len(seen) + 1
      /\ \A i \in 1 .. Len(seen) : Append(seen, o)[i] = seen[i]
      /\ Append(seen, o)[Len(seen) + 1] = o
    BY <1>1, AppendProperties
<1>3. seen # <<>> => 1 \in 1 .. Len(seen)
    BY <1>1, <1>2
<1>4. seen = <<>> => Len(seen) = 0
    BY <1>1
<1> QED BY <1>2, <1>3, <1>4 DEF O

\* A request that is sent.
LEMMA DoSends ==
    ASSUME GetterTyped, NEW u, NEW attempt, u = [scheme |-> u.scheme, path |-> u.path], U!Do(u, attempt)
    PROVE  /\ at' = attempt /\ url' = u /\ sent' # <<>> /\ \E S : sent' \in Seq(S)
           /\ \A i \in DOMAIN sent' : IsSend(sent'[i])
           /\ \A i \in DOMAIN sent' : \/ i \in DOMAIN sent /\ sent'[i] = sent[i]
                                      \/ sent'[i].scheme = u.scheme /\ sent'[i].attempt = attempt
           /\ sent # <<>> => sent'[1] = sent[1] /\ 1 \in DOMAIN sent
           /\ sent = <<>> => sent'[1].scheme = u.scheme /\ DOMAIN sent = {}
           /\ ~sent'[1].hop
<1>1. PICK x : x = [scheme |-> u.scheme, method |-> call.method,
                    body |-> call.method = "POST" /\ sent = <<>>, attempt |-> attempt,
                    hop |-> FALSE]
    OBVIOUS
<1>2. at' = attempt /\ url' = u /\ sent' = Append(sent, x)
    BY <1>1 DEF U!Do
<1>3. IsSend(x) /\ x.scheme = u.scheme /\ x.attempt = attempt /\ ~x.hop
    BY <1>1 DEF IsSend
<1>4. sent = <<>> => DOMAIN sent = {}
    OBVIOUS
<1> QED BY <1>2, <1>3, <1>4, OneMore DEF GetterTyped

\* What the attempts so far say of what was sent; until the first answer, that
\* it was all sent alike.
LEMMA SoFar ==
    ASSUME GetterInv, at \in {"new", "first", "fallback", "again"}, NEW o \in U!Statuses \cup U!Errors
    PROVE  /\ \A i \in DOMAIN sent : ~sent[i].hop /\ sent[i].scheme # sent[1].scheme =>
                  call.method = "GET" /\ seen[1] = "certificate" /\ Append(seen, o)[1] = "certificate"
           /\ \A i \in DOMAIN sent : call.method = "POST" /\ sent[i].attempt # "first" =>
                  seen[1] \in U!Refused /\ Append(seen, o)[1] \in U!Refused
<1>1. at \in {"fallback", "again"} => seen # <<>>
    <2>1. seen = <<>> => Len(seen) = 0
        OBVIOUS
    <2> QED BY <2>1 DEF GetterInv, AttemptsInOrder
<1>2. seen # <<>> => Append(seen, o)[1] = seen[1]
    BY OneMoreSeen DEF GetterInv
<1>3. ASSUME NEW i \in DOMAIN sent, at \in {"new", "first"}
      PROVE  (~sent[i].hop => sent[i].scheme = sent[1].scheme) /\ sent[i].attempt = "first"
    <2>1. sent # <<>>
        BY <1>3
    <2>2. at = "first" /\ 1 \in DOMAIN sent
        BY <1>3, <2>1, OneMore DEF GetterInv, GetterTyped, AttemptsInOrder
    <2> QED BY <1>3, <2>1, <2>2 DEF GetterInv, GetterTyped, AttemptsInOrder, SameScheme
<1>4. ASSUME NEW i \in DOMAIN sent, ~sent[i].hop, sent[i].scheme # sent[1].scheme
      PROVE  call.method = "GET" /\ seen[1] = "certificate" /\ Append(seen, o)[1] = "certificate"
    BY <1>1, <1>2, <1>3, <1>4 DEF GetterInv, U!FetchesAsAsked
<1>5. ASSUME NEW i \in DOMAIN sent, call.method = "POST", sent[i].attempt # "first"
      PROVE  seen[1] \in U!Refused /\ Append(seen, o)[1] \in U!Refused
    BY <1>1, <1>2, <1>3, <1>5 DEF GetterInv, U!FetchesAsAsked
<1> QED BY <1>4, <1>5

\* A result that is returned; a body from the server only after a 200.
LEMMA ReturnKeeps ==
    ASSUME GetterInv, at \in {"new", "first", "fallback", "again"}, NEW result, U!Return(result),
           UNCHANGED call, url' = [scheme |-> url'.scheme, path |-> url'.path],
           NEW o \in U!Statuses \cup U!Errors,
           seen' = Append(seen, o) \/ seen' = seen, result.from = "server" => o = "200" /\ seen' = Append(seen, o)
    PROVE  GetterInv'
<1>1. at' = "returned" /\ got' = result /\ sent' = sent
    BY DEF U!Return
<1>2. GetterTyped'
    BY <1>1, OneMoreSeen DEF GetterInv, GetterTyped
<1>3. AttemptsInOrder'
    BY <1>1 DEF AttemptsInOrder
<1>4. /\ (\E i \in DOMAIN sent' : ~sent'[i].hop /\ sent'[i].scheme # sent'[1].scheme) => call'.method = "GET" /\ seen'[1] = "certificate"
      /\ call'.method = "POST" /\ (\E i \in DOMAIN sent' : sent'[i].attempt # "first") => seen'[1] \in U!Refused
    BY <1>1, SoFar
<1>5. got'.from = "server" => seen'[Len(seen')] = "200"
    BY <1>1, OneMoreSeen DEF GetterInv
<1> QED BY <1>2, <1>3, <1>4, <1>5 DEF GetterInv, U!FetchesAsAsked

\* What goes out again after a refused attempt keeps to the scheme.
LEMMA AgainKeeps ==
    ASSUME GetterInv, at \in {"first", "fallback"}, NEW o \in U!Refused, UNCHANGED call, seen' = Append(seen, o),
           NEW u, u = [scheme |-> url.scheme, path |-> u.path], U!Do(u, "again")
    PROVE  GetterInv'
<1>2. u = [scheme |-> u.scheme, path |-> u.path] /\ u.scheme = url.scheme
    OBVIOUS
<1>3. /\ at' = "again" /\ url' = u /\ sent' # <<>> /\ \E S : sent' \in Seq(S)
      /\ \A i \in DOMAIN sent' : IsSend(sent'[i])
      /\ \A i \in DOMAIN sent' : \/ i \in DOMAIN sent /\ sent'[i] = sent[i]
                                 \/ sent'[i].scheme = u.scheme /\ sent'[i].attempt = "again"
      /\ sent'[1] = sent[1] /\ 1 \in DOMAIN sent /\ ~sent'[1].hop
    BY <1>2, DoSends DEF GetterInv, AttemptsInOrder
<1>4. o \in U!Statuses \cup U!Errors
    BY DEF U!Statuses
<1>5. GetterTyped'
    BY <1>2, <1>3, <1>4, OneMoreSeen DEF GetterInv, GetterTyped
<1>6. CASE at = "first"
    <2>1. seen = <<>> /\ SameScheme /\ seen'[1] = o /\ Len(seen') = 1
        BY <1>4, <1>6, OneMoreSeen DEF GetterInv, AttemptsInOrder
    <2>2. \A i \in DOMAIN sent' : ~sent'[i].hop => sent'[i].scheme = url'.scheme
        BY <1>2, <1>3, <2>1 DEF SameScheme
    <2>3. sent'[1].scheme = url'.scheme
        BY <1>2, <1>3, <2>1 DEF SameScheme
    <2>4. AttemptsInOrder'
        BY <1>3, <2>1, <2>2 DEF AttemptsInOrder, SameScheme
    <2>5. U!FetchesAsAsked'
        BY <1>3, <2>1, <2>2, <2>3 DEF U!FetchesAsAsked
    <2> QED BY <1>5, <2>4, <2>5 DEF GetterInv
<1>7. CASE at = "fallback"
    <2>1. /\ FellBack /\ seen # <<>> /\ Len(seen) = 1
        <3>1. seen = <<>> => Len(seen) = 0
            OBVIOUS
        <3> QED BY <1>7, <3>1 DEF GetterInv, AttemptsInOrder
    <2>2. call.method = "GET" /\ seen'[1] = "certificate" /\ Len(seen') = 2
        BY <1>4, <2>1, OneMoreSeen DEF GetterInv, FellBack
    <2>3. AttemptsInOrder'
        BY <1>3, <2>2 DEF AttemptsInOrder, FellBack
    <2>4. U!FetchesAsAsked'
        BY <1>3, <2>2 DEF U!FetchesAsAsked
    <2> QED BY <1>5, <2>3, <2>4 DEF GetterInv
<1> QED BY <1>6, <1>7

\* What the attempts do with an answer.
LEMMA StatusKeeps ==
    ASSUME GetterInv, at \in {"first", "fallback"}, NEW o \in U!Statuses, UNCHANGED call, seen' = Append(seen, o),
           U!AfterStatus(o)
    PROVE  GetterInv'
<1>1. CASE o = "200" /\ U!ReadBody /\ UNCHANGED url
    <2>1. PICK result \in {U!Body("server"), U!Failure} : U!Return(result)
        BY <1>1 DEF U!ReadBody
    <2> QED BY <1>1, <2>1, ReturnKeeps DEF GetterInv, GetterTyped
<1>2. CASE o \in U!Refused /\ U!Do([url EXCEPT !.path = IF @ = "" THEN "/" ELSE @], "again")
    <2>1. PICK u : u = [url EXCEPT !.path = IF @ = "" THEN "/" ELSE @]
        OBVIOUS
    <2>2. u = [scheme |-> url.scheme, path |-> u.path]
        BY <2>1 DEF GetterInv, GetterTyped
    <2>3. U!Do(u, "again")
        BY <1>2, <2>1
    <2> QED BY <1>2, <2>2, <2>3, AgainKeeps
<1>3. CASE U!Return(U!Failure) /\ UNCHANGED url
    BY <1>3, ReturnKeeps DEF GetterInv, GetterTyped, U!Failure
<1> QED BY <1>1, <1>2, <1>3 DEF U!AfterStatus

LEMMA PrepareKeeps == ASSUME GetterInv, U!Prepare PROVE GetterInv'
<1>1. at = "new" /\ sent = <<>> /\ seen = <<>> /\ UNCHANGED <<call, seen>>
    BY DEF U!Prepare, GetterInv, AttemptsInOrder
<1>2. PICK u : u = U!Standardized
    OBVIOUS
<1>3. u = [scheme |-> u.scheme, path |-> u.path]
    BY <1>2 DEF U!Standardized, GetterInv, GetterTyped
<1>4. "200" \in U!Statuses \cup U!Errors
    BY DEF U!Statuses
<1>5. CASE U!Return(U!EarlyFailure) /\ UNCHANGED url
    <2>1. U!EarlyFailure.from # "server"
        BY DEF U!EarlyFailure, U!Failure
    <2> QED BY <1>1, <1>4, <1>5, <2>1, ReturnKeeps DEF GetterInv, GetterTyped
<1>6. CASE U!Return([U!Body("memory") EXCEPT !.mod = "none"]) /\ url' = U!Standardized
    <2>1. [U!Body("memory") EXCEPT !.mod = "none"].from # "server"
        BY DEF U!Body
    <2> QED BY <1>1, <1>2, <1>3, <1>4, <1>6, <2>1, ReturnKeeps
<1>7. CASE U!Do(U!Standardized, "first")
    <2>1. /\ at' = "first" /\ url' = u /\ sent' # <<>> /\ \E S : sent' \in Seq(S)
          /\ \A i \in DOMAIN sent' : IsSend(sent'[i])
          /\ \A i \in DOMAIN sent' : sent'[i].scheme = u.scheme /\ sent'[i].attempt = "first"
          /\ sent'[1].scheme = u.scheme /\ ~sent'[1].hop
        BY <1>1, <1>2, <1>3, <1>7, DoSends DEF GetterInv
    <2>2. GetterTyped'
        BY <1>1, <1>3, <2>1 DEF GetterInv, GetterTyped
    <2>3. AttemptsInOrder'
        BY <1>1, <2>1 DEF AttemptsInOrder, SameScheme
    <2>4. U!FetchesAsAsked'
        BY <2>1 DEF U!FetchesAsAsked
    <2> QED BY <2>2, <2>3, <2>4 DEF GetterInv
<1> QED BY <1>5, <1>6, <1>7 DEF U!Prepare

\* A redirect belongs to the attempt of the request before it.
LEMMA RedirectKeeps == ASSUME GetterInv, U!Redirect PROVE GetterInv'
<1>1. at \in {"first", "fallback", "again"} /\ UNCHANGED <<call, url, at, seen, got>>
    BY DEF U!Redirect
<1> DEFINE last == sent[Len(sent)]
<1>2. PICK scheme \in {"http", "https"}, method \in {"GET", last.method} :
          sent' = Append(sent, [last EXCEPT !.scheme = scheme, !.method = method, !.hop = TRUE,
                                            !.body = @ /\ method = "POST"])
    BY DEF U!Redirect
<1>3. PICK x : /\ sent' = Append(sent, x)
               /\ x = [last EXCEPT !.scheme = scheme, !.method = method, !.hop = TRUE,
                                   !.body = @ /\ method = "POST"]
    BY <1>2
<1>4. sent # <<>> /\ Len(sent) \in DOMAIN sent /\ 1 \in DOMAIN sent
    BY <1>1, OneMore DEF GetterInv, GetterTyped, AttemptsInOrder
<1>5. IsSend(last)
    BY <1>4 DEF GetterInv, GetterTyped
<1> HIDE DEF last
<1>6. IsSend(x) /\ x.hop /\ x.attempt = last.attempt
    BY <1>3, <1>5 DEF IsSend
<1>8. /\ \E S : sent' \in Seq(S)
      /\ sent' # <<>> /\ sent'[1] = sent[1]
      /\ \A i \in DOMAIN sent' : (i \in DOMAIN sent /\ sent'[i] = sent[i]) \/ sent'[i] = x
    BY <1>3, <1>4, OneMore DEF GetterInv, GetterTyped
<1>9. \A i \in DOMAIN sent' : \E j \in DOMAIN sent :
          /\ sent'[i].attempt = sent[j].attempt
          /\ sent'[i].hop \/ (sent'[i].scheme = sent[j].scheme /\ ~sent[j].hop)
    <2> SUFFICES ASSUME NEW i \in DOMAIN sent'
                 PROVE  \E j \in DOMAIN sent :
                            /\ sent'[i].attempt = sent[j].attempt
                            /\ sent'[i].hop \/ (sent'[i].scheme = sent[j].scheme /\ ~sent[j].hop)
        OBVIOUS
    <2>1. CASE i \in DOMAIN sent /\ sent'[i] = sent[i]
        <3>1. sent[i].hop \/ ~sent[i].hop
            OBVIOUS
        <3> QED BY <2>1, <3>1
    <2>2. CASE sent'[i] = x
        BY <1>4, <1>6, <2>2 DEF last
    <2> QED BY <1>8, <2>1, <2>2
<1>10. GetterTyped'
    BY <1>1, <1>4, <1>6, <1>8 DEF GetterInv, GetterTyped
<1>11. AttemptsInOrder'
    BY <1>1, <1>8, <1>9 DEF GetterInv, AttemptsInOrder, SameScheme, FellBack
<1>12. U!FetchesAsAsked'
    BY <1>1, <1>8, <1>9 DEF GetterInv, U!FetchesAsAsked
<1> QED BY <1>10, <1>11, <1>12 DEF GetterInv

\* A GET with a certificate problem leaves https.
LEMMA FallbackKeeps ==
    ASSUME GetterInv, at = "first", NEW o \in U!Statuses \cup U!Errors, UNCHANGED call, seen' = Append(seen, o),
           U!MayFallBack(o), U!Do([url EXCEPT !.scheme = "http"], "fallback")
    PROVE  GetterInv'
<1>1. PICK u : u = [url EXCEPT !.scheme = "http"]
    OBVIOUS
<1>2. u = [scheme |-> u.scheme, path |-> u.path]
    BY <1>1 DEF GetterInv, GetterTyped
<1>3. /\ at' = "fallback" /\ url' = u /\ sent' # <<>> /\ \E S : sent' \in Seq(S)
      /\ \A i \in DOMAIN sent' : IsSend(sent'[i])
      /\ ~sent'[1].hop
    BY <1>1, <1>2, DoSends DEF GetterInv
<1>4. o = "certificate" /\ call.method = "GET"
    BY DEF U!MayFallBack, U!HTTPSProblem
<1>5. seen'[1] = "certificate" /\ Len(seen') = 1
    BY <1>4, OneMoreSeen DEF GetterInv, AttemptsInOrder
<1>6. GetterTyped'
    BY <1>2, <1>3, OneMoreSeen DEF GetterInv, GetterTyped
<1>7. AttemptsInOrder'
    BY <1>3, <1>4, <1>5 DEF AttemptsInOrder, FellBack
<1>8. U!FetchesAsAsked'
    BY <1>3, <1>4, <1>5 DEF U!FetchesAsAsked
<1> QED BY <1>6, <1>7, <1>8 DEF GetterInv

LEMMA GetterStarts == U!UrlInit => GetterInv
<1> SUFFICES ASSUME U!UrlInit PROVE GetterInv
    OBVIOUS
<1>1. at = "new" /\ sent = <<>> /\ seen = <<>> /\ got = U!Failure
    BY DEF U!UrlInit
<1>2. DOMAIN sent = {} /\ sent \in Seq({}) /\ seen \in Seq(U!Statuses \cup U!Errors)
    BY <1>1
<1>3. url = [scheme |-> url.scheme, path |-> url.path]
    BY DEF U!UrlInit
<1>4. GetterTyped
    BY <1>2, <1>3 DEF GetterTyped
<1> QED BY <1>1, <1>2, <1>4 DEF GetterInv, AttemptsInOrder, U!FetchesAsAsked

LEMMA GetterGoesOn == GetterInv /\ [U!UrlNext]_U!getterVars => GetterInv'
<1> SUFFICES ASSUME GetterInv, [U!UrlNext]_U!getterVars PROVE GetterInv'
    OBVIOUS
<1>1. CASE U!First
    <2>1. at = "first" /\ UNCHANGED call
        BY <1>1 DEF U!First
    <2>2. PICK o \in U!Statuses \cup U!Errors :
              /\ U!Outcome(o)
              /\ \/ o \in U!Statuses /\ U!AfterStatus(o)
                 \/ U!Swallowed(o) /\ U!Return(U!SwallowedRedirect) /\ UNCHANGED url
                 \/ U!MayFallBack(o) /\ U!Do([url EXCEPT !.scheme = "http"], "fallback") /\ UNCHANGED got
                 \/ o \in U!Errors /\ ~U!Swallowed(o) /\ ~U!MayFallBack(o) /\ U!Return(U!Failure) /\ UNCHANGED url
        BY <1>1 DEF U!First
    <2>3. seen' = Append(seen, o)
        BY <2>2 DEF U!Outcome
    <2>4. CASE o \in U!Statuses /\ U!AfterStatus(o)
        BY <2>1, <2>3, <2>4, StatusKeeps
    <2>5. CASE U!Return(U!SwallowedRedirect) /\ UNCHANGED url
        <3>1. U!SwallowedRedirect.from # "server"
            BY DEF U!SwallowedRedirect
        <3> QED BY <2>1, <2>3, <2>5, <3>1, ReturnKeeps DEF GetterInv, GetterTyped
    <2>6. CASE U!MayFallBack(o) /\ U!Do([url EXCEPT !.scheme = "http"], "fallback")
        BY <2>1, <2>3, <2>6, FallbackKeeps
    <2>7. CASE U!Return(U!Failure) /\ UNCHANGED url
        BY <2>1, <2>3, <2>7, ReturnKeeps DEF GetterInv, GetterTyped, U!Failure
    <2> QED BY <2>2, <2>4, <2>5, <2>6, <2>7
<1>2. CASE U!Fallback
    <2>1. at = "fallback" /\ UNCHANGED call
        BY <1>2 DEF U!Fallback
    <2>2. PICK o \in U!Statuses \cup U!Errors :
              /\ U!Outcome(o)
              /\ \/ o \in U!Statuses /\ U!AfterStatus(o)
                 \/ U!Swallowed(o) /\ U!Return(U!SwallowedRedirect) /\ UNCHANGED url
                 \/ o \in U!Errors /\ ~U!Swallowed(o) /\ U!Return(U!Failure) /\ UNCHANGED url
        BY <1>2 DEF U!Fallback
    <2>3. seen' = Append(seen, o)
        BY <2>2 DEF U!Outcome
    <2>4. CASE o \in U!Statuses /\ U!AfterStatus(o)
        BY <2>1, <2>3, <2>4, StatusKeeps
    <2>5. CASE U!Return(U!SwallowedRedirect) /\ UNCHANGED url
        <3>1. U!SwallowedRedirect.from # "server"
            BY DEF U!SwallowedRedirect
        <3> QED BY <2>1, <2>3, <2>5, <3>1, ReturnKeeps DEF GetterInv, GetterTyped
    <2>6. CASE U!Return(U!Failure) /\ UNCHANGED url
        BY <2>1, <2>3, <2>6, ReturnKeeps DEF GetterInv, GetterTyped, U!Failure
    <2> QED BY <2>2, <2>4, <2>5, <2>6
<1>3. CASE U!Again
    <2>1. at = "again" /\ UNCHANGED <<call, url>>
        BY <1>3 DEF U!Again
    <2>2. PICK o \in U!Statuses \cup U!Errors :
              U!Outcome(o) /\ IF o = "200" THEN U!ReadBody ELSE U!Return(U!Failure)
        BY <1>3 DEF U!Again
    <2>3. seen' = Append(seen, o)
        BY <2>2 DEF U!Outcome
    <2>4. PICK result \in {U!Body("server"), U!Failure} :
              U!Return(result) /\ (result.from = "server" => o = "200")
        <3>1. U!Failure.from # "server"
            BY DEF U!Failure
        <3> QED BY <2>2, <3>1 DEF U!ReadBody
    <2> QED BY <2>1, <2>3, <2>4, ReturnKeeps DEF GetterInv, GetterTyped
<1>4. CASE U!handleFetchURL \/ U!requestPay
    <2>1. at' = "shown" /\ UNCHANGED <<call, url, sent, seen>>
        BY <1>4 DEF U!handleFetchURL, U!requestPay, U!Show
    <2> QED BY <2>1 DEF GetterInv, GetterTyped, AttemptsInOrder, U!FetchesAsAsked
<1>5. CASE UNCHANGED U!getterVars
    BY <1>5 DEF U!getterVars, GetterInv, GetterTyped, AttemptsInOrder, SameScheme, FellBack, U!FetchesAsAsked
<1> QED
    BY <1>1, <1>2, <1>3, <1>4, <1>5, PrepareKeeps, RedirectKeeps DEF U!UrlNext

(***************************************************************************)
(* UrlGetter itself leaves https only for a GET with a certificate problem,*)
(* sends a POST again only after a refusal, and returns a server's body    *)
(* only after a 200, whatever the callers ask for, and wherever servers    *)
(* redirect (unified_requester.go:185).                                    *)
(***************************************************************************)
THEOREM FetchesKeepToTheRequest == U!UrlSpec => []FetchesAsAsked
<1>1. GetterInv => FetchesAsAsked
    BY DEF GetterInv, FetchesAsAsked
<1> QED
    BY GetterStarts, GetterGoesOn, <1>1, PTL DEF U!UrlSpec

(***************************************************************************)
(* The site.  While the publisher works, what up2ds sends has the version  *)
(* that it publishes.  On a target that had its turn and is not spoilt at  *)
(* most one upload runs, it brings what the publisher sent, and all of     *)
(* that is there, but for what the publisher's own upload still brings.    *)
(***************************************************************************)
Zips == [Names -> Nat]
Jobs == [pc : {"unpacking", "ended"}, zip : Zips, left : SUBSET DOMAIN Entries]
Publishers == [pc : {"resting", "next", "curl", "resets", "completed"}, zip : Zips,
               left : SUBSET Targets, target : Targets \cup {"none"}, job : Nat]

SiteTyped ==
    /\ version \in Nat /\ statified \in Zips
    /\ publisher \in Publishers
    /\ store \in [Targets -> Zips]
    /\ jobs \in [Targets -> Seq(Jobs)]

OneVersion ==
    publisher.pc # "resting" =>
        version # Absent /\ \A n \in Names : n \in SiteOf[version] => publisher.zip[n] \in {version, Absent}

TurnsTaken == publisher.pc = "completed" => publisher.left = {}

\* What is left to unpack is there.
Packed ==
    \A t \in Targets : \A i \in DOMAIN jobs[t] : \A p \in jobs[t][i].left : jobs[t][i].zip[Entries[p]] # Absent

HadTurn(t) == publisher.pc # "resting" /\ t \notin publisher.left /\ t \notin spoilt

\* The publisher's own upload still has to bring it.
OnItsWay(t, n) ==
    /\ publisher.pc = "curl" /\ publisher.target = t /\ publisher.job \in Running(t)
    /\ \E p \in jobs[t][publisher.job].left : Entries[p] = n

Brings(t, i) ==
    \A p \in jobs[t][i].left : publisher.zip[Entries[p]] \in {jobs[t][i].zip[Entries[p]], Absent}

TargetsFilled ==
    \A t \in Targets : HadTurn(t) =>
        /\ \A i, j \in Running(t) : i = j
        /\ \A i \in Running(t) : Brings(t, i)
        /\ \A n \in Names : publisher.zip[n] # Absent => store[t][n] = publisher.zip[n] \/ OnItsWay(t, n) \/ PutBack(t, n)

IsVisit(x) ==
    x = [pc |-> x.pc, target |-> x.target, name |-> x.name, hadIndex |-> x.hadIndex, failed |-> x.failed,
         held |-> x.held, saved |-> x.saved, answer |-> x.answer, parsed |-> x.parsed]

\* Until it is looked for, an index file that was there is still there.  What
\* is put back is a file of a target.
Served(x) ==
    /\ x.pc = "open" => x.target \in Targets /\ x.name \in Names
    /\ x.pc = "index" => x.target \in Targets /\ x.name \in Dirs
    /\ x.pc \in {"read", "closing"} => x.target \in Targets /\ x.name \in Names /\ x.held \in Nat \ {Absent}
    /\ x.saved => x.pc = "answered" /\ x.held # Absent
    /\ x.pc \in {"open", "index"} =>
          /\ x.answer = "none"
          /\ x.hadIndex => x.target \in Targets /\ x.name \in Dirs /\ store[x.target][IndexOf[x.name]] # Absent
    /\ x.pc = "list" /\ x.hadIndex => x.failed
    /\ x.answer \in {"json", "html"} /\ x.hadIndex => x.failed

VisitorsServed ==
    /\ \E S : visitor \in [Visitors -> S]
    /\ \A v \in Visitors : IsVisit(visitor[v]) /\ Served(visitor[v])

SiteInv == SiteTyped /\ OneVersion /\ TurnsTaken /\ Packed /\ TargetsFilled /\ VisitorsServed

\* An upload that reaches a target.
LEMMA ArrivesForm ==
    ASSUME SiteTyped, NEW t \in Targets, NEW zip \in Zips, Arrives(t, zip)
    PROVE  /\ jobs' \in [Targets -> Seq(Jobs)]
           /\ DOMAIN jobs'[t] = DOMAIN jobs[t] \cup {Len(jobs[t]) + 1} /\ Len(jobs[t]) + 1 \notin DOMAIN jobs[t]
           /\ jobs'[t][Len(jobs[t]) + 1].pc = "unpacking" /\ jobs'[t][Len(jobs[t]) + 1].zip = zip
           /\ jobs'[t][Len(jobs[t]) + 1].left = {p \in DOMAIN Entries : zip[Entries[p]] # Absent}
           /\ Len(jobs[t]) + 1 \in Nat
           /\ \A i \in DOMAIN jobs[t] : jobs'[t][i] = jobs[t][i]
           /\ \A u \in Targets \ {t} : jobs'[u] = jobs[u]
<1>1. PICK j : j = [pc |-> "unpacking", zip |-> zip, left |-> {p \in DOMAIN Entries : zip[Entries[p]] # Absent}]
    OBVIOUS
<1>2. j \in Jobs
    <2>1. {p \in DOMAIN Entries : zip[Entries[p]] # Absent} \in SUBSET DOMAIN Entries
        OBVIOUS
    <2> QED BY <1>1, <2>1 DEF Jobs
<1>3. jobs' = [jobs EXCEPT ![t] = Append(jobs[t], j)]
    BY <1>1 DEF Arrives
<1> DEFINE q == jobs[t]
<1>4. q \in Seq(Jobs) /\ jobs \in [Targets -> Seq(Jobs)]
    BY DEF SiteTyped
<1>5. jobs' = [jobs EXCEPT ![t] = Append(q, j)]
    BY <1>3
<1> HIDE DEF q
<1>6. /\ Append(q, j) \in Seq(Jobs) /\ Len(q) \in Nat /\ Len(Append(q, j)) = Len(q) + 1
      /\ DOMAIN q = 1 .. Len(q) /\ DOMAIN Append(q, j) = 1 .. Len(q) + 1
      /\ \A i \in 1 .. Len(q) : Append(q, j)[i] = q[i]
      /\ Append(q, j)[Len(q) + 1] = j
    BY <1>2, <1>4, AppendProperties
<1>7. /\ jobs' \in [Targets -> Seq(Jobs)] /\ jobs'[t] = Append(q, j)
      /\ \A u \in Targets \ {t} : jobs'[u] = jobs[u]
    BY <1>4, <1>5, <1>6
<1>8. 1 .. Len(q) + 1 = 1 .. Len(q) \cup {Len(q) + 1} /\ Len(q) + 1 \notin 1 .. Len(q) /\ Len(q) + 1 \in Nat
    BY <1>6
<1>9. j.pc = "unpacking" /\ j.zip = zip /\ j.left = {p \in DOMAIN Entries : zip[Entries[p]] # Absent}
    BY <1>1
<1>10. /\ DOMAIN jobs'[t] = DOMAIN q \cup {Len(q) + 1} /\ jobs'[t][Len(q) + 1] = j
       /\ \A i \in DOMAIN q : jobs'[t][i] = q[i]
    BY <1>6, <1>7, <1>8
<1> QED BY <1>6, <1>7, <1>8, <1>9, <1>10 DEF q

\* An upload that gets on.
LEMMA JobForm ==
    ASSUME SiteTyped, NEW t \in Targets, NEW i \in DOMAIN jobs[t], NEW j \in Jobs, jobs' = [jobs EXCEPT ![t][i] = j]
    PROVE  /\ jobs' \in [Targets -> Seq(Jobs)] /\ DOMAIN jobs'[t] = DOMAIN jobs[t] /\ jobs'[t][i] = j
           /\ \A k \in DOMAIN jobs[t] \ {i} : jobs'[t][k] = jobs[t][k]
           /\ \A u \in Targets \ {t} : jobs'[u] = jobs[u]
<1> DEFINE q == jobs[t]
<1>1. q \in Seq(Jobs) /\ i \in DOMAIN q /\ jobs \in [Targets -> Seq(Jobs)]
    BY DEF SiteTyped
<1>2. jobs' = [jobs EXCEPT ![t] = [q EXCEPT ![i] = j]]
    OBVIOUS
<1> HIDE DEF q
<1>3. [q EXCEPT ![i] = j] \in Seq(Jobs)
    BY <1>1, ExceptSeq
<1> DEFINE r == [q EXCEPT ![i] = j]
<1>4. DOMAIN r = DOMAIN q /\ r[i] = j /\ \A k \in DOMAIN q \ {i} : r[k] = q[k]
    BY <1>1
<1>5. r \in Seq(Jobs) /\ jobs' = [jobs EXCEPT ![t] = r]
    BY <1>2, <1>3
<1> HIDE DEF r
<1>6. jobs' \in [Targets -> Seq(Jobs)] /\ jobs'[t] = r /\ \A u \in Targets \ {t} : jobs'[u] = jobs[u]
    BY <1>1, <1>5
<1> QED BY <1>4, <1>6 DEF q

\* Visitors of a site that no file vanishes from.
LEMMA VisitorsKeep ==
    ASSUME VisitorsServed, UNCHANGED visitor,
           \A t \in Targets : \A n \in Names : store[t][n] # Absent => store'[t][n] # Absent
    PROVE  VisitorsServed'
BY SiteAssumption DEF VisitorsServed, Served

\* What is said of the targets that a step leaves alone.
LEMMA TargetKeeps ==
    ASSUME NEW t \in Targets, TargetsFilled, HadTurn(t), jobs'[t] = jobs[t], store'[t] = store[t],
           publisher'.zip = publisher.zip, UNCHANGED visitor,
           \A n \in Names : OnItsWay(t, n) => OnItsWay(t, n)'
    PROVE  /\ \A i, j \in Running(t)' : i = j
           /\ \A i \in Running(t)' : Brings(t, i)'
           /\ \A n \in Names : publisher'.zip[n] # Absent => store'[t][n] = publisher'.zip[n] \/ OnItsWay(t, n)' \/ PutBack(t, n)'
<1>1. Running(t)' = Running(t)
    BY DEF Running
<1>2. \A i \in Running(t) : Brings(t, i)
    BY DEF TargetsFilled
<1>3. \A i \in Running(t)' : Brings(t, i)'
    BY <1>1, <1>2 DEF Brings
<1>4. \A n \in Names : PutBack(t, n) => PutBack(t, n)'
    BY DEF PutBack, Asked
<1> QED BY <1>1, <1>3, <1>4 DEF TargetsFilled

LEMMA SiteStarts == ServerInit => SiteInv
<1> SUFFICES ASSUME ServerInit PROVE SiteInv
    OBVIOUS
<1> DEFINE none == [n \in Names |-> Absent]
<1>1. none \in Zips /\ <<>> \in Seq(Jobs) /\ DOMAIN <<>> = {}
    BY DEF Zips, Absent
<1>2. version = 0 /\ statified = none /\ publisher = Resting /\ spoilt = {}
    BY DEF ServerInit, PublishInit
<1>3. store = [t \in Targets |-> none] /\ jobs = [t \in Targets |-> <<>>]
    BY DEF ServerInit, PublishInit
<1>4. publisher = [pc |-> "resting", zip |-> none, left |-> {}, target |-> "none", job |-> 0]
    BY <1>2 DEF Resting
<1> HIDE DEF none
<1>5. publisher \in Publishers /\ publisher.pc = "resting"
    BY <1>1, <1>4 DEF Publishers
<1>6. store \in [Targets -> Zips] /\ jobs \in [Targets -> Seq(Jobs)]
    BY <1>1, <1>3
<1>7. SiteTyped
    BY <1>1, <1>2, <1>5, <1>6 DEF SiteTyped
<1>8. Packed
    BY <1>1, <1>3 DEF Packed
<1>9. VisitorsServed
    <2>1. visitor \in [Visitors -> {NoVisit}]
        BY DEF ServerInit
    <2>2. IsVisit(NoVisit) /\ NoVisit.pc = "idle" /\ NoVisit.answer = "none" /\ ~NoVisit.saved
        BY DEF NoVisit, IsVisit
    <2> QED BY <2>1, <2>2 DEF VisitorsServed, Served
<1> QED BY <1>5, <1>7, <1>8, <1>9 DEF SiteInv, OneVersion, TurnsTaken, TargetsFilled, HadTurn

LEMMA PrepareSite == ASSUME SiteInv, prepareConfigToml, UNCHANGED visitor PROVE SiteInv'
<1>1. PICK zip :
          /\ version' = version + 1 /\ UNCHANGED <<store, jobs, spoilt, visitor>>
          /\ statified' = [n \in Names |-> IF n \in SiteOf[version + 1] THEN version + 1 ELSE statified[n]]
          /\ publisher' = [pc |-> "next", left |-> Targets, target |-> "none", job |-> 0, zip |-> zip]
          /\ \E out \in SUBSET Names : zip = [n \in Names |-> IF n \in out THEN Absent ELSE statified'[n]]
    <2>1. PICK walked \in 0 .. Len(Entries) :
              publisher' = [pc |-> "next", left |-> Targets, target |-> "none", job |-> 0,
                            zip |-> [n \in Names |-> IF n \in Skipped \/ \A i \in 1 .. walked : Entries[i] # n
                                                     THEN Absent ELSE statified'[n]]]
        BY DEF prepareConfigToml
    <2> DEFINE out == {n \in Names : n \in Skipped \/ \A i \in 1 .. walked : Entries[i] # n}
    <2>2. publisher' = [pc |-> "next", left |-> Targets, target |-> "none", job |-> 0,
                        zip |-> [n \in Names |-> IF n \in out THEN Absent ELSE statified'[n]]]
        BY <2>1
    <2>3. out \in SUBSET Names
        OBVIOUS
    <2> HIDE DEF out
    <2>4. PICK zip : zip = [n \in Names |-> IF n \in out THEN Absent ELSE statified'[n]]
        OBVIOUS
    <2>5. /\ version' = version + 1 /\ UNCHANGED <<store, jobs, spoilt, visitor>>
          /\ statified' = [n \in Names |-> IF n \in SiteOf[version + 1] THEN version + 1 ELSE statified[n]]
        BY DEF prepareConfigToml, Statified
    <2>6. publisher' = [pc |-> "next", left |-> Targets, target |-> "none", job |-> 0, zip |-> zip]
        BY <2>2, <2>4
    <2> QED BY <2>3, <2>4, <2>5, <2>6
<1>2. version + 1 \in Nat /\ version + 1 # Absent /\ Absent \in Nat /\ statified \in Zips
    BY DEF SiteInv, SiteTyped, Absent
<1>3. statified' \in Zips
    BY <1>1, <1>2 DEF Zips
<1>4. zip \in Zips
    BY <1>1, <1>2, <1>3 DEF Zips
<1>5. \A n \in Names : n \in SiteOf[version'] => zip[n] \in {version', Absent}
    BY <1>1, <1>2
<1>6. publisher' \in Publishers /\ publisher'.left = Targets /\ publisher'.zip = zip /\ publisher'.pc = "next"
    BY <1>1, <1>4 DEF Publishers
<1>7. SiteTyped'
    BY <1>1, <1>2, <1>3, <1>6 DEF SiteInv, SiteTyped
<1>8. OneVersion' /\ TurnsTaken'
    BY <1>1, <1>2, <1>5, <1>6 DEF OneVersion, TurnsTaken
<1>9. TargetsFilled'
    BY <1>6 DEF TargetsFilled, HadTurn
<1>10. Packed' /\ VisitorsServed'
    BY <1>1 DEF SiteInv, Packed, VisitorsServed, Served
<1> QED BY <1>7, <1>8, <1>9, <1>10 DEF SiteInv

\* huprep takes a step that leaves the targets alone, or gives up.
LEMMA PublisherMoves ==
    ASSUME SiteInv, NEW p \in Publishers, publisher' = p,
           UNCHANGED <<version, statified, store, jobs, spoilt, visitor>>,
           \/ p.pc = "resting"
           \/ /\ publisher.pc # "resting" /\ p.zip = publisher.zip /\ p.left = publisher.left
              /\ p.pc = "completed" => p.left = {}
              /\ \A t \in Targets, n \in Names : HadTurn(t) => ~OnItsWay(t, n)
    PROVE  SiteInv'
<1>1. SiteTyped' /\ Packed' /\ VisitorsServed'
    BY DEF SiteInv, SiteTyped, Packed, VisitorsServed, Served
<1>2. OneVersion' /\ TurnsTaken'
    BY DEF SiteInv, OneVersion, TurnsTaken
<1>3. TargetsFilled'
    <2>1. ASSUME NEW t \in Targets, HadTurn(t)'
          PROVE  /\ \A i, j \in Running(t)' : i = j
                 /\ \A i \in Running(t)' : Brings(t, i)'
                 /\ \A n \in Names : publisher'.zip[n] # Absent => store'[t][n] = publisher'.zip[n] \/ OnItsWay(t, n)' \/ PutBack(t, n)'
        <3>1. /\ p.pc # "resting" /\ publisher.pc # "resting" /\ p.zip = publisher.zip /\ p.left = publisher.left
              /\ \A n \in Names : HadTurn(t) => ~OnItsWay(t, n)
            BY <2>1 DEF HadTurn
        <3>2. HadTurn(t)
            BY <2>1, <3>1 DEF HadTurn
        <3> QED BY <3>1, <3>2, TargetKeeps DEF SiteInv
    <2> QED BY <2>1 DEF TargetsFilled
<1> QED BY <1>1, <1>2, <1>3 DEF SiteInv

LEMMA PublisherSteps ==
    ASSUME SiteInv, UNCHANGED visitor,
           \/ Answered \/ Resets \/ CurlFails
           \/ /\ publisher.pc = "next" /\ publisher.left = {} /\ publisher' = [publisher EXCEPT !.pc = "completed"]
              /\ UNCHANGED <<version, statified, store, jobs, spoilt>>
    PROVE  SiteInv'
<1>1. publisher \in Publishers
    BY DEF SiteInv, SiteTyped
<1>2. CASE CurlFails
    <2>1. publisher' = Resting /\ UNCHANGED <<version, statified, store, jobs, spoilt>>
        BY <1>2 DEF CurlFails, GiveUp
    <2>2. [n \in Names |-> Absent] \in Zips
        BY DEF Zips, Absent
    <2>3. Resting \in Publishers /\ Resting.pc = "resting"
        BY <2>2 DEF Publishers, Resting
    <2> QED BY <2>1, <2>3, PublisherMoves
<1>3. CASE Answered
    <2>1. PICK p : p = [publisher EXCEPT !.pc = "resets"]
        OBVIOUS
    <2>2. p \in Publishers /\ p.zip = publisher.zip /\ p.left = publisher.left /\ p.pc = "resets"
        BY <1>1, <2>1 DEF Publishers
    <2>3. /\ publisher' = p /\ publisher.pc # "resting" /\ UNCHANGED <<version, statified, store, jobs, spoilt>>
          /\ jobs[publisher.target][publisher.job].pc = "ended"
        BY <1>3, <2>1 DEF Answered
    <2>4. \A t \in Targets, n \in Names : ~OnItsWay(t, n)
        BY <2>3 DEF OnItsWay, Running
    <2> QED BY <2>2, <2>3, <2>4, PublisherMoves
<1>5. CASE Resets
    <2>1. PICK p : p = [publisher EXCEPT !.pc = "next"]
        OBVIOUS
    <2>2. p \in Publishers /\ p.zip = publisher.zip /\ p.left = publisher.left /\ p.pc = "next"
        BY <1>1, <2>1 DEF Publishers
    <2>3. /\ publisher' = p /\ publisher.pc = "resets" /\ UNCHANGED <<version, statified, store, jobs, spoilt>>
        BY <1>5, <2>1 DEF Resets
    <2>4. \A t \in Targets, n \in Names : ~OnItsWay(t, n)
        BY <2>3 DEF OnItsWay
    <2> QED BY <2>2, <2>3, <2>4, PublisherMoves
<1>6. CASE /\ publisher.pc = "next" /\ publisher.left = {} /\ publisher' = [publisher EXCEPT !.pc = "completed"]
           /\ UNCHANGED <<version, statified, store, jobs, spoilt>>
    <2>1. PICK p : p = [publisher EXCEPT !.pc = "completed"]
        OBVIOUS
    <2>2. p \in Publishers /\ p.zip = publisher.zip /\ p.left = publisher.left /\ p.pc = "completed"
        BY <1>1, <2>1 DEF Publishers
    <2>3. publisher' = p
        BY <1>6, <2>1
    <2>4. \A t \in Targets, n \in Names : ~OnItsWay(t, n)
        BY <1>6 DEF OnItsWay
    <2> QED BY <1>6, <2>2, <2>3, <2>4, PublisherMoves
<1> QED BY <1>2, <1>3, <1>5, <1>6

\* The publisher sends the archive to its next target.
LEMMA TargetServed ==
    ASSUME SiteInv, UNCHANGED visitor, NEW t \in publisher.left, publisher.pc = "next",
           publisher' = [publisher EXCEPT !.pc = "curl", !.left = @ \ {t}, !.target = t, !.job = Len(jobs[t]) + 1],
           Arrives(t, publisher.zip), spoilt' = IF Running(t) = {} THEN spoilt \ {t} ELSE spoilt \cup {t},
           UNCHANGED <<version, statified, store>>
    PROVE  SiteInv'
<1>11. PICK new : new = Len(jobs[t]) + 1
    OBVIOUS
<1> DEFINE all == {p \in DOMAIN Entries : publisher.zip[Entries[p]] # Absent}
<1>1. publisher \in Publishers /\ publisher.zip \in Zips /\ t \in Targets
    BY DEF SiteInv, SiteTyped, Publishers
<1>2. /\ jobs' \in [Targets -> Seq(Jobs)]
      /\ DOMAIN jobs'[t] = DOMAIN jobs[t] \cup {new} /\ new \notin DOMAIN jobs[t]
      /\ jobs'[t][new].pc = "unpacking" /\ jobs'[t][new].zip = publisher.zip /\ jobs'[t][new].left = all
      /\ new \in Nat
      /\ \A i \in DOMAIN jobs[t] : jobs'[t][i] = jobs[t][i]
      /\ \A u \in Targets \ {t} : jobs'[u] = jobs[u]
    BY <1>11, <1>1, ArrivesForm DEF SiteInv
<1>3. publisher' = [publisher EXCEPT !.pc = "curl", !.left = publisher.left \ {t}, !.target = t, !.job = new]
    BY <1>11
<1>4. /\ publisher' \in Publishers /\ publisher'.zip = publisher.zip /\ publisher'.left = publisher.left \ {t}
      /\ publisher'.pc = "curl" /\ publisher'.target = t /\ publisher'.job = new
    BY <1>1, <1>2, <1>3 DEF Publishers
<1>5. SiteTyped'
    BY <1>2, <1>4 DEF SiteInv, SiteTyped
<1>6. OneVersion' /\ TurnsTaken'
    BY <1>4 DEF SiteInv, OneVersion, TurnsTaken
<1>7. Packed'
    <2>1. ASSUME NEW u \in Targets, NEW i \in DOMAIN jobs'[u], NEW p \in jobs'[u][i].left
          PROVE  jobs'[u][i].zip[Entries[p]] # Absent
        <3>1. CASE u = t /\ i = new
            BY <1>2, <2>1, <3>1
        <3>2. CASE ~(u = t /\ i = new)
            <4>1. i \in DOMAIN jobs[u] /\ jobs'[u][i] = jobs[u][i]
                BY <1>2, <2>1, <3>2
            <4> QED BY <2>1, <4>1 DEF SiteInv, Packed
        <3> QED BY <3>1, <3>2
    <2> QED BY <2>1 DEF Packed
<1>8. VisitorsServed'
    BY VisitorsKeep DEF SiteInv
<1>9. TargetsFilled'
    <2>1. ASSUME NEW u \in Targets, u # t, HadTurn(u)'
          PROVE  /\ \A i, j \in Running(u)' : i = j
                 /\ \A i \in Running(u)' : Brings(u, i)'
                 /\ \A n \in Names : publisher'.zip[n] # Absent => store'[u][n] = publisher'.zip[n] \/ OnItsWay(u, n)' \/ PutBack(u, n)'
        <3>1. HadTurn(u)
            BY <1>4, <2>1 DEF HadTurn
        <3>2. \A n \in Names : ~OnItsWay(u, n)
            BY DEF OnItsWay
        <3> QED BY <1>2, <1>4, <2>1, <3>1, <3>2, TargetKeeps DEF SiteInv
    <2>2. ASSUME HadTurn(t)'
          PROVE  /\ \A i, j \in Running(t)' : i = j
                 /\ \A i \in Running(t)' : Brings(t, i)'
                 /\ \A n \in Names : publisher'.zip[n] # Absent => store'[t][n] = publisher'.zip[n] \/ OnItsWay(t, n)' \/ PutBack(t, n)'
        <3>1. Running(t) = {}
            BY <2>2 DEF HadTurn
        <3>2. Running(t)' = {new}
            BY <1>2, <3>1 DEF Running
        <3>3. Brings(t, new)'
            BY <1>2, <1>4 DEF Brings
        <3>4. ASSUME NEW n \in Names, publisher'.zip[n] # Absent PROVE OnItsWay(t, n)'
            <4>1. PICK p \in DOMAIN Entries : Entries[p] = n
                BY DEF Names
            <4>2. p \in jobs'[t][new].left
                BY <1>2, <1>4, <3>4, <4>1
            <4> QED BY <1>4, <3>2, <4>1, <4>2 DEF OnItsWay
        <3> QED BY <3>2, <3>3, <3>4
    <2> QED BY <2>1, <2>2 DEF TargetsFilled
<1> QED BY <1>5, <1>6, <1>7, <1>8, <1>9 DEF SiteInv

\* up2ds sends what the site has in its last version.
LEMMA UploadKeeps == ASSUME SiteInv, uploadFile, UNCHANGED visitor PROVE SiteInv'
<1>1. PICK t \in Targets, sent_ \in {SiteOf[version]} \cup {{n} : n \in SiteOf[version] \ Dirs} :
          /\ Arrives(t, [n \in Names |-> IF n \in sent_ THEN version ELSE Absent])
          /\ spoilt' = IF Running(t) = {} THEN spoilt ELSE spoilt \cup {t}
    BY DEF uploadFile
<1>2. UNCHANGED <<version, statified, publisher, store>> /\ version > 0
    BY DEF uploadFile
<1>3. PICK zip : zip = [n \in Names |-> IF n \in sent_ THEN version ELSE Absent]
    OBVIOUS
<1>4. zip \in Zips /\ \A n \in Names : zip[n] # Absent => n \in SiteOf[version] /\ zip[n] = version
    BY <1>3 DEF SiteInv, SiteTyped, Zips, Absent
<1>11. PICK new : new = Len(jobs[t]) + 1
    OBVIOUS
<1>12. Arrives(t, zip)
    BY <1>1, <1>3
<1> DEFINE all == {p \in DOMAIN Entries : zip[Entries[p]] # Absent}
<1>5. /\ jobs' \in [Targets -> Seq(Jobs)]
      /\ DOMAIN jobs'[t] = DOMAIN jobs[t] \cup {new} /\ new \notin DOMAIN jobs[t]
      /\ jobs'[t][new].pc = "unpacking" /\ jobs'[t][new].zip = zip /\ jobs'[t][new].left = all
      /\ \A i \in DOMAIN jobs[t] : jobs'[t][i] = jobs[t][i]
      /\ \A u \in Targets \ {t} : jobs'[u] = jobs[u]
    BY <1>11, <1>4, <1>12, ArrivesForm DEF SiteInv
<1>6. SiteTyped'
    BY <1>2, <1>5 DEF SiteInv, SiteTyped
<1>7. OneVersion' /\ TurnsTaken'
    BY <1>2 DEF SiteInv, OneVersion, TurnsTaken
<1>8. Packed'
    <2>1. ASSUME NEW u \in Targets, NEW i \in DOMAIN jobs'[u], NEW p \in jobs'[u][i].left
          PROVE  jobs'[u][i].zip[Entries[p]] # Absent
        <3>1. CASE u = t /\ i = new
            BY <1>5, <2>1, <3>1
        <3>2. CASE ~(u = t /\ i = new)
            <4>1. i \in DOMAIN jobs[u] /\ jobs'[u][i] = jobs[u][i]
                BY <1>5, <2>1, <3>2
            <4> QED BY <2>1, <4>1 DEF SiteInv, Packed
        <3> QED BY <3>1, <3>2
    <2> QED BY <2>1 DEF Packed
<1>9. VisitorsServed'
    BY <1>2, VisitorsKeep DEF SiteInv
<1>10. TargetsFilled'
    <2>1. ASSUME NEW u \in Targets, u # t, HadTurn(u)'
          PROVE  /\ \A i, j \in Running(u)' : i = j
                 /\ \A i \in Running(u)' : Brings(u, i)'
                 /\ \A n \in Names : publisher'.zip[n] # Absent => store'[u][n] = publisher'.zip[n] \/ OnItsWay(u, n)' \/ PutBack(u, n)'
        <3>1. HadTurn(u)
            BY <1>1, <1>2, <2>1 DEF HadTurn
        <3>2. \A n \in Names : OnItsWay(u, n) => OnItsWay(u, n)'
            BY <1>2, <1>5, <2>1 DEF OnItsWay, Running
        <3> QED BY <1>2, <1>5, <2>1, <3>1, <3>2, TargetKeeps DEF SiteInv
    <2>2. ASSUME HadTurn(t)'
          PROVE  /\ \A i, j \in Running(t)' : i = j
                 /\ \A i \in Running(t)' : Brings(t, i)'
                 /\ \A n \in Names : publisher'.zip[n] # Absent => store'[t][n] = publisher'.zip[n] \/ OnItsWay(t, n)' \/ PutBack(t, n)'
        <3>1. Running(t) = {} /\ HadTurn(t)
            BY <1>1, <1>2, <2>2 DEF HadTurn
        <3>2. Running(t)' = {new}
            BY <1>5, <3>1 DEF Running
        <3>3. Brings(t, new)'
            <4>1. ASSUME NEW p \in all
                  PROVE  publisher.zip[Entries[p]] \in {zip[Entries[p]], Absent}
                <5>1. Entries[p] \in Names /\ zip[Entries[p]] # Absent
                    BY <4>1 DEF Names
                <5>2. Entries[p] \in SiteOf[version] /\ zip[Entries[p]] = version
                    BY <1>4, <5>1
                <5> QED BY <3>1, <5>1, <5>2 DEF HadTurn, SiteInv, OneVersion
            <4> QED BY <1>2, <1>5, <4>1 DEF Brings
        <3>4. \A n \in Names : ~OnItsWay(t, n)
            BY <3>1 DEF OnItsWay
        <3>5. \A n \in Names : publisher.zip[n] # Absent => store[t][n] = publisher.zip[n] \/ PutBack(t, n)
            BY <3>1, <3>4 DEF SiteInv, TargetsFilled
        <3>6. \A n \in Names : PutBack(t, n) => PutBack(t, n)'
            BY <1>2 DEF PutBack, Asked
        <3> QED BY <1>2, <3>2, <3>3, <3>5, <3>6
    <2> QED BY <2>1, <2>2 DEF TargetsFilled
<1> QED BY <1>6, <1>7, <1>8, <1>9, <1>10 DEF SiteInv

LEMMA UnpackKeeps ==
    ASSUME SiteInv, NEW t \in Targets, NEW i \in DOMAIN jobs[t], Unpack(t, i), UNCHANGED visitor
    PROVE  SiteInv'
<1>1. PICK p \in jobs[t][i].left :
          /\ store' = [store EXCEPT ![t] = Saved(t, Entries[p], jobs[t][i].zip[Entries[p]])]
          /\ jobs' = [jobs EXCEPT ![t][i].left = @ \ {p}]
    BY DEF Unpack
<1>2. i \in Running(t) /\ UNCHANGED <<version, statified, publisher, spoilt, visitor>>
    BY DEF Unpack
<1>3. PICK n, v, j : n = Entries[p] /\ v = jobs[t][i].zip[n] /\ j = [jobs[t][i] EXCEPT !.left = @ \ {p}]
    OBVIOUS
<1>4. jobs[t][i] \in Jobs
    <2>1. jobs[t] \in Seq(Jobs)
        BY DEF SiteInv, SiteTyped
    <2> QED BY <2>1
<1>5. n \in Names /\ v \in Nat /\ v # Absent
    BY <1>3, <1>4 DEF SiteInv, Packed, Names, Jobs, Zips
<1>6. j \in Jobs /\ j.pc = jobs[t][i].pc /\ j.zip = jobs[t][i].zip /\ j.left = jobs[t][i].left \ {p}
    BY <1>3, <1>4 DEF Jobs
<1>7. jobs' = [jobs EXCEPT ![t][i] = j]
    BY <1>1, <1>3
<1>8. /\ jobs' \in [Targets -> Seq(Jobs)] /\ DOMAIN jobs'[t] = DOMAIN jobs[t] /\ jobs'[t][i] = j
      /\ \A k \in DOMAIN jobs[t] \ {i} : jobs'[t][k] = jobs[t][k]
      /\ \A u \in Targets \ {t} : jobs'[u] = jobs[u]
    BY <1>6, <1>7, JobForm DEF SiteInv
<1>9. /\ store' \in [Targets -> Zips] /\ store'[t][n] = v
      /\ \A m \in Names : m # n /\ store[t][m] # Absent => store'[t][m] = store[t][m]
      /\ \A m \in Names : store[t][m] # Absent => store'[t][m] # Absent
      /\ \A u \in Targets \ {t} : store'[u] = store[u]
    <2>1. PICK files : files = Saved(t, n, v)
        OBVIOUS
    <2>2. store \in [Targets -> Zips]
        BY DEF SiteInv, SiteTyped
    <2>3. files = [m \in Names |-> IF m = n \/ (m = DirOf[n] /\ store[t][m] = Absent) THEN v ELSE store[t][m]]
        BY <2>1 DEF Saved
    <2>4. /\ files \in Zips /\ files[n] = v
          /\ \A m \in Names : m # n /\ store[t][m] # Absent => files[m] = store[t][m]
          /\ \A m \in Names : store[t][m] # Absent => files[m] # Absent
        BY <1>5, <2>2, <2>3 DEF Zips
    <2>5. store' = [store EXCEPT ![t] = files]
        BY <1>1, <1>3, <2>1
    <2> QED BY <2>2, <2>4, <2>5
<1>10. SiteTyped'
    BY <1>2, <1>8, <1>9 DEF SiteInv, SiteTyped
<1>11. OneVersion' /\ TurnsTaken'
    BY <1>2 DEF SiteInv, OneVersion, TurnsTaken
<1>12. Packed'
    <2>1. ASSUME NEW u \in Targets, NEW k \in DOMAIN jobs'[u], NEW q \in jobs'[u][k].left
          PROVE  jobs'[u][k].zip[Entries[q]] # Absent
        <3>1. k \in DOMAIN jobs[u] /\ q \in jobs[u][k].left /\ jobs'[u][k].zip = jobs[u][k].zip
            BY <1>6, <1>8, <2>1
        <3> QED BY <3>1 DEF SiteInv, Packed
    <2> QED BY <2>1 DEF Packed
<1>13. VisitorsServed'
    BY <1>2, <1>9, VisitorsKeep DEF SiteInv
<1>14. TargetsFilled'
    <2>1. ASSUME NEW u \in Targets, u # t, HadTurn(u)'
          PROVE  /\ \A k, l \in Running(u)' : k = l
                 /\ \A k \in Running(u)' : Brings(u, k)'
                 /\ \A m \in Names : publisher'.zip[m] # Absent => store'[u][m] = publisher'.zip[m] \/ OnItsWay(u, m)' \/ PutBack(u, m)'
        <3>1. HadTurn(u) /\ jobs'[u] = jobs[u] /\ store'[u] = store[u]
            BY <1>2, <1>8, <1>9, <2>1 DEF HadTurn
        <3>2. \A m \in Names : OnItsWay(u, m) => OnItsWay(u, m)'
            BY <1>2, <3>1 DEF OnItsWay, Running
        <3> QED BY <1>2, <3>1, <3>2, TargetKeeps DEF SiteInv
    <2>2. ASSUME HadTurn(t)'
          PROVE  /\ \A k, l \in Running(t)' : k = l
                 /\ \A k \in Running(t)' : Brings(t, k)'
                 /\ \A m \in Names : publisher'.zip[m] # Absent => store'[t][m] = publisher'.zip[m] \/ OnItsWay(t, m)' \/ PutBack(t, m)'
        <3>1. HadTurn(t)
            BY <1>2, <2>2 DEF HadTurn
        <3>2. Running(t)' = Running(t)
            BY <1>6, <1>8 DEF Running
        <3>3. \A k \in Running(t) : k = i /\ Brings(t, k)
            BY <1>2, <3>1 DEF SiteInv, TargetsFilled
        <3>4. Brings(t, i)'
            BY <1>2, <1>6, <1>8, <3>3 DEF Brings
        <3>5. ASSUME NEW m \in Names, publisher'.zip[m] # Absent
              PROVE  store'[t][m] = publisher'.zip[m] \/ OnItsWay(t, m)' \/ PutBack(t, m)'
            <4>1. CASE m = n
                BY <1>2, <1>3, <1>9, <3>3, <3>5, <4>1 DEF Brings
            <4>2. CASE m # n /\ store[t][m] = publisher.zip[m]
                BY <1>2, <1>9, <3>5, <4>2
            <4>4. CASE m # n /\ PutBack(t, m)
                <5>1. PICK w \in Visitors : /\ visitor[w].saved /\ visitor[w].target = t /\ Asked(w) = m
                                            /\ visitor[w].held = store[t][m]
                    BY <4>4 DEF PutBack
                <5>2. store[t][m] # Absent
                    BY <5>1 DEF SiteInv, VisitorsServed, Served
                <5>3. store'[t][m] = store[t][m]
                    BY <1>9, <4>4, <5>2
                <5> QED BY <1>2, <5>1, <5>3 DEF PutBack, Asked
            <4>3. CASE m # n /\ OnItsWay(t, m)
                <5>1. /\ publisher.pc = "curl" /\ publisher.target = t /\ publisher.job = i
                      /\ \E q \in jobs[t][i].left : Entries[q] = m
                    BY <3>3, <4>3 DEF OnItsWay
                <5>2. \E q \in jobs'[t][i].left : Entries[q] = m
                    BY <1>3, <1>6, <1>8, <4>3, <5>1
                <5> QED BY <1>2, <3>2, <5>1, <5>2 DEF OnItsWay
            <4> QED BY <1>2, <3>1, <3>5, <4>1, <4>2, <4>3, <4>4 DEF SiteInv, TargetsFilled
        <3> QED BY <3>2, <3>3, <3>4, <3>5
    <2> QED BY <2>1, <2>2 DEF TargetsFilled
<1> QED BY <1>10, <1>11, <1>12, <1>13, <1>14 DEF SiteInv

LEMMA EndKeeps ==
    ASSUME SiteInv, NEW t \in Targets, NEW i \in DOMAIN jobs[t], EndUpload(t, i), UNCHANGED visitor
    PROVE  SiteInv'
<1>1. /\ i \in Running(t) /\ jobs' = [jobs EXCEPT ![t][i] = Ended]
      /\ spoilt' = IF jobs[t][i].left = {} THEN spoilt ELSE spoilt \cup {t}
      /\ UNCHANGED <<version, statified, publisher, store, visitor>>
    BY DEF EndUpload
<1>2. Ended \in Jobs /\ Ended.pc = "ended" /\ Ended.left = {}
    <2>1. [n \in Names |-> Absent] \in Zips
        BY DEF Zips, Absent
    <2>2. Resting.zip \in Zips
        BY <2>1 DEF Resting
    <2> QED BY <2>2 DEF Ended, Jobs
<1>3. /\ jobs' \in [Targets -> Seq(Jobs)] /\ DOMAIN jobs'[t] = DOMAIN jobs[t] /\ jobs'[t][i] = Ended
      /\ \A k \in DOMAIN jobs[t] \ {i} : jobs'[t][k] = jobs[t][k]
      /\ \A u \in Targets \ {t} : jobs'[u] = jobs[u]
    BY <1>1, <1>2, JobForm DEF SiteInv
<1>4. SiteTyped' /\ OneVersion' /\ TurnsTaken'
    BY <1>1, <1>3 DEF SiteInv, SiteTyped, OneVersion, TurnsTaken
<1>5. Packed'
    <2>1. ASSUME NEW u \in Targets, NEW k \in DOMAIN jobs'[u], NEW q \in jobs'[u][k].left
          PROVE  jobs'[u][k].zip[Entries[q]] # Absent
        <3>1. k \in DOMAIN jobs[u] /\ jobs'[u][k] = jobs[u][k]
            BY <1>2, <1>3, <2>1
        <3> QED BY <2>1, <3>1 DEF SiteInv, Packed
    <2> QED BY <2>1 DEF Packed
<1>6. VisitorsServed'
    BY <1>1, VisitorsKeep DEF SiteInv
<1>7. TargetsFilled'
    <2>1. ASSUME NEW u \in Targets, u # t, HadTurn(u)'
          PROVE  /\ \A k, l \in Running(u)' : k = l
                 /\ \A k \in Running(u)' : Brings(u, k)'
                 /\ \A m \in Names : publisher'.zip[m] # Absent => store'[u][m] = publisher'.zip[m] \/ OnItsWay(u, m)' \/ PutBack(u, m)'
        <3>1. HadTurn(u) /\ jobs'[u] = jobs[u] /\ store'[u] = store[u]
            BY <1>1, <1>3, <2>1 DEF HadTurn
        <3>2. \A m \in Names : OnItsWay(u, m) => OnItsWay(u, m)'
            BY <1>1, <3>1 DEF OnItsWay, Running
        <3> QED BY <1>1, <3>1, <3>2, TargetKeeps DEF SiteInv
    <2>2. ASSUME HadTurn(t)'
          PROVE  /\ \A k, l \in Running(t)' : k = l
                 /\ \A k \in Running(t)' : Brings(t, k)'
                 /\ \A m \in Names : publisher'.zip[m] # Absent => store'[t][m] = publisher'.zip[m] \/ OnItsWay(t, m)' \/ PutBack(t, m)'
        <3>1. HadTurn(t) /\ jobs[t][i].left = {}
            BY <1>1, <2>2 DEF HadTurn
        <3>2. \A k \in Running(t) : k = i
            BY <1>1, <3>1 DEF SiteInv, TargetsFilled
        <3>3. Running(t)' = {}
            BY <1>2, <1>3, <3>2 DEF Running
        <3>4. \A m \in Names : ~OnItsWay(t, m)
            BY <3>1, <3>2 DEF OnItsWay
        <3>5. \A m \in Names : PutBack(t, m) => PutBack(t, m)'
            BY <1>1 DEF PutBack, Asked
        <3> QED BY <1>1, <3>1, <3>3, <3>4, <3>5 DEF SiteInv, TargetsFilled
    <2> QED BY <2>1, <2>2 DEF TargetsFilled
<1> QED BY <1>4, <1>5, <1>6, <1>7 DEF SiteInv

\* A visitor's request takes a step.
LEMMA VisitStep ==
    ASSUME SiteInv, NEW v \in Visitors, NEW r, IsVisit(r), Served(r), Step(v, r), UNCHANGED publishVars,
           visitor[v].pc # "answered"
    PROVE  SiteInv'
<1>1. /\ visitor'[v] = r /\ \A w \in Visitors \ {v} : visitor'[w] = visitor[w]
      /\ \E S : visitor' \in [Visitors -> S]
    <2>1. PICK S : visitor \in [Visitors -> S]
        BY DEF SiteInv, VisitorsServed
    <2>2. visitor' = [visitor EXCEPT ![v] = r]
        BY DEF Step
    <2>3. visitor' \in [Visitors -> S \cup {r}]
        BY <2>1, <2>2
    <2> QED BY <2>1, <2>2, <2>3
<1>2. UNCHANGED <<version, statified, publisher, store, jobs, spoilt>>
    BY DEF publishVars
<1>3. VisitorsServed'
    BY <1>1, <1>2 DEF SiteInv, VisitorsServed, Served
<1>4. SiteTyped' /\ OneVersion' /\ TurnsTaken' /\ Packed'
    BY <1>2 DEF SiteInv, SiteTyped, OneVersion, TurnsTaken, Packed
<1>5. ~visitor[v].saved
    BY DEF SiteInv, VisitorsServed, Served
<1>6. \A t \in Targets, n \in Names : PutBack(t, n) => PutBack(t, n)'
    BY <1>1, <1>2, <1>5 DEF PutBack, Asked
<1>7. TargetsFilled'
    BY <1>2, <1>6 DEF SiteInv, TargetsFilled, HadTurn, Running, Brings, OnItsWay
<1> QED BY <1>3, <1>4, <1>7 DEF SiteInv

\* The file that a visitor has opened is closed.
LEMMA CloseKeeps ==
    ASSUME SiteInv, NEW v \in Visitors, Close(v), UNCHANGED <<version, statified, publisher, jobs, spoilt>>
    PROVE  SiteInv'
<1> DEFINE x == visitor[v]
<1>1. IsVisit(x) /\ Served(x) /\ x.pc = "closing"
    BY DEF SiteInv, VisitorsServed, Close
<1>2. PICK saved \in BOOLEAN :
          /\ visitor' = [visitor EXCEPT ![v] = [x EXCEPT !.pc = "answered", !.saved = saved]]
          /\ store' = IF saved THEN [store EXCEPT ![x.target][x.name] = x.held] ELSE store
    BY DEF Close, Step, Asked
<1>3. PICK t, n, held : t = x.target /\ n = x.name /\ held = x.held
    OBVIOUS
<1>4. t \in Targets /\ n \in Names /\ held \in Nat \ {Absent} /\ ~x.saved
    BY <1>1, <1>3 DEF Served
<1>5. PICK r : r = [x EXCEPT !.pc = "answered", !.saved = saved]
    OBVIOUS
<1>6. /\ IsVisit(r) /\ r.pc = "answered" /\ r.saved = saved /\ r.target = t /\ r.name = n /\ r.held = held
      /\ r.answer = x.answer /\ r.hadIndex = x.hadIndex /\ r.failed = x.failed
    BY <1>1, <1>3, <1>5 DEF IsVisit
<1>7. Served(r)
    BY <1>1, <1>4, <1>6 DEF Served
<1>8. /\ visitor'[v] = r /\ \A w \in Visitors \ {v} : visitor'[w] = visitor[w]
      /\ \E S : visitor' \in [Visitors -> S]
    <2>1. PICK S : visitor \in [Visitors -> S]
        BY DEF SiteInv, VisitorsServed
    <2>2. visitor' = [visitor EXCEPT ![v] = r]
        BY <1>2, <1>5
    <2>3. visitor' \in [Visitors -> S \cup {r}]
        BY <2>1, <2>2
    <2> QED BY <2>1, <2>2, <2>3
<1> HIDE DEF x
<1>9. store \in [Targets -> [Names -> Nat]]
    BY DEF SiteInv, SiteTyped, Zips
<1>10. /\ store' \in [Targets -> [Names -> Nat]]
       /\ \A u \in Targets : \A m \in Names :
            store'[u][m] = IF saved /\ u = t /\ m = n THEN held ELSE store[u][m]
    <2>1. CASE saved
        <3>1. store' = [store EXCEPT ![t] = [store[t] EXCEPT ![n] = held]]
            BY <1>2, <1>3, <2>1
        <3> QED BY <1>4, <1>9, <2>1, <3>1
    <2>2. CASE ~saved
        BY <1>2, <1>9, <2>2
    <2> QED BY <2>1, <2>2
<1>11. SiteTyped' /\ OneVersion' /\ TurnsTaken' /\ Packed'
    BY <1>10 DEF SiteInv, SiteTyped, OneVersion, TurnsTaken, Packed, Zips
<1>12. \A u \in Targets : \A m \in Names : store[u][m] # Absent => store'[u][m] # Absent
    BY <1>4, <1>10
<1>13. VisitorsServed'
    <2>1. \A w \in Visitors \ {v} : IsVisit(visitor'[w]) /\ Served(visitor[w])'
        BY <1>8, <1>12, SiteAssumption DEF SiteInv, VisitorsServed, Served
    <2>2. Served(visitor[v])'
        BY <1>6, <1>7, <1>8 DEF Served
    <2> QED BY <1>6, <1>8, <2>1, <2>2 DEF VisitorsServed
<1>14. \A u \in Targets, m \in Names :
           \/ store'[u][m] = store[u][m] /\ (PutBack(u, m) => PutBack(u, m)')
           \/ PutBack(u, m)'
    <2> SUFFICES ASSUME NEW u \in Targets, NEW m \in Names
                 PROVE  \/ store'[u][m] = store[u][m] /\ (PutBack(u, m) => PutBack(u, m)')
                        \/ PutBack(u, m)'
        OBVIOUS
    <2>1. CASE saved /\ u = t /\ m = n
        BY <1>6, <1>8, <1>10, <2>1 DEF PutBack, Asked
    <2>2. CASE ~(saved /\ u = t /\ m = n)
        <3>1. store'[u][m] = store[u][m]
            BY <1>10, <2>2
        <3>2. ~visitor[v].saved
            BY <1>4 DEF x
        <3> QED BY <1>8, <3>1, <3>2 DEF PutBack, Asked
    <2> QED BY <2>1, <2>2
<1>15. TargetsFilled'
    BY <1>14 DEF SiteInv, TargetsFilled, HadTurn, Running, Brings, OnItsWay
<1> QED BY <1>11, <1>13, <1>15 DEF SiteInv

\* An answer other than a listing.
LEMMA ReplyServes ==
    ASSUME SiteInv, NEW v \in Visitors, NEW answer, UNCHANGED publishVars, Reply(v, answer),
           visitor[v].pc # "answered",
           answer \in {"json", "html"} /\ visitor[v].hadIndex => visitor[v].failed
    PROVE  SiteInv'
<1> DEFINE pc == IF visitor[v].pc = "read" THEN "closing" ELSE "answered"
<1>1. PICK r : r = [visitor[v] EXCEPT !.pc = pc, !.answer = answer, !.parsed = GetDirContents(answer)]
    OBVIOUS
<1>2. IsVisit(visitor[v])
    BY DEF SiteInv, VisitorsServed
<1>3. /\ IsVisit(r) /\ r.pc = pc /\ r.answer = answer
      /\ r.hadIndex = visitor[v].hadIndex /\ r.failed = visitor[v].failed
      /\ r.target = visitor[v].target /\ r.name = visitor[v].name
      /\ r.held = visitor[v].held /\ r.saved = visitor[v].saved
    BY <1>1, <1>2 DEF IsVisit
<1>4. Served(visitor[v])
    BY DEF SiteInv, VisitorsServed
<1>5. Served(r)
    BY <1>3, <1>4 DEF Served
<1>6. Step(v, r)
    BY <1>1 DEF Reply
<1> QED BY <1>3, <1>5, <1>6, VisitStep

LEMMA ServeKeeps == ASSUME SiteInv, NEW v \in Visitors, UNCHANGED publishVars,
                           Visit(v) \/ Open(v) \/ OpenIndex(v) \/ List(v) \/ Read(v)
                    PROVE  SiteInv'
<1>1. IsVisit(visitor[v]) /\ Served(visitor[v])
    BY DEF SiteInv, VisitorsServed
<1>2. CASE Visit(v)
    <2>1. PICK t \in Targets, n \in Names :
              Step(v, [NoVisit EXCEPT !.pc = "open", !.target = t, !.name = n,
                                      !.hadIndex = n \in Dirs /\ store[t][IndexOf[n]] # Absent])
        BY <1>2 DEF Visit
    <2>2. PICK had : had = (n \in Dirs /\ store[t][IndexOf[n]] # Absent)
        OBVIOUS
    <2>3. PICK no, none : no = FALSE /\ none = Absent
        OBVIOUS
    <2>4. PICK r : r = [pc |-> "open", target |-> t, name |-> n, hadIndex |-> had, failed |-> no,
                        held |-> none, saved |-> no, answer |-> "none", parsed |-> "none"]
        OBVIOUS
    <2>5. r = [NoVisit EXCEPT !.pc = "open", !.target = t, !.name = n, !.hadIndex = had]
        <3>1. PICK a : a = [pc |-> "idle", target |-> "none", name |-> "none", hadIndex |-> no, failed |-> no,
                            held |-> none, saved |-> no, answer |-> "none", parsed |-> "none"]
            OBVIOUS
        <3>2. PICK b : b = [a EXCEPT !.pc = "open"]
            OBVIOUS
        <3>3. PICK c : c = [b EXCEPT !.target = t]
            OBVIOUS
        <3>4. PICK d : d = [c EXCEPT !.name = n]
            OBVIOUS
        <3>5. b = [pc |-> "open", target |-> "none", name |-> "none", hadIndex |-> no, failed |-> no,
                   held |-> none, saved |-> no, answer |-> "none", parsed |-> "none"]
            BY <3>1, <3>2
        <3>6. c = [pc |-> "open", target |-> t, name |-> "none", hadIndex |-> no, failed |-> no,
                   held |-> none, saved |-> no, answer |-> "none", parsed |-> "none"]
            BY <3>3, <3>5
        <3>7. d = [pc |-> "open", target |-> t, name |-> n, hadIndex |-> no, failed |-> no,
                   held |-> none, saved |-> no, answer |-> "none", parsed |-> "none"]
            BY <3>4, <3>6
        <3>8. r = [d EXCEPT !.hadIndex = had]
            BY <2>4, <3>7
        <3>9. a = NoVisit
            BY <2>3, <3>1 DEF NoVisit
        <3> QED BY <3>2, <3>3, <3>4, <3>8, <3>9
    <2>6. Step(v, r)
        BY <2>1, <2>2, <2>5
    <2>7. /\ IsVisit(r) /\ r.pc = "open" /\ r.target = t /\ r.name = n /\ r.answer = "none"
          /\ r.hadIndex = had /\ ~r.saved
        BY <2>3, <2>4 DEF IsVisit
    <2>8. Served(r)
        BY <2>2, <2>7 DEF Served
    <2>9. visitor[v].pc # "answered"
        BY <1>2 DEF Visit
    <2> QED BY <2>6, <2>7, <2>8, <2>9, VisitStep
<1>3. CASE Open(v)
    <2>1. visitor[v].pc = "open"
        BY <1>3 DEF Open
    <2>2. CASE Reply(v, "log")
        BY <2>1, <2>2, ReplyServes
    <2>3. CASE Asked(v) \in Dirs /\ Step(v, [visitor[v] EXCEPT !.pc = "index"])
        <3>1. PICK r : r = [visitor[v] EXCEPT !.pc = "index"]
            OBVIOUS
        <3>2. /\ IsVisit(r) /\ r.pc = "index" /\ r.target = visitor[v].target /\ r.name = visitor[v].name
              /\ r.answer = visitor[v].answer /\ r.hadIndex = visitor[v].hadIndex /\ r.saved = visitor[v].saved
            BY <1>1, <3>1 DEF IsVisit
        <3>3. Served(r)
            BY <1>1, <2>1, <2>3, <3>2 DEF Served, Asked
        <3> QED BY <2>1, <2>3, <3>1, <3>2, <3>3, VisitStep
    <2>4. CASE There(v, Asked(v)) /\ Step(v, [visitor[v] EXCEPT !.pc = "read", !.held = Stored(v, Asked(v))])
        <3>1. PICK held : held = Stored(v, Asked(v))
            OBVIOUS
        <3>2. PICK r : r = [visitor[v] EXCEPT !.pc = "read", !.held = held]
            OBVIOUS
        <3>3. /\ IsVisit(r) /\ r.pc = "read" /\ r.target = visitor[v].target /\ r.name = visitor[v].name
              /\ r.held = held /\ r.answer = visitor[v].answer /\ r.saved = visitor[v].saved
            BY <1>1, <3>2 DEF IsVisit
        <3>4. r.target \in Targets /\ r.name \in Names /\ held \in Nat \ {Absent}
            BY <1>1, <2>1, <2>4, <3>1, <3>3 DEF Served, There, Stored, Asked, SiteInv, SiteTyped, Zips
        <3>5. Served(r)
            BY <1>1, <2>1, <3>3, <3>4 DEF Served
        <3> QED BY <2>1, <2>4, <3>1, <3>2, <3>3, <3>5, VisitStep
    <2> QED BY <1>3, <2>2, <2>3, <2>4 DEF Open
<1>4. CASE OpenIndex(v)
    <2>1. visitor[v].pc = "index" /\ visitor[v].answer = "none"
        BY <1>1, <1>4 DEF OpenIndex, Served
    <2>2. visitor[v].target \in Targets /\ Index(v) \in Names
        BY <1>1, <2>1, SiteAssumption DEF Served, Index, Asked
    <2>3. CASE /\ There(v, Index(v))
               /\ Step(v, [visitor[v] EXCEPT !.pc = "read", !.name = Index(v), !.held = Stored(v, Index(v))])
        <3>1. PICK held, name : held = Stored(v, Index(v)) /\ name = Index(v)
            OBVIOUS
        <3>2. PICK r : r = [visitor[v] EXCEPT !.pc = "read", !.name = name, !.held = held]
            OBVIOUS
        <3>3. /\ IsVisit(r) /\ r.pc = "read" /\ r.answer = "none" /\ r.target = visitor[v].target
              /\ r.name = name /\ r.held = held /\ r.saved = visitor[v].saved
            BY <1>1, <2>1, <3>2 DEF IsVisit
        <3>4. held \in Nat \ {Absent}
            BY <2>2, <2>3, <3>1 DEF There, Stored, SiteInv, SiteTyped, Zips
        <3>5. Served(r)
            BY <1>1, <2>1, <2>2, <3>1, <3>3, <3>4 DEF Served
        <3> QED BY <2>1, <2>3, <3>1, <3>2, <3>3, <3>5, VisitStep
    <2>4. CASE Step(v, [visitor[v] EXCEPT !.pc = "list", !.failed = There(v, Index(v))])
        <3>1. PICK failed : failed = There(v, Index(v))
            OBVIOUS
        <3>2. PICK r : r = [visitor[v] EXCEPT !.pc = "list", !.failed = failed]
            OBVIOUS
        <3>3. /\ IsVisit(r) /\ r.pc = "list" /\ r.answer = "none" /\ r.failed = failed
              /\ r.hadIndex = visitor[v].hadIndex /\ r.saved = visitor[v].saved
            BY <1>1, <2>1, <3>2 DEF IsVisit
        <3>4. visitor[v].hadIndex => failed
            BY <1>1, <2>1, <3>1 DEF Served, There, Stored, Index, Asked
        <3>5. Served(r)
            BY <1>1, <2>1, <3>3, <3>4 DEF Served
        <3> QED BY <2>1, <2>4, <3>1, <3>2, <3>3, <3>5, VisitStep
    <2> QED BY <1>4, <2>3, <2>4 DEF OpenIndex
<1>5. CASE List(v)
    <2>1. PICK format \in {"json", "html"} : visitor[v].pc = "list" /\ Reply(v, format)
        BY <1>5 DEF List
    <2> QED BY <1>1, <2>1, ReplyServes DEF Served
<1>6. CASE Read(v)
    <2>1. PICK content \in {"file", "decoded", "log"} : visitor[v].pc = "read" /\ Reply(v, content)
        BY <1>6 DEF Read
    <2> QED BY <2>1, ReplyServes
<1> QED BY <1>2, <1>3, <1>4, <1>5, <1>6

LEMMA SiteGoesOn == SiteInv /\ [ServerNext]_serverVars => SiteInv'
<1> SUFFICES ASSUME SiteInv, [ServerNext]_serverVars PROVE SiteInv'
    OBVIOUS
<1>1. CASE NextTarget /\ UNCHANGED visitor
    <2>1. /\ publisher.pc = "next" /\ UNCHANGED <<version, statified, store, visitor>>
          /\ \/ publisher.left = {} /\ publisher' = [publisher EXCEPT !.pc = "completed"]
                /\ UNCHANGED <<jobs, spoilt>>
             \/ \E t \in publisher.left :
                  /\ publisher' = [publisher EXCEPT !.pc = "curl", !.left = @ \ {t}, !.target = t, !.job = Len(jobs[t]) + 1]
                  /\ Arrives(t, publisher.zip)
                  /\ spoilt' = IF Running(t) = {} THEN spoilt \ {t} ELSE spoilt \cup {t}
        BY <1>1 DEF NextTarget
    <2> QED BY <2>1, PublisherSteps, TargetServed
<1>2. CASE PublishNext /\ UNCHANGED visitor /\ ~NextTarget
    BY <1>2, PrepareSite, PublisherSteps, UploadKeeps, UnpackKeeps, EndKeeps DEF PublishNext
<1>3. CASE Serve /\ UNCHANGED publishVars
    BY <1>3, ServeKeeps DEF Serve
<1>5. CASE (\E v \in Visitors : Close(v)) /\ UNCHANGED <<version, statified, publisher, jobs, spoilt>>
    BY <1>5, CloseKeeps
<1>4. CASE UNCHANGED serverVars
    <2>1. UNCHANGED <<version, statified, publisher, store, jobs, spoilt, visitor>>
        BY <1>4 DEF serverVars, publishVars
    <2>2. SiteTyped' /\ OneVersion' /\ TurnsTaken' /\ Packed' /\ VisitorsServed'
        BY <2>1 DEF SiteInv, SiteTyped, OneVersion, TurnsTaken, Packed, VisitorsServed, Served
    <2>3. TargetsFilled'
        BY <2>1 DEF SiteInv, TargetsFilled, HadTurn, Running, Brings, OnItsWay, PutBack, Asked
    <2> QED BY <2>2, <2>3 DEF SiteInv
<1> QED BY <1>1, <1>2, <1>3, <1>4, <1>5 DEF ServerNext

(***************************************************************************)
(* When huprep is through, every target has the archive, but those where   *)
(* an upload was cut short or overlapped with another, and the files that  *)
(* FsiFileServer has put back when it closed them; and it lists a          *)
(* directory in place of its index only if opening that failed.            *)
(***************************************************************************)
THEOREM SiteIsPublished == ServerSpec => []SiteAsPublished
<1>1. SiteInv => SiteAsPublished
    <2> SUFFICES ASSUME SiteInv PROVE SiteAsPublished
        OBVIOUS
    <2>1. ASSUME publisher.pc = "completed", NEW t \in Targets \ spoilt, NEW n \in Names, publisher.zip[n] # Absent
          PROVE  store[t][n] = publisher.zip[n] \/ PutBack(t, n)
        <3>1. HadTurn(t) /\ ~OnItsWay(t, n)
            BY <2>1 DEF SiteInv, TurnsTaken, HadTurn, OnItsWay
        <3> QED BY <2>1, <3>1 DEF SiteInv, TargetsFilled
    <2>2. \A v \in Visitors : visitor[v].answer \in {"json", "html"} /\ visitor[v].hadIndex => visitor[v].failed
        BY DEF SiteInv, VisitorsServed, Served
    <2> QED BY <2>1, <2>2 DEF SiteAsPublished
<1> QED
    BY SiteStarts, SiteGoesOn, <1>1, PTL DEF ServerSpec
=============================================================================
