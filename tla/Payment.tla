------------------------------ MODULE Payment ------------------------------
(***************************************************************************)
(* The callbacks of Coinbase, package net/http/coinbase.  Coinbase is      *)
(* external: it announces every order until it gets a success for an       *)
(* answer, several announcements may be under way at a time, and one may   *)
(* break off before it is read.                                            *)
(***************************************************************************)
EXTENDS Naturals, Sequences

CONSTANTS Orders, Order,  \* what Coinbase says of every order
          Callbacks       \* bound: announcements in a behaviour

VARIABLES
    invoices,  \* the blob of category "invoice" under every key, if any
    callback,  \* every announcement: its order, and how far its handler is
    settled,   \* orders that Coinbase announces no more
    missed     \* completed orders that a failure kept from the store

paymentVars == <<invoices, callback, settled, missed>>

----------------------------------------------------------------------------
(* Adapter of package net/http/loghttp, through which most handlers are    *)
(* registered: it checks the path and catches panics.  A handler ends with *)
(* the status it wrote, if any, or with a panic.                           *)

OK == 200
InternalServerError == 500

End(status, panics) == [status |-> status, panics |-> panics]
NotWritten == 0

\* What the client receives.  The text about a panic is written without a
\* status, which makes it a success; without a context, log.Fatalf ends the program.
Answer(legalPath, context, given) ==
    IF ~legalPath THEN InternalServerError
    ELSE IF given.panics /\ ~context THEN NotWritten
    ELSE IF given.status = NotWritten THEN OK ELSE given.status

----------------------------------------------------------------------------
None == "none"
Nothing == {}
Idle == [order |-> None, pc |-> "idle", arrives |-> TRUE]

\* The value behind "custom" names user and product; their names in a row are
\* the key.  The test order stands for a user and a product of its own.
custom(o) == IF Order[o].custom = "123456789" THEN "testUser123/member/somearticle" ELSE Order[o].custom
Malformed == {"absent", "no query"}
NoString == "a number"
Keys == {custom(o) : o \in Orders} \ (Malformed \cup {NoString})

PaymentInit ==
    /\ invoices = [k \in Keys |-> Nothing]
    /\ callback = [c \in Callbacks |-> Idle]
    /\ settled = {} /\ missed = {}

\* Without a number of cents the amount stays zero.
BTC(o) == IF Order[o].hasCents THEN Order[o].cents ELSE 0

Blob(o) == {[order |-> o, F |-> BTC(o)]}

Announce(c) ==
    /\ callback[c] = Idle
    /\ \E o \in Orders \ settled, arrives \in BOOLEAN :
        callback' = [callback EXCEPT ![c] = [order |-> o, pc |-> "begun", arrives |-> arrives]]
    /\ UNCHANGED <<invoices, settled, missed>>

\* The end of a handler.  The answer may not reach Coinbase, which then repeats.
LengthRequired == 411
Reply(c, status, panics) ==
    LET answer == Answer(TRUE, TRUE, End(status, panics))
    IN  /\ callback' = [callback EXCEPT ![c].pc = "ended"]
        /\ \/ settled' = settled \cup (IF answer = OK THEN {callback[c].order} ELSE {})
           \/ UNCHANGED settled

\* Mutant: every announced order is saved.
Accepted_anyStatus(o) == TRUE

Accepted(o) == Order[o].status = "completed"

\* confirmPay up to the store.
Begin(c) ==
    LET o == callback[c].order
        Refuse == Reply(c, LengthRequired, FALSE) /\ UNCHANGED missed
        Miss(panics) == Reply(c, NotWritten, panics) /\ missed' = missed \cup {o}
    IN  /\ callback[c].pc = "begun"
        /\ IF ~callback[c].arrives THEN Miss(FALSE)
           ELSE IF ~Order[o].hasOrder THEN Refuse
           ELSE IF custom(o) = NoString THEN Miss(TRUE)
           ELSE IF custom(o) \in Malformed \/ ~Accepted(o) THEN Refuse
           ELSE /\ callback' = [callback EXCEPT ![c].pc = "save"]
                /\ UNCHANGED <<settled, missed>>
        /\ UNCHANGED invoices

\* The error of BufPut is logged only, and so is that of reading the blob again.
Save(c) ==
    LET o == callback[c].order
    IN  /\ callback[c].pc = "save"
        /\ \/ invoices' = [invoices EXCEPT ![custom(o)] = Blob(o)] /\ UNCHANGED missed
           \/ missed' = missed \cup {o} /\ UNCHANGED invoices
        /\ callback' = [callback EXCEPT ![c].pc = "retrieve"]
        /\ UNCHANGED settled

Retrieve(c) ==
    callback[c].pc = "retrieve" /\ Reply(c, OK, FALSE) /\ UNCHANGED <<invoices, missed>>

PaymentNext == \E c \in Callbacks : Announce(c) \/ Begin(c) \/ Save(c) \/ Retrieve(c)

PaymentSpec == PaymentInit /\ [][PaymentNext]_paymentVars

(***************************************************************************)
(* An invoice is of a completed order and its amount, and an order that    *)
(* Coinbase took for settled has one, or a later one of the same buyer and *)
(* product, unless a failure kept it out that nobody told Coinbase.        *)
(***************************************************************************)
InvoicesMatchOrders ==
    /\ \A k \in Keys : \A inv \in invoices[k] :
          Order[inv.order].status = "completed" /\ inv.F = BTC(inv.order) /\ custom(inv.order) = k
    /\ \A o \in settled \ missed : custom(o) \in Keys /\ invoices[custom(o)] # Nothing
=============================================================================
