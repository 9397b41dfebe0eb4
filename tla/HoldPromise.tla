----------------------------- MODULE HoldPromise -----------------------------
(***************************************************************************)
(* What a hold invoice promises to the people who pay one, whatever the    *)
(* daemon and its node go through on the way: the money of a payer is      *)
(* either kept or returned, once; it is kept only after somebody asked for *)
(* it; and the book the daemon keeps never says anything the node did not  *)
(* do.  HoldInvoice (one invoice and its effects in detail) implements     *)
(* this specification.                                                     *)
(***************************************************************************)

CONSTANT Hold        \* the invoices, one per payment hash

VARIABLES fate,      \* what became of the payer's money, at the node
          book,      \* what the daemon has on record
          asked      \* has the daemon been told to keep the money?

vars == <<fate, book, asked>>

Fates == {"unpaid", "held", "kept", "returned"}
Books == {"open", "kept", "returned"}

Init == /\ fate = [h \in Hold |-> "unpaid"]
        /\ book = [h \in Hold |-> "open"]
        /\ asked = [h \in Hold |-> FALSE]

\* A payer's money can only be caught while the book still counts on it.
Pay(h) == /\ fate[h] = "unpaid" /\ book[h] = "open"
          /\ fate' = [fate EXCEPT ![h] = "held"]
          /\ UNCHANGED <<book, asked>>

Ask(h) == /\ asked' = [asked EXCEPT ![h] = TRUE]
          /\ UNCHANGED <<fate, book>>

Keep(h) == /\ fate[h] = "held" /\ book[h] = "open" /\ asked[h]
           /\ fate' = [fate EXCEPT ![h] = "kept"]
           /\ UNCHANGED <<book, asked>>

Return(h) == /\ fate[h] \in {"unpaid", "held"}
             /\ fate' = [fate EXCEPT ![h] = "returned"]
             /\ UNCHANGED <<book, asked>>

BookKept(h) == /\ book[h] = "open" /\ fate[h] = "kept"
               /\ book' = [book EXCEPT ![h] = "kept"]
               /\ UNCHANGED <<fate, asked>>

\* An invoice nobody paid may be written off before the node forgets it.
BookReturned(h) == /\ book[h] = "open" /\ fate[h] \in {"unpaid", "returned"}
                   /\ book' = [book EXCEPT ![h] = "returned"]
                   /\ UNCHANGED <<fate, asked>>

Next == \E h \in Hold : \/ Pay(h) \/ Ask(h) \/ Keep(h) \/ Return(h)
                        \/ BookKept(h) \/ BookReturned(h)

Spec == Init /\ [][Next]_vars
===============================================================================
