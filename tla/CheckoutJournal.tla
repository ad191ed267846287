--------------------------- MODULE CheckoutJournal ---------------------------
(***************************************************************************)
(* The in-flight checkout journal                                          *)
(* (daemon/handlers/payments/checkout-journal-store.ts): a map from        *)
(* purchase to phase, rewritten whole to its file by every put and every   *)
(* remove.  put throws when the write fails and takes the record back;     *)
(* remove forgets the record in any case and only logs the failure.        *)
(***************************************************************************)
CONSTANTS Purchases, Phases, None

VARIABLES
  records,     \* the journal of the running process
  journalFile  \* the file a restart reads

journalVars == <<records, journalFile>>

Journal == [Purchases -> Phases \cup {None}]
EmptyJournal == [p \in Purchases |-> None]

JournalInit == records = EmptyJournal /\ journalFile = EmptyJournal

Put(p, phase, wrote) ==
  /\ records' = IF wrote THEN [records EXCEPT ![p] = phase] ELSE records
  /\ journalFile' = IF wrote THEN records' ELSE journalFile

Remove(p, wrote) ==
  /\ records' = [records EXCEPT ![p] = None]
  /\ journalFile' = IF records[p] # None /\ wrote THEN records' ELSE journalFile

(* The constructor reads what the file holds.                              *)
LoadedEmpty == EmptyJournal  \* bug: a journal durable across nothing
Loaded == journalFile
LoadJournal == records' = Loaded /\ UNCHANGED journalFile

Forget == records' = EmptyJournal /\ UNCHANGED journalFile
=============================================================================
