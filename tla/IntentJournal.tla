---------------------------- MODULE IntentJournal ----------------------------
(***************************************************************************)
(* What reconciliation promises about its mutations, with no process, lock *)
(* or crash in sight: a journal of intents, one per service restart.  An   *)
(* intent is written before its effect; the next one is written only when  *)
(* the last is settled; an effect happens at most once, and only while its *)
(* intent is open; what is settled stays, except that the last intent may  *)
(* be opened again when its completion could not be made to stick.         *)
(***************************************************************************)
EXTENDS Naturals, Sequences

CONSTANTS
  Thing,        \* what an intent is about
  MaxIntents    \* bound on the length of the journal

VARIABLES
  journal,      \* the intents: what each is about and whether it is open
  effect        \* how often each intent took effect

journalVars == <<journal, effect>>

LastOpen == journal # << >> /\ journal[Len(journal)].open

JournalInit ==
  /\ journal = << >>
  /\ effect = [k \in 1..MaxIntents |-> 0]

WriteIntent(t) ==
  /\ ~LastOpen
  /\ Len(journal) < MaxIntents
  /\ journal' = Append(journal, [about |-> t, open |-> TRUE])
  /\ UNCHANGED effect

TakeEffect ==
  /\ LastOpen
  /\ effect[Len(journal)] = 0
  /\ effect' = [effect EXCEPT ![Len(journal)] = 1]
  /\ UNCHANGED journal

Settle ==
  /\ LastOpen
  /\ journal' = [journal EXCEPT ![Len(journal)].open = FALSE]
  /\ UNCHANGED effect

Reopen ==
  /\ journal # << >>
  /\ ~LastOpen
  /\ journal' = [journal EXCEPT ![Len(journal)].open = TRUE]
  /\ UNCHANGED effect

JournalNext == (\E t \in Thing : WriteIntent(t)) \/ TakeEffect \/ Settle \/ Reopen

JournalSpec == JournalInit /\ [][JournalNext]_journalVars
=============================================================================
