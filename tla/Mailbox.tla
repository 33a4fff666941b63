------------------------------- MODULE Mailbox -------------------------------
(***************************************************************************)
(* What a receiving driver promises to the loop above it: the payloads the *)
(* radio has accepted are handed up one at a time, in the order in which   *)
(* they came, each once and none invented.  A crash of the program forgets *)
(* the payload in hand and, when the program is up again, the queue; only  *)
(* a Lossy mailbox may throw the queue away while the program is up.       *)
(***************************************************************************)
EXTENDS Sequences, Naturals

CONSTANTS
    Payloads,           \* what may be queued
    Capacity,           \* how much of it
    None,               \* the hand is empty
    Lossy               \* whether a running program may lose its queue

VARIABLES
    inbox,              \* accepted and not yet taken
    hand,               \* taken last and not yet finished with, or None
    up                  \* the program runs

mailbox == <<inbox, hand, up>>

Accept(p) ==
    /\ Len(inbox) < Capacity
    /\ inbox' = Append(inbox, p)
    /\ UNCHANGED <<hand, up>>

Take ==
    /\ up /\ hand = None /\ inbox # <<>>
    /\ hand' = Head(inbox)
    /\ inbox' = Tail(inbox)
    /\ UNCHANGED up

Finish ==
    /\ up /\ hand # None
    /\ hand' = None
    /\ UNCHANGED <<inbox, up>>

Discard ==
    /\ up /\ Lossy
    /\ inbox' = <<>>
    /\ UNCHANGED <<hand, up>>

Crash ==
    /\ up' = FALSE
    /\ hand' = None
    /\ UNCHANGED inbox

Restart ==
    /\ ~ up
    /\ up' = TRUE
    /\ inbox' = <<>>
    /\ UNCHANGED hand

MailboxInit == inbox = <<>> /\ hand = None /\ ~ up

MailboxNext ==
    \/ \E p \in Payloads : Accept(p)
    \/ Take \/ Finish \/ Discard
    \/ Crash \/ Restart

MailboxSpec == MailboxInit /\ [][MailboxNext]_mailbox
=============================================================================
