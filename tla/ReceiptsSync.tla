------------------------------ MODULE ReceiptsSync ------------------------------
(***************************************************************************)
(* Syncs of one tenant's transmissions with the PEC mailbox: the cursor    *)
(* over the inbox, its rescan when the UIDs have changed, and the lock     *)
(* with its heartbeat and its takeover, from sdi-receipts-sync.service.ts, *)
(* pec-imap.service.ts (readInbox) and sdi-receipts.scheduler.ts.          *)
(*                                                                         *)
(* What a receipt does to its transmission is in SdiTransmissions; here a  *)
(* transmission is awaited, in error (the send failed) or decided (by SDI, *)
(* or by a failure the provider reports), and only the receipts that       *)
(* decide are told from the rest of the mail.                              *)
(***************************************************************************)
EXTENDS Integers, Sequences

CONSTANTS
  Syncs,              \* the scheduler and the presses of "Controlla ricevute"
  MaxTransmissions,   \* bound of this model: transmissions ever made
  MaxMail,            \* bound of this model: messages in the inbox
  MaxValidity,        \* bound of this model: UIDVALIDITY values of the inbox
  SlowSyncs,          \* the syncs that may run STALE_LOCK_MS without handling a message
  SmtpAmbiguous,      \* may SMTP report an error after the message has left?
  SlowLogins          \* may a receipt of a transmission made after a sync has looked at the
                      \* transmissions arrive before that sync has opened the inbox?

ASSUME SyncAssumption ==
  /\ MaxTransmissions \in Nat /\ MaxMail \in Nat /\ MaxValidity \in Nat \ {0}
  /\ SlowSyncs \subseteq Syncs /\ SmtpAmbiguous \in BOOLEAN /\ SlowLogins \in BOOLEAN

VARIABLES
  transmission,   \* the PEC SdiTransmission rows: status, and createdAt as the number of messages then in the inbox
  inbox,          \* the messages in the order of their UIDs: the transmission each one decides, or NoOne
  validity,       \* the UIDVALIDITY of the inbox
  cursor,         \* uidValidity (0: null) and lastUid of PecMailboxState
  lock,           \* its syncStartedAt: null, set, or set longer than STALE_LOCK_MS ago
  sync            \* syncs in progress

vars == <<transmission, inbox, validity, cursor, lock, sync>>

Tid      == 1..MaxTransmissions
NoOne    == 0
Position == 0..MaxMail

\* UIDs differ from one UIDVALIDITY to the next; here they are lower, so that an old UID lies past new messages.
Uid(v, k) == k + MaxValidity - v
UidRange  == 0..(MaxMail + MaxValidity - 1)
Cursor    == [validity : 0..MaxValidity, last : UidRange]

Row       == [status : {"none", "awaiting", "error", "decided"}, createdAt : Position]

\* A sync holds the cursor it read and the position to search from (at); once the inbox is open, whether it rescans, its
\* UIDVALIDITY with, for a rescan, the newest UID (cursor), and its list: it has handled what is up to "at", and goes to "to".
SyncState == [pc : {"idle", "claimed", "read", "opened", "listed", "applied", "ending"},
              cursor : Cursor, rescan : BOOLEAN, at : Position, to : Position]
Idle   == [pc |-> "idle", cursor |-> [validity |-> 0, last |-> 0], rescan |-> FALSE, at |-> 0, to |-> 0]
Ending == [Idle EXCEPT !.pc = "ending"]

Running == {p \in Syncs : sync[p].pc # "idle"}

Init ==
  /\ transmission = [t \in Tid |-> [status |-> "none", createdAt |-> 0]]
  /\ inbox = <<>> /\ validity = 1
  /\ cursor = [validity |-> 0, last |-> 0]
  /\ lock = "free"
  /\ sync = [p \in Syncs |-> Idle]

TypeOK ==
  /\ transmission \in [Tid -> Row]
  /\ inbox \in Seq(Tid \cup {NoOne}) /\ Len(inbox) <= MaxMail
  /\ validity \in 1..MaxValidity
  /\ cursor \in Cursor
  /\ lock \in {"free", "held", "stale"}
  /\ sync \in [Syncs -> SyncState]

-----------------------------------------------------------------------------
(***************************************************************************)
(* Transmissions and mail (the environment of the sync).                   *)
(***************************************************************************)

\* SdiTransmissionsService.send makes a row.
Send(t) ==
  /\ transmission[t].status = "none"
  /\ transmission' = [transmission EXCEPT ![t] = [status |-> "awaiting", createdAt |-> Len(inbox)]]
  /\ UNCHANGED <<inbox, validity, cursor, lock, sync>>

\* SMTP reports an error.
SendFails(t) ==
  /\ transmission[t].status = "awaiting"
  /\ \A k \in DOMAIN inbox : inbox[k] # t
  /\ transmission' = [transmission EXCEPT ![t].status = "error"]
  /\ UNCHANGED <<inbox, validity, cursor, lock, sync>>

\* The receipt of t is uploaded by hand.
Upload(t) ==
  /\ transmission[t].status = "awaiting"
  /\ transmission' = [transmission EXCEPT ![t].status = "decided"]
  /\ UNCHANGED <<inbox, validity, cursor, lock, sync>>

\* PEC_TIMEOUTS end a login in a minute, and SDI takes minutes to days: a sync that has read the date to search from
\* opens the inbox before the receipt of a later transmission comes.
LoginEndsFirst(t) == SlowLogins \/ \A p \in Syncs : sync[p].pc = "read" => sync[p].at <= transmission[t].createdAt

\* The receipt of t, unless its message never left; or another message.
Arrive ==
  /\ Len(inbox) < MaxMail
  /\ \E t \in Tid \cup {NoOne} :
       /\ t # NoOne => /\ transmission[t].status \in {"awaiting", "decided"} \/ (SmtpAmbiguous /\ transmission[t].status = "error")
                       /\ \A k \in DOMAIN inbox : inbox[k] # t
                       /\ LoginEndsFirst(t)
       /\ inbox' = Append(inbox, t)
  /\ UNCHANGED <<transmission, validity, cursor, lock, sync>>

\* The provider moves the mailbox: every message gets a new UID (RFC 9051 2.3.1.1).
Renumber ==
  /\ validity < MaxValidity
  /\ validity' = validity + 1
  /\ UNCHANGED <<transmission, inbox, cursor, lock, sync>>

-----------------------------------------------------------------------------
(***************************************************************************)
(* A sync.                                                                 *)
(***************************************************************************)

Awaiting == {t \in Tid : transmission[t].status = "awaiting"}

ClaimableFree == lock = "free"   \* mutant: a stale lock is not taken over
Claimable == lock \in {"free", "stale"}

\* The lock is claimed by one conditional update; a stale one is taken over.  Another sync is answered BUSY.
Claim(p) ==
  /\ sync[p].pc = "idle"
  /\ Claimable
  /\ sync' = [sync EXCEPT ![p].pc = "claimed"]
  /\ lock' = "held"
  /\ UNCHANGED <<transmission, inbox, validity, cursor>>

\* The position after which messages are found: the day before the oldest awaited transmission, which only adds messages
\* read before, is left out; nothing is found when nothing is awaited.
RescanFrom(at) ==
  \/ Awaiting = {} /\ at = MaxMail
  \/ \E oldest \in Awaiting :
       /\ \A t \in Awaiting : transmission[oldest].createdAt <= transmission[t].createdAt
       /\ at = transmission[oldest].createdAt

ReadState(p) ==
  /\ sync[p].pc = "claimed"
  /\ \E at \in Position : RescanFrom(at) /\ sync' = [sync EXCEPT ![p].pc = "read", ![p].cursor = cursor, ![p].at = at]
  /\ UNCHANGED <<transmission, inbox, validity, cursor, lock>>

\* Does the cursor a sync has read hold in an inbox of validity v?
ResumesAnyway(seen, v) == seen.validity # 0   \* mutant: UIDVALIDITY not compared
Resumes(seen, v) == seen.validity = v
UidNext == Uid(validity, Len(inbox)) + 1   \* mutant: the UID to come taken for the newest
Newest == Uid(validity, Len(inbox))

\* A sync that has opened the inbox.
Session(pc, last, rescan, at, to) ==
  [pc |-> pc, cursor |-> [validity |-> validity, last |-> last], rescan |-> rescan, at |-> at, to |-> to]

\* It searches from its date when its cursor does not hold; when the cursor is at the end there is nothing to list.
Opened(s) ==
  CASE ~Resumes(s.cursor, validity) -> Session("opened", Newest, TRUE, s.at, 0)
    [] Resumes(s.cursor, validity) /\ s.cursor.last < Newest -> Session("opened", 0, FALSE, s.cursor.last - Uid(validity, 0), 0)
    [] OTHER -> Session("listed", 0, FALSE, Len(inbox), Len(inbox))

Open(p) ==
  /\ sync[p].pc = "read"
  /\ sync' = [sync EXCEPT ![p] = Opened(sync[p])]
  /\ UNCHANGED <<transmission, inbox, validity, cursor, lock>>

\* Search and sizes, in UID order.  A renumbered inbox answers no command of an old session.
List(p) ==
  /\ sync[p].pc = "opened"
  /\ sync[p].cursor.validity = validity
  /\ sync' = [sync EXCEPT ![p].pc = "listed", ![p].to = Len(inbox)]
  /\ UNCHANGED <<transmission, inbox, validity, cursor, lock>>

\* The next message is fetched and its receipt recorded (SdiReceiptsService.apply).
Apply(p) ==
  LET k == sync[p].at + 1 IN
  /\ sync[p].pc = "listed"
  /\ sync[p].cursor.validity = validity
  /\ k <= sync[p].to
  /\ transmission' = IF inbox[k] = NoOne THEN transmission ELSE [transmission EXCEPT ![inbox[k]].status = "decided"]
  /\ sync' = [sync EXCEPT ![p].pc = "applied", ![p].at = k]
  /\ UNCHANGED <<inbox, validity, cursor, lock>>

\* Its UID is saved, never backwards within a UIDVALIDITY, and the lock is kept alive, whoever holds it.
SaveCursor(s) ==
  LET uid == Uid(s.cursor.validity, s.at) IN
  IF cursor.validity # s.cursor.validity \/ cursor.last < uid
    THEN [validity |-> s.cursor.validity, last |-> uid] ELSE cursor

Save(p) ==
  /\ sync[p].pc = "applied"
  /\ cursor' = SaveCursor(sync[p])
  /\ lock' = "held"
  /\ sync' = [sync EXCEPT ![p].pc = "listed"]
  /\ UNCHANGED <<transmission, inbox, validity>>

\* What is saved at the end: the newest UID at the opening after a rescan, the last of the list otherwise.
LastUid(s) == IF s.rescan THEN s.cursor.last ELSE Uid(s.cursor.validity, s.at)

\* The end of the list: saved whatever the cursor is by now.
Finish(p) ==
  /\ sync[p].pc = "listed"
  /\ sync[p].at >= sync[p].to
  /\ cursor' = [validity |-> sync[p].cursor.validity, last |-> LastUid(sync[p])]
  /\ sync' = [sync EXCEPT ![p] = Ending]
  /\ UNCHANGED <<transmission, inbox, validity, lock>>

\* The mailbox is not configured, or the mailbox or the database answers with an error.
Fail(p) ==
  /\ sync[p].pc \in {"claimed", "read", "opened", "listed", "applied"}
  /\ sync' = [sync EXCEPT ![p] = Ending]
  /\ UNCHANGED <<transmission, inbox, validity, cursor, lock>>

\* The lock is released, whoever holds it.
Release(p) ==
  /\ sync[p].pc = "ending"
  /\ lock' = "free"
  /\ sync' = [sync EXCEPT ![p] = Idle]
  /\ UNCHANGED <<transmission, inbox, validity, cursor>>

\* The API stops, or the database refuses the release: the lock stays.
Stop(p) ==
  /\ p \in Running
  /\ sync' = [sync EXCEPT ![p] = Idle]
  /\ UNCHANGED <<transmission, inbox, validity, cursor, lock>>

\* STALE_LOCK_MS without a heartbeat.
Expire ==
  /\ lock = "held"
  /\ Running \subseteq SlowSyncs
  /\ lock' = "stale"
  /\ UNCHANGED <<transmission, inbox, validity, cursor, sync>>

-----------------------------------------------------------------------------

Mail == Arrive \/ Renumber \/ \E t \in Tid : Send(t) \/ SendFails(t) \/ Upload(t)

\* A sync under way goes on, or fails.
Proceed(p) == ReadState(p) \/ Open(p) \/ List(p) \/ Apply(p) \/ Save(p) \/ Finish(p) \/ Fail(p) \/ Release(p)

Next == Mail \/ Expire \/ \E p \in Syncs : Claim(p) \/ Proceed(p) \/ Stop(p)

Spec == Init /\ [][Next]_vars

\* The scheduler syncs while something is awaited (tenantsAwaitingReceipts).
ScheduledClaim == Awaiting # {} /\ \E p \in Syncs : Claim(p)

\* A sync ends, by its timeouts if not otherwise, and those that stop or fail half way are followed by one that does not.
Fairness ==
  /\ WF_vars(ScheduledClaim) /\ WF_vars(Expire)
  /\ \A p \in Syncs : WF_vars(Proceed(p))
  /\ SF_vars(\E p \in Syncs : ReadState(p)) /\ SF_vars(\E p \in Syncs : Open(p)) /\ SF_vars(\E p \in Syncs : List(p))
  /\ SF_vars(\E p \in Syncs : Apply(p)) /\ SF_vars(\E p \in Syncs : Save(p))

FairSpec == Spec /\ Fairness

-----------------------------------------------------------------------------
(***************************************************************************)
(* Properties.                                                             *)
(***************************************************************************)

\* "Receipts are not lost" (sdi-receipts-sync.service.ts:12): while the saved UIDVALIDITY is that of the inbox, every
\* message at or before the saved UID has been applied, so that no sync starts after a receipt nobody has read; whatever
\* syncs overlap, however late they write the cursor, and wherever they stop.
NoReceiptSkipped ==
  cursor.validity = validity =>
    \A k \in DOMAIN inbox : inbox[k] # NoOne /\ Uid(validity, k) <= cursor.last => transmission[inbox[k]].status = "decided"

\* schema.prisma:471 on syncStartedAt, "Set while a sync runs, so that the periodic sync and the button do not overlap".
LockSet == Running # {} => lock # "free"

\* The receipt of an awaited transmission is read in the end: a lock left by a stop is taken over, and a sync that
\* failed is followed by one that reads on.
ReceiptsRead ==
  \A t \in Tid : (transmission[t].status = "awaiting" /\ \E k \in DOMAIN inbox : inbox[k] = t) ~> transmission[t].status = "decided"
================================================================================
