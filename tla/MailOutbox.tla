------------------------------ MODULE MailOutbox ------------------------------
(***************************************************************************)
(* Outgoing mail.  A composed message waits in the 'scheduled' folder for  *)
(* its time; a sweep hands it over to an envelope of the outbox in one     *)
(* transaction; senders claim due envelopes under a lease of five minutes, *)
(* renew it while they send, and save the result if the claim is still     *)
(* theirs.  sendNow makes an envelope it has claimed itself.               *)
(*                                                                         *)
(* A sender is one pass of runMailOutboxJob's loop or one call of sendNow; *)
(* it is cut around the provider's answer.  Its identity is its claim      *)
(* token, which is fresh in each pass.  `soon` holds the envelopes whose   *)
(* next_attempt_at has come; for an envelope being sent that is the end of *)
(* the lease, which may come under a live sender, since a renewal may fail *)
(* without a word.                                                         *)
(***************************************************************************)

EXTENDS Naturals

CONSTANTS
    Messages,     \* messages composed in the Email application
    Envelopes,    \* rows of email_outbox
    Senders,
    NoSender,     \* claim_token is null
    NoEnvelope,   \* outbox_id is null; an idle sender's envelope
    MailAttempts  \* max_attempts: 5

ASSUME MailConstants ==
    /\ MailAttempts \in Nat \ {0}
    /\ NoSender \notin Senders
    /\ NoEnvelope \notin Envelopes

VARIABLES
    folder,     \* folder of a message, "none" before and "deleted" after it
    timer,      \* its scheduled_at: "off", "waiting" or "due"
    envelope,   \* its outbox_id
    listed,     \* messages some sweep has read as due and not yet passed
    mail,       \* status of an envelope, "none" before it exists
    attempts,   \* its attempts
    token,      \* its claim_token
    soon,       \* envelopes whose next_attempt_at has come
    sender,     \* where each sender is
    holds,      \* the envelope it has claimed
    before,     \* attempts of the row it claimed
    result,     \* the answer it has to save
    handed,     \* history: hand-overs of a message, counted up to 2
    taken,      \* history: times the provider took an envelope, up to 2
    retaken,    \* history: envelopes claimed again after a lease ran out
    ambiguous   \* history: envelopes taken by the provider and reported failed

messageVars == <<folder, timer, envelope, listed>>
outboxVars  == <<mail, attempts, token, soon>>
senderVars  == <<sender, holds, before, result>>
mailHistory == <<handed, taken, retaken, ambiguous>>
mailVars    == <<messageVars, outboxVars, senderVars, mailHistory>>

Folder     == {"none", "scheduled", "filed", "deleted"}  \* filed: in any other folder
MailStatus == {"none", "pending", "sending", "failed", "sent", "simulated", "cancelled"}

MailInit ==
    /\ folder    = [m \in Messages |-> "none"]
    /\ timer     = [m \in Messages |-> "off"]
    /\ envelope  = [m \in Messages |-> NoEnvelope]
    /\ listed    = {}
    /\ mail      = [r \in Envelopes |-> "none"]
    /\ attempts  = [r \in Envelopes |-> 0]
    /\ token     = [r \in Envelopes |-> NoSender]
    /\ soon      = {}
    /\ sender    = [s \in Senders |-> "idle"]
    /\ holds     = [s \in Senders |-> NoEnvelope]
    /\ before    = [s \in Senders |-> 0]
    /\ result    = [s \in Senders |-> "none"]
    /\ handed    = [m \in Messages |-> 0]
    /\ taken     = [r \in Envelopes |-> 0]
    /\ retaken   = {}
    /\ ambiguous = {}

UpToTwo(n) == IF n = 0 THEN 1 ELSE 2
--------------------------------------------------------------------------------
(* The message                                                             *)

\* POST /send: nothing goes out before the undo window, or the chosen time.
SendMessage(m) ==
    /\ folder[m] = "none"
    /\ folder' = [folder EXCEPT ![m] = "scheduled"]
    /\ timer' = [timer EXCEPT ![m] = "waiting"]
    /\ UNCHANGED <<envelope, listed, outboxVars, senderVars, mailHistory>>

TimerRings(m) ==
    /\ timer[m] = "waiting"
    /\ timer' = [timer EXCEPT ![m] = "due"]
    /\ UNCHANGED <<folder, envelope, listed, outboxVars, senderVars, mailHistory>>

\* A mutated DeliveryStarted: PATCH takes every scheduled message for waiting.
NeverStarted(m) == FALSE

DeliveryStarted(m) == folder[m] = "scheduled" /\ envelope[m] # NoEnvelope

Reschedule(m) ==
    /\ folder[m] = "scheduled"
    /\ ~DeliveryStarted(m)
    /\ timer' = [timer EXCEPT ![m] = "waiting"]
    /\ UNCHANGED <<folder, envelope, listed, outboxVars, senderVars, mailHistory>>

\* PATCH with a folder: any of them, back to 'scheduled' too.  scheduled_at
\* stays what it was.
PatchFolder(m) ==
    /\ folder[m] \notin {"none", "deleted"}
    /\ ~DeliveryStarted(m)
    /\ \E f \in {"scheduled", "filed"} : folder' = [folder EXCEPT ![m] = f]
    /\ UNCHANGED <<timer, envelope, listed, outboxVars, senderVars, mailHistory>>

\* The toolbar moves and deletes what is selected, whatever its delivery does.
BulkAction(m) ==
    /\ folder[m] \notin {"none", "deleted"}
    /\ \E f \in {"filed", "deleted"} : folder' = [folder EXCEPT ![m] = f]
    /\ UNCHANGED <<timer, envelope, listed, outboxVars, senderVars, mailHistory>>

\* A mutated Cancellable: an envelope being sent can be cancelled as well.
CancellableAnyTime(r) == mail[r] \in {"pending", "sending", "failed", "simulated"}

Cancellable(r) == mail[r] \in {"pending", "failed", "simulated"}

\* DELETE cancels the envelope of a scheduled message, or answers 409.
DeleteMessage(m) ==
    /\ folder[m] \notin {"none", "deleted"}
    /\ LET r == envelope[m] IN
       IF DeliveryStarted(m)
          THEN /\ Cancellable(r)
               /\ mail' = [mail EXCEPT ![r] = "cancelled"]
               /\ token' = [token EXCEPT ![r] = NoSender]
          ELSE UNCHANGED <<mail, token>>
    /\ folder' = [folder EXCEPT ![m] = "deleted"]
    /\ UNCHANGED <<timer, envelope, listed, attempts, soon, senderVars, mailHistory>>
--------------------------------------------------------------------------------
(* New envelopes                                                           *)

\* A mutated StatusAtInsert: an envelope that is claimed at birth looks free.
StatusAtInsertPending(claimed) == "pending"

StatusAtInsert(claimed) == IF claimed THEN "sending" ELSE "pending"

\* Mail of the other applications, queued without a message of its own.
Enqueue(r) ==
    /\ mail[r] = "none"
    /\ mail' = [mail EXCEPT ![r] = StatusAtInsert(FALSE)]
    /\ soon' = soon \cup {r}
    /\ UNCHANGED <<messageVars, attempts, token, senderVars, mailHistory>>
--------------------------------------------------------------------------------
(* The hand-over                                                           *)

ScheduledAndDue(m) == folder[m] = "scheduled" /\ timer[m] = "due"

ListDue ==
    /\ \E m \in Messages : ScheduledAndDue(m) /\ m \notin listed
    /\ listed' = listed \cup {m \in Messages : ScheduledAndDue(m)}
    /\ UNCHANGED <<folder, timer, envelope, outboxVars, senderVars, mailHistory>>

\* A mutated StillDue: the list is believed.
StillDueUnread(m) == TRUE

\* What the transaction reads again, with the row locked.
StillDue(m) == ScheduledAndDue(m)

\* The sweep goes on; another one may have the message on its list as well.
Pass(m) == listed' \in {listed, listed \ {m}}

HandOver(m, r) ==
    /\ m \in listed
    /\ StillDue(m)
    /\ mail[r] = "none"
    /\ mail' = [mail EXCEPT ![r] = StatusAtInsert(FALSE)]
    /\ soon' = soon \cup {r}
    /\ envelope' = [envelope EXCEPT ![m] = r]
    /\ timer' = [timer EXCEPT ![m] = "off"]
    /\ handed' = [handed EXCEPT ![m] = UpToTwo(@)]
    /\ Pass(m)
    /\ UNCHANGED <<folder, attempts, token, senderVars, taken, retaken, ambiguous>>

\* A message without recipient goes back to the drafts.
ReturnToDrafts(m) ==
    /\ m \in listed
    /\ StillDue(m)
    /\ folder' = [folder EXCEPT ![m] = "filed"]
    /\ timer' = [timer EXCEPT ![m] = "off"]
    /\ Pass(m)
    /\ UNCHANGED <<envelope, outboxVars, senderVars, mailHistory>>

\* Gone, changed, or locked by another sweep, or the transaction failed.
PassOver(m) ==
    /\ m \in listed
    /\ listed' = listed \ {m}
    /\ UNCHANGED <<folder, timer, envelope, outboxVars, senderVars, mailHistory>>
--------------------------------------------------------------------------------
(* The sender                                                              *)

Begin(s, r, n) ==
    /\ sender' = [sender EXCEPT ![s] = "send"]
    /\ holds' = [holds EXCEPT ![s] = r]
    /\ before' = [before EXCEPT ![s] = n]
    /\ result' = [result EXCEPT ![s] = "none"]

End(s) ==
    /\ sender' = [sender EXCEPT ![s] = "idle"]
    /\ holds' = [holds EXCEPT ![s] = NoEnvelope]
    /\ before' = [before EXCEPT ![s] = 0]
    /\ result' = [result EXCEPT ![s] = "none"]

SendNow(s, r) ==
    /\ sender[s] = "idle"
    /\ mail[r] = "none"
    /\ mail' = [mail EXCEPT ![r] = StatusAtInsert(TRUE)]
    /\ token' = [token EXCEPT ![r] = s]
    /\ Begin(s, r, 0)
    /\ UNCHANGED <<messageVars, attempts, soon, mailHistory>>

\* A mutated Claimable: a failed envelope is tried again without end.
ClaimableForever(r) == mail[r] \in {"pending", "sending", "failed"}

Claimable(r) ==
    \/ mail[r] \in {"pending", "sending"}
    \/ mail[r] = "failed" /\ attempts[r] < MailAttempts

ClaimMail(s, r) ==
    /\ sender[s] = "idle"
    /\ r \in soon
    /\ Claimable(r)
    /\ mail' = [mail EXCEPT ![r] = "sending"]
    /\ token' = [token EXCEPT ![r] = s]
    /\ soon' = soon \ {r}
    /\ retaken' = IF mail[r] = "sending" THEN retaken \cup {r} ELSE retaken
    /\ Begin(s, r, attempts[r])
    /\ UNCHANGED <<messageVars, attempts, handed, taken, ambiguous>>

\* The backoff is over, or the lease.
MailTimePasses(r) ==
    /\ mail[r] \in {"pending", "sending", "failed"}
    /\ r \notin soon
    /\ soon' = soon \cup {r}
    /\ UNCHANGED <<messageVars, mail, attempts, token, senderVars, mailHistory>>

Heartbeat(s) ==
    /\ sender[s] = "send"
    /\ token[holds[s]] = s
    /\ holds[s] \in soon
    /\ soon' = soon \ {holds[s]}
    /\ UNCHANGED <<messageVars, mail, attempts, token, senderVars, mailHistory>>

\* The provider takes the mail or not, and the answer may be lost.
Deliver(s) ==
    /\ sender[s] = "send"
    /\ \E answer \in {"sent", "simulated", "failed"}, there \in BOOLEAN :
          /\ answer = "sent" => there
          /\ answer = "simulated" => ~there
          /\ result' = [result EXCEPT ![s] = answer]
          /\ taken' = IF there THEN [taken EXCEPT ![holds[s]] = UpToTwo(@)] ELSE taken
          /\ ambiguous' = IF there /\ answer = "failed" THEN ambiguous \cup {holds[s]}
                                                        ELSE ambiguous
    /\ sender' = [sender EXCEPT ![s] = "save"]
    /\ UNCHANGED <<messageVars, outboxVars, holds, before, handed, retaken>>

\* A mutated StillClaimed: a late result is saved as well.
ClaimedOnce(s) == mail[holds[s]] # "none"

StillClaimed(s) == token[holds[s]] = s

\* A mail that was sent goes to 'sent', one that is given up to 'drafts',
\* wherever the user has moved the message.
Leaves(m, s) ==
    /\ envelope[m] = holds[s]
    /\ folder[m] # "deleted"
    /\ result[s] = "failed" => before[s] + 1 >= MailAttempts

SaveResult(s) ==
    /\ sender[s] = "save"
    /\ StillClaimed(s)
    /\ mail' = [mail EXCEPT ![holds[s]] = result[s]]
    /\ attempts' = [attempts EXCEPT ![holds[s]] = before[s] + 1]
    /\ token' = [token EXCEPT ![holds[s]] = NoSender]
    /\ soon' = soon \ {holds[s]}
    /\ folder' = [m \in Messages |-> IF Leaves(m, s) THEN "filed" ELSE folder[m]]
    /\ End(s)
    /\ UNCHANGED <<timer, envelope, listed, mailHistory>>

\* The claim is another sender's, or nobody's any more.
DropResult(s) ==
    /\ sender[s] = "save"
    /\ ~StillClaimed(s)
    /\ End(s)
    /\ UNCHANGED <<messageVars, outboxVars, mailHistory>>

\* The process dies, or the result could not be saved: the claim stays.
SenderDies(s) ==
    /\ sender[s] # "idle"
    /\ End(s)
    /\ UNCHANGED <<messageVars, outboxVars, mailHistory>>
--------------------------------------------------------------------------------
MailNext ==
    \/ \E m \in Messages : \/ SendMessage(m) \/ TimerRings(m) \/ Reschedule(m)
                           \/ PatchFolder(m) \/ BulkAction(m) \/ DeleteMessage(m)
                           \/ ReturnToDrafts(m) \/ PassOver(m)
    \/ ListDue
    \/ \E m \in Messages, r \in Envelopes : HandOver(m, r)
    \/ \E s \in Senders, r \in Envelopes : SendNow(s, r) \/ ClaimMail(s, r)
    \/ \E r \in Envelopes : Enqueue(r) \/ MailTimePasses(r)
    \/ \E s \in Senders : \/ Heartbeat(s) \/ Deliver(s) \/ SaveResult(s)
                          \/ DropResult(s) \/ SenderDies(s)

MailSpec == MailInit /\ [][MailNext]_mailVars
--------------------------------------------------------------------------------
MailTypeOK ==
    /\ folder \in [Messages -> Folder]
    /\ timer \in [Messages -> {"off", "waiting", "due"}]
    /\ envelope \in [Messages -> Envelopes \cup {NoEnvelope}]
    /\ listed \subseteq Messages
    /\ mail \in [Envelopes -> MailStatus]
    /\ attempts \in [Envelopes -> 0..MailAttempts]
    /\ token \in [Envelopes -> Senders \cup {NoSender}]
    /\ soon \subseteq Envelopes
    /\ sender \in [Senders -> {"idle", "send", "save"}]
    /\ holds \in [Senders -> Envelopes \cup {NoEnvelope}]
    /\ before \in [Senders -> 0 .. MailAttempts - 1]
    /\ result \in [Senders -> {"none", "sent", "simulated", "failed"}]
    /\ handed \in [Messages -> 0..2]
    /\ taken \in [Envelopes -> 0..2]
    /\ retaken \subseteq Envelopes
    /\ ambiguous \subseteq Envelopes

\* A message is handed over once, through overlapping sweeps, moves between the
\* folders and changes of its time.
HandedOverOnce == \A m \in Messages : handed[m] <= 1

\* The provider takes an envelope twice only when a lease ran out under its
\* sender or when it took a mail it reported as failed.
DuplicatesExcused == \A r \in Envelopes : taken[r] = 2 => r \in retaken \cup ambiguous

\* No late result, claim or cancellation moves an envelope that was sent.
SentIsFinal == [][\A r \in Envelopes : mail[r] = "sent" => mail'[r] = "sent"]_mailVars

\* After a delete that was not refused the provider gets nothing more, but from
\* a sender whose lease had run out.
CancelHolds ==
    [][\A r \in Envelopes : mail[r] = "cancelled" /\ taken'[r] # taken[r] => r \in retaken]_mailVars

\* Undo: a message deleted before its hand-over gets no envelope from a sweep
\* that had already listed it.
UndoHolds ==
    [][\A m \in Messages : folder[m] = "deleted" => envelope'[m] = envelope[m]]_mailVars
================================================================================
