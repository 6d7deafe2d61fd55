---------------------------- MODULE Subscriptions ----------------------------
(***************************************************************************)
(* packages/shared/src/subscriptions/subscription-service.ts: activation,  *)
(* cancellation and the expiry batch on the row of one user and the        *)
(* user's subscription history.  user.update locks the row until the       *)
(* transaction ends; the expiry batch works from a list it read earlier.   *)
(* A notification hook may run after each commit and may throw.            *)
(***************************************************************************)
EXTENDS Integers, Sequences

CONSTANTS
    Calls,      \* activations and cancellations, each runs once
    SubBatches, \* runs of checkExpiredSubscriptions
    Nobody,
    PaidTiers,
    Durations,  \* durationDays a caller asks for
    SubMaxTime

ASSUME NobodyIsNone == Nobody \notin Calls \cup SubBatches
ASSUME GiftIsFree == "Gift" \notin PaidTiers
ASSUME SubTimesAreNats == Durations \subseteq Nat \ {0} /\ SubMaxTime \in Nat

NoDate == -1        \* subscription_expires_at or canceled_at is NULL

VARIABLES
    overlap,   \* fixed for a behaviour: may a batch overlap with other operations on
               \* the user?
    subNow,
    user,      \* tier, expires, autoRenew of the row, committed
    history,   \* subscription_history, committed, by creation
    rowLock,   \* transaction that has updated the row and is open
    call,      \* what each activation or cancellation is doing
    subBatch,  \* what each expiry run is doing
    downgrades \* committed downgrades by a batch: the expiry date they ended

subVars == <<overlap, subNow, user, history, rowLock, call, subBatch, downgrades>>

IdleCall == [pc |-> "idle", op |-> "activate", tier |-> "Gift", days |-> 0, renew |-> FALSE,
             at |-> 0]

SubInit ==
    /\ overlap \in BOOLEAN
    /\ subNow = 0
    /\ user = [tier |-> "Gift", expires |-> NoDate, autoRenew |-> FALSE]
    /\ history = <<>>
    /\ rowLock = Nobody
    /\ call = [c \in Calls |-> IdleCall]
    /\ subBatch = [b \in SubBatches |-> "idle"]
    /\ downgrades = {}

SubTick ==
    /\ subNow < SubMaxTime
    /\ subNow' = subNow + 1
    /\ UNCHANGED <<overlap, user, history, rowLock, call, subBatch, downgrades>>

CallBusy == \E c \in Calls : call[c].pc \in {"begun", "updated"}
SubBatchBusy == \E b \in SubBatches : subBatch[b] \in {"listed", "updated"}

-----------------------------------------------------------------------------
(* activateSubscription and cancelSubscription. *)

Begin(c, op, t, n, r) ==
    /\ call[c].pc = "idle"
    /\ ~overlap => ~SubBatchBusy
    /\ call' = [call EXCEPT ![c] = [pc |-> "begun", op |-> op, tier |-> t, days |-> n, renew |-> r,
                                    at |-> subNow]]
    /\ UNCHANGED <<overlap, subNow, user, history, rowLock, subBatch, downgrades>>

Activate(c) ==
    \E t \in PaidTiers, n \in Durations, r \in BOOLEAN : Begin(c, "activate", t, n, r)
CancelAtEnd(c) == Begin(c, "cancelAtEnd", "Gift", 0, FALSE)
CancelNow(c) == Begin(c, "cancelNow", "Gift", 0, FALSE)

Goto(c, pc) == call' = [call EXCEPT ![c].pc = pc]
Finish(c, pc) == call' = [call EXCEPT ![c] = [IdleCall EXCEPT !.pc = pc]]

\* The UPDATE of the row waits for the lock of another transaction.
UpdateUser(c) ==
    /\ call[c].pc = "begun"
    /\ rowLock = Nobody
    /\ rowLock' = c
    /\ Goto(c, "updated")
    /\ UNCHANGED <<overlap, subNow, user, history, subBatch, downgrades>>

\* The row the transaction commits; the period starts when the operation started.
NewUser(k) ==
    CASE k.op = "activate"    -> [tier |-> k.tier, expires |-> k.at + k.days,
                                  autoRenew |-> k.renew]
      [] k.op = "cancelAtEnd" -> [user EXCEPT !.autoRenew = FALSE]
      [] k.op = "cancelNow"   -> [tier |-> "Gift", expires |-> NoDate, autoRenew |-> FALSE]

Entry(k) == [tier |-> k.tier, expires |-> k.at + k.days, autoRenew |-> k.renew,
             canceled |-> NoDate]

\* Mutant: the cancellation is recorded in the first entry.
NewHistory_Oldest(k) ==
    IF k.op = "activate" THEN Append(history, Entry(k))
    ELSE IF history = <<>> \/ history[1].canceled # NoDate
         THEN history
         ELSE [history EXCEPT ![1] = [@ EXCEPT !.canceled = k.at, !.autoRenew = FALSE]]

\* An activation adds an entry, a cancellation closes the latest one if it is open.
NewHistory(k) ==
    LET n == Len(history) IN
    IF k.op = "activate" THEN Append(history, Entry(k))
    ELSE IF history = <<>> \/ history[n].canceled # NoDate
         THEN history
         ELSE [history EXCEPT ![n] = [@ EXCEPT !.canceled = k.at, !.autoRenew = FALSE]]

Commit(c) ==
    /\ call[c].pc = "updated"
    /\ user' = NewUser(call[c])
    /\ history' = NewHistory(call[c])
    /\ rowLock' = Nobody
    /\ Finish(c, "committed")
    /\ UNCHANGED <<overlap, subNow, subBatch, downgrades>>

\* The hook is awaited after the commit; an exception makes the result an error.
Hook(c) ==
    /\ call[c].pc = "committed"
    /\ \/ Finish(c, "ok")
       \/ Finish(c, "error")
    /\ UNCHANGED <<overlap, subNow, user, history, rowLock, subBatch, downgrades>>

\* A statement fails, a timeout, or the user does not exist: rollback.
Abort(c) ==
    /\ call[c].pc \in {"begun", "updated"}
    /\ rowLock' = IF rowLock = c THEN Nobody ELSE rowLock
    /\ Finish(c, "error")
    /\ UNCHANGED <<overlap, subNow, user, history, subBatch, downgrades>>

-----------------------------------------------------------------------------
(* checkExpiredSubscriptions. *)

\* Mutant: a subscription also expires on its last day.
Expired_Early == user.tier # "Gift" /\ user.expires # NoDate /\ user.expires <= subNow

\* The WHERE clause of findMany.
Expired == user.tier # "Gift" /\ user.expires # NoDate /\ user.expires < subNow

BatchGoto(b, pc) == subBatch' = [subBatch EXCEPT ![b] = pc]

ListExpired(b) ==
    /\ subBatch[b] = "idle"
    /\ ~overlap => ~(CallBusy \/ SubBatchBusy)
    /\ BatchGoto(b, IF Expired THEN "listed" ELSE "done")
    /\ UNCHANGED <<overlap, subNow, user, history, rowLock, call, downgrades>>

\* The row is not looked at again before it is updated.
LockExpired(b) ==
    /\ subBatch[b] = "listed"
    /\ rowLock = Nobody
    /\ rowLock' = b
    /\ BatchGoto(b, "updated")
    /\ UNCHANGED <<overlap, subNow, user, history, call, downgrades>>

\* The downgrade keeps the expiry date and the history.
Downgrade(b) ==
    /\ subBatch[b] = "updated"
    /\ user' = [user EXCEPT !.tier = "Gift", !.autoRenew = FALSE]
    /\ downgrades' = downgrades \cup {[from |-> user.tier, expires |-> user.expires, at |-> subNow]}
    /\ rowLock' = Nobody
    /\ BatchGoto(b, "committed")
    /\ UNCHANGED <<overlap, subNow, history, call>>

\* The hook's exception is caught: the user is reported as not expired, and nothing else.
Report(b) ==
    /\ subBatch[b] = "committed"
    /\ BatchGoto(b, "done")
    /\ UNCHANGED <<overlap, subNow, user, history, rowLock, call, downgrades>>

AbortBatch(b) ==
    /\ subBatch[b] \in {"listed", "updated"}
    /\ rowLock' = IF rowLock = b THEN Nobody ELSE rowLock
    /\ BatchGoto(b, "done")
    /\ UNCHANGED <<overlap, subNow, user, history, call, downgrades>>

-----------------------------------------------------------------------------
(* getStatus. *)

IsActive == user.tier = "Gift" \/ (user.expires # NoDate /\ user.expires > subNow)

SubNext ==
    \/ SubTick
    \/ \E c \in Calls :
         \/ Activate(c) \/ CancelAtEnd(c) \/ CancelNow(c)
         \/ UpdateUser(c) \/ Commit(c) \/ Hook(c) \/ Abort(c)
    \/ \E b \in SubBatches :
         ListExpired(b) \/ LockExpired(b) \/ Downgrade(b) \/ Report(b) \/ AbortBatch(b)

SubSpec == SubInit /\ [][SubNext]_subVars

-----------------------------------------------------------------------------
(* Properties. *)

\* Dates that are a number of days after an operation.
Dates == {t + n : t \in 0..SubMaxTime, n \in Durations}

\* Every variable keeps its type: a date on the row or in the history, and the date a
\* downgrade ended, is the end of a period that was asked for, counted from the time of a call.
SubTypeOK ==
    /\ overlap \in BOOLEAN
    /\ subNow \in 0..SubMaxTime
    /\ user \in [tier : PaidTiers \cup {"Gift"}, expires : Dates \cup {NoDate}, autoRenew : BOOLEAN]
    /\ history \in Seq([tier : PaidTiers, expires : Dates, autoRenew : BOOLEAN,
                        canceled : 0..SubMaxTime \cup {NoDate}])
    /\ rowLock \in Calls \cup SubBatches \cup {Nobody}
    /\ call \in [Calls -> [pc : {"idle", "begun", "updated", "committed", "ok", "error"},
                           op : {"activate", "cancelAtEnd", "cancelNow"},
                           tier : PaidTiers \cup {"Gift"}, days : Durations \cup {0},
                           renew : BOOLEAN, at : 0..SubMaxTime]]
    /\ subBatch \in [SubBatches -> {"idle", "listed", "updated", "committed", "done"}]
    /\ downgrades \subseteq [from : PaidTiers \cup {"Gift"}, expires : Dates \cup {NoDate},
                             at : 0..SubMaxTime]

Latest == history[Len(history)]

\* However operations interleave, a paid row is explained by the latest history entry:
\* same tier, same period, same renewal.
PaidRowMatchesHistory ==
    user.tier # "Gift" =>
        /\ history # <<>>
        /\ Latest.tier = user.tier /\ Latest.expires = user.expires
        /\ Latest.autoRenew = user.autoRenew

\* Nobody is left with renewal on a free row: every way down turns autoRenew off.
FreeRowDoesNotRenew == user.tier = "Gift" => ~user.autoRenew

\* The row and the history explain each other.
RowMatchesHistory == PaidRowMatchesHistory /\ FreeRowDoesNotRenew

\* "Check and process expired subscriptions" (subscription-service.ts 230): unless it
\* overlaps with a renewal, a batch only ends subscriptions whose date has passed, and
\* none that getStatus still calls active.
SerialActiveSurvivesBatch ==
    [][~overlap /\ downgrades' # downgrades =>
           user.tier = "Gift" \/ (user.expires < subNow /\ ~IsActive)]_subVars
=============================================================================
