---------------------------- MODULE MonthlyGrants ----------------------------
(***************************************************************************)
(* The two programs that hand out monthly tokens and share the column      *)
(* users.last_gift_claim_at: the bot's /start (auth middleware and         *)
(* onboarding-service.ts) and the renewal batch (monthly-renewal.ts).      *)
(* Both read the user first and write absolute values later.  Time is      *)
(* counted in units; a day has DayLength of them.                          *)
(***************************************************************************)
EXTENDS Integers, Sequences

CONSTANTS
    Users,
    Starts,         \* /start updates, each handled once
    Batches,        \* runs of renewAllEligible
    NoClaim,        \* last_gift_claim_at is NULL
    Period,         \* RENEWAL_PERIODS, in days
    DayLength, MaxTime,
    Allocation,     \* MONTHLY_TOKEN_ALLOCATIONS: tier -> tokens
    GiftAmount,     \* what onboarding awards
    ContinueOnError,
    Environments    \* the environments to consider, see env

Tiers == {"Gift", "Paid"}

ASSUME UsersExist == Users # {}
ASSUME NoClaimIsNone == NoClaim \notin Nat
ASSUME TimesAreNats == Period \in Nat \ {0} /\ DayLength \in Nat \ {0} /\ MaxTime \in Nat
ASSUME AmountsAreNats == Allocation \in [Tiers -> Nat] /\ GiftAmount \in Nat
ASSUME ContinueOnErrorIsBoolean == ContinueOnError \in BOOLEAN
ASSUME EnvironmentsAreRecords ==
    Environments \subseteq
        [overlap : BOOLEAN, faults : BOOLEAN, upgrades : BOOLEAN, users : SUBSET Users]

VARIABLES
    env,        \* fixed for a behaviour: may two grants for one user be in progress at
                \* once, may calls fail, do users buy subscriptions, who is a user?
    now,
    exists,     \* users that have a row
    tier,
    expires,    \* subscription_expires_at of paid users
    claim,      \* last_gift_claim_at
    balance,
    ledger,     \* token_operations of each user, oldest first
    start,      \* what each /start handler knows
    batch       \* what each renewal run knows

userVars == <<exists, tier, expires>>
tokenVars == <<claim, balance, ledger>>
vars == <<env, now, userVars, tokenVars, start, batch>>

AnyUser == CHOOSE u \in Users : TRUE
IdleStart == [pc |-> "idle", user |-> AnyUser, tier |-> "Gift", claim |-> NoClaim, before |-> 0]
IdleBatch == [pc |-> "idle", user |-> AnyUser, before |-> 0, amount |-> 0,
              listed |-> {}, left |-> {}, since |-> 0, failed |-> 0]

Init ==
    /\ env \in Environments
    /\ now = 0
    /\ exists = {}
    /\ tier = [u \in Users |-> "Gift"]
    /\ expires = [u \in Users |-> 0]
    /\ claim = [u \in Users |-> NoClaim]
    /\ balance = [u \in Users |-> 0]
    /\ ledger = [u \in Users |-> <<>>]
    /\ start = [s \in Starts |-> IdleStart]
    /\ batch = [b \in Batches |-> IdleBatch]

-----------------------------------------------------------------------------
(* The environment. *)

Tick ==
    /\ now < MaxTime
    /\ now' = now + 1
    /\ UNCHANGED <<env, userVars, tokenVars, start, batch>>

\* A payment activates a paid tier (SubscriptionService.activateSubscription).
Upgrade(u) ==
    /\ env.upgrades
    /\ u \in exists /\ tier[u] = "Gift"
    /\ tier' = [tier EXCEPT ![u] = "Paid"]
    /\ expires' = [expires EXCEPT ![u] = now + Period * DayLength]
    /\ UNCHANGED <<env, now, exists, tokenVars, start, batch>>

StartBusy(u) == \E s \in Starts : start[s].user = u /\ start[s].pc \notin {"idle", "done"}
BatchBusy(u) == \E b \in Batches : batch[b].user = u
                                   /\ batch[b].pc \in {"checked", "rechecked", "read"}
MayBegin(u) == env.overlap \/ ~(StartBusy(u) \/ BatchBusy(u))

\* TokenService.debit of one token, as one step.
Spend(u) ==
    /\ MayBegin(u)
    /\ balance[u] > 0
    /\ balance' = [balance EXCEPT ![u] = @ - 1]
    /\ ledger' = [ledger EXCEPT ![u] =
                    Append(@, [op |-> "debit", at |-> now,
                               before |-> balance[u], after |-> balance[u] - 1])]
    /\ UNCHANGED <<env, now, userVars, claim, start, batch>>

-----------------------------------------------------------------------------
(* Eligibility and the write. *)

\* getDaysSince: whole days, rounded down.
DaysSince(c) == (now - c) \div DayLength

Due(c) == c = NoClaim \/ DaysSince(c) >= Period

\* Mutant: the claim date is not written.
Grant_NoClaim(u, before, amount) ==
    /\ balance' = [balance EXCEPT ![u] = before + amount]
    /\ ledger' = [ledger EXCEPT ![u] = Append(@, [op |-> "grant", at |-> now,
                                                  before |-> before, after |-> before + amount])]
    /\ UNCHANGED claim

\* Mutant: the amount is subtracted.
Grant_Subtracts(u, before, amount) ==
    /\ balance' = [balance EXCEPT ![u] = before - amount]
    /\ ledger' = [ledger EXCEPT ![u] = Append(@, [op |-> "grant", at |-> now,
                                                  before |-> before, after |-> before - amount])]
    /\ claim' = [claim EXCEPT ![u] = now]

\* The transaction's UPDATE, INSERT and commit: absolute balance, claim date, entry.
Grant(u, before, amount) ==
    /\ balance' = [balance EXCEPT ![u] = before + amount]
    /\ ledger' = [ledger EXCEPT ![u] = Append(@, [op |-> "grant", at |-> now,
                                                  before |-> before, after |-> before + amount])]
    /\ claim' = [claim EXCEPT ![u] = now]

-----------------------------------------------------------------------------
(* /start. *)

StartGoto(s, pc) == start' = [start EXCEPT ![s].pc = pc]

\* authMiddleware: find the user ...
FindUser(s, u) ==
    /\ start[s].pc = "idle"
    /\ u \in env.users /\ MayBegin(u)
    /\ start' = [start EXCEPT ![s] =
                   IF u \in exists
                   THEN [pc |-> "loaded", user |-> u, tier |-> tier[u], claim |-> claim[u],
                         before |-> 0]
                   ELSE [pc |-> "unknown", user |-> u, tier |-> "Gift", claim |-> NoClaim,
                         before |-> 0]]
    /\ UNCHANGED <<env, now, userVars, tokenVars, batch>>

\* ... or create it; the telegram id is unique, a second create is an error.
CreateUser(s) ==
    LET u == start[s].user IN
    /\ start[s].pc = "unknown"
    /\ exists' = exists \cup {u}
    /\ StartGoto(s, IF u \in exists THEN "done" ELSE "loaded")
    /\ UNCHANGED <<env, now, tier, expires, tokenVars, batch>>

\* Telegram answers whether a Gift-tier user is in the channel.
CheckMembership(s) ==
    /\ start[s].pc = "loaded"
    /\ \/ StartGoto(s, "verified")
       \/ start[s].tier = "Gift" /\ StartGoto(s, "done")
    /\ UNCHANGED <<env, now, userVars, tokenVars, batch>>

\* checkGiftEligibility looks at the user object the middleware loaded.
CheckGift(s) ==
    /\ start[s].pc = "verified"
    /\ StartGoto(s, IF start[s].tier = "Gift" /\ Due(start[s].claim) THEN "eligible" ELSE "done")
    /\ UNCHANGED <<env, now, userVars, tokenVars, batch>>

\* awardGiftTokens reads the balance in its transaction, eligibility is not checked again.
ReadForAward(s) ==
    /\ start[s].pc = "eligible"
    /\ start' = [start EXCEPT ![s] = [start[s] EXCEPT !.pc = "read",
                                                    !.before = balance[start[s].user]]]
    /\ UNCHANGED <<env, now, userVars, tokenVars, batch>>

Award(s) ==
    /\ start[s].pc = "read"
    /\ Grant(start[s].user, start[s].before, GiftAmount)
    /\ StartGoto(s, "done")
    /\ UNCHANGED <<env, now, userVars, batch>>

AwardFails(s) ==
    /\ env.faults
    /\ start[s].pc \in {"eligible", "read"}
    /\ StartGoto(s, "done")
    /\ UNCHANGED <<env, now, userVars, tokenVars, batch>>

-----------------------------------------------------------------------------
(* renewAllEligible. *)

\* MonthlyRenewalService.checkEligibility on the current row.
Eligible(u) == ~(tier[u] = "Paid" /\ expires[u] < now) /\ Due(claim[u])

ListUsers(b) ==
    /\ batch[b].pc = "idle"
    /\ batch' = [batch EXCEPT ![b] = [batch[b] EXCEPT !.pc = "listed", !.listed = exists,
                                                      !.left = exists, !.since = now]]
    /\ UNCHANGED <<env, now, userVars, tokenVars, start>>

\* The query throws: the run ends, and 'failed' stays zero.
ListFails(b) ==
    /\ env.faults
    /\ batch[b].pc = "idle"
    /\ batch' = [batch EXCEPT ![b].pc = "done"]
    /\ UNCHANGED <<env, now, userVars, tokenVars, start>>

\* The next user of the list: skipped unless eligible.
NextUser(b) ==
    /\ batch[b].pc = "listed"
    /\ \E u \in batch[b].left :
         /\ MayBegin(u)
         /\ batch' = [batch EXCEPT ![b] =
                        [batch[b] EXCEPT !.left = batch[b].left \ {u}, !.user = u,
                                         !.pc = IF Eligible(u) THEN "checked" ELSE "listed"]]
    /\ UNCHANGED <<env, now, userVars, tokenVars, start>>

EndOfList(b) ==
    /\ batch[b].pc = "listed" /\ batch[b].left = {}
    /\ batch' = [batch EXCEPT ![b].pc = "done"]
    /\ UNCHANGED <<env, now, userVars, tokenVars, start>>

\* Mutant: the batch stops at the first failed renewal in any case.
RenewalFailed_Stops(b, left) ==
    batch' = [batch EXCEPT ![b] = [batch[b] EXCEPT !.failed = batch[b].failed + 1,
                                                   !.left = left, !.pc = "done"]]

\* A failed renewal stops the batch unless continueOnError.
RenewalFailed(b, left) ==
    batch' = [batch EXCEPT ![b] = [batch[b] EXCEPT
                                     !.failed = batch[b].failed + 1, !.left = left,
                                     !.pc = IF ContinueOnError THEN "listed" ELSE "done"]]

\* The batch's own eligibility check throws, for the next user of the list.
CheckFails(b) ==
    /\ env.faults
    /\ batch[b].pc = "listed"
    /\ \E u \in batch[b].left : RenewalFailed(b, batch[b].left \ {u})
    /\ UNCHANGED <<env, now, userVars, tokenVars, start>>

\* renewUser checks again; a user no longer eligible counts as a failure.
Recheck(b) ==
    /\ batch[b].pc = "checked"
    /\ IF Eligible(batch[b].user)
       THEN batch' = [batch EXCEPT ![b].pc = "rechecked"]
       ELSE RenewalFailed(b, batch[b].left)
    /\ UNCHANGED <<env, now, userVars, tokenVars, start>>

\* The balance and tier are read before the transaction.
ReadForRenewal(b) ==
    /\ batch[b].pc = "rechecked"
    /\ batch' = [batch EXCEPT ![b] = [batch[b] EXCEPT
                                        !.pc = "read", !.before = balance[batch[b].user],
                                        !.amount = Allocation[tier[batch[b].user]]]]
    /\ UNCHANGED <<env, now, userVars, tokenVars, start>>

Renew(b) ==
    /\ batch[b].pc = "read"
    /\ Grant(batch[b].user, batch[b].before, batch[b].amount)
    /\ batch' = [batch EXCEPT ![b].pc = "listed"]
    /\ UNCHANGED <<env, now, userVars, start>>

RenewFails(b) ==
    /\ env.faults
    /\ batch[b].pc \in {"checked", "rechecked", "read"}
    /\ RenewalFailed(b, batch[b].left)
    /\ UNCHANGED <<env, now, userVars, tokenVars, start>>

-----------------------------------------------------------------------------
Next ==
    \/ Tick
    \/ \E u \in Users : Upgrade(u) \/ Spend(u)
    \/ \E s \in Starts :
         \/ \E u \in Users : FindUser(s, u)
         \/ CreateUser(s) \/ CheckMembership(s) \/ CheckGift(s)
         \/ ReadForAward(s) \/ Award(s) \/ AwardFails(s)
    \/ \E b \in Batches :
         \/ ListUsers(b) \/ ListFails(b) \/ CheckFails(b) \/ NextUser(b) \/ EndOfList(b) \/ Recheck(b)
         \/ ReadForRenewal(b) \/ Renew(b) \/ RenewFails(b)

Spec == Init /\ [][Next]_vars

-----------------------------------------------------------------------------
(* Properties. *)

EntryType == [op : {"grant", "debit"}, at : Nat, before : Nat, after : Nat]
StartType ==
    [pc : {"idle", "unknown", "loaded", "verified", "eligible", "read", "done"},
     user : Users, tier : Tiers, claim : Nat \cup {NoClaim}, before : Nat]
BatchType ==
    [pc : {"idle", "listed", "checked", "rechecked", "read", "done"},
     user : Users, before : Nat, amount : Nat,
     listed : SUBSET Users, left : SUBSET Users, since : Nat, failed : Nat]

\* Every variable keeps its type; a batch never leaves its list.
TypeOK ==
    /\ env \in Environments
    /\ now \in 0..MaxTime
    /\ exists \subseteq Users
    /\ tier \in [Users -> Tiers] /\ expires \in [Users -> Nat]
    /\ claim \in [Users -> Nat \cup {NoClaim}]
    /\ balance \in [Users -> Nat]
    /\ ledger \in [Users -> Seq(EntryType)]
    /\ start \in [Starts -> StartType]
    /\ batch \in [Batches -> BatchType]
    /\ \A b \in Batches : batch[b].left \subseteq batch[b].listed

\* Where the grants of a user stand in the ledger.
GrantPlaces(u) == {i \in 1..Len(ledger[u]) : ledger[u][i].op = "grant"}

\* The claim date is the date of the newest grant, whichever program made it: neither
\* program can forget that the other has paid out.
ClaimIsNewestGrant ==
    \A u \in Users :
        \/ claim[u] = NoClaim /\ GrantPlaces(u) = {}
        \/ \E i \in GrantPlaces(u) :
              claim[u] = ledger[u][i].at /\ \A j \in GrantPlaces(u) : j <= i

\* Whatever overlaps, the balance is the balanceAfter of the newest ledger entry.
BalanceIsNewestEntry ==
    \A u \in Users :
        balance[u] = IF ledger[u] = <<>> THEN 0 ELSE ledger[u][Len(ledger[u])].after

\* "Multiple /start calls won't duplicate token awards" and "30-day cooldown"
\* (ONBOARDING_IMPLEMENTATION_SUMMARY.md 263, 265): two grants of a user are a
\* full period apart, even when a batch and a /start meet.
GrantsArePeriodApart ==
    \A u \in Users :
        \A i, j \in GrantPlaces(u) :
            i < j => ledger[u][j].at - ledger[u][i].at >= Period * DayLength

\* The same for grants of a user that do not overlap: /start and the batch share the
\* claim date, so neither pays out within the other's period.
SerialGrantsArePeriodApart == ~env.overlap => GrantsArePeriodApart

\* If grants do not overlap, every entry starts from the balance the previous one
\* left, so no grant overwrites a debit made meanwhile.
SerialLedgerChains ==
    ~env.overlap =>
        \A u \in Users : \A i \in 1..Len(ledger[u]) :
            ledger[u][i].before = IF i = 1 THEN 0 ELSE ledger[u][i - 1].after

\* A batch that runs to its end with continueOnError and counts no failure leaves no
\* listed user overdue (as of the time the list was read), except expired subscribers.
CleanBatchLeavesNoneDue ==
    \A b \in Batches :
        batch[b].pc = "done" /\ batch[b].failed = 0 =>
            \A u \in batch[b].listed :
                \/ tier[u] = "Paid" /\ expires[u] < now
                \/ claim[u] # NoClaim /\ (batch[b].since - claim[u]) \div DayLength < Period

\* With continueOnError no user is dropped because another one's renewal failed.
FailureDropsNobody ==
    ContinueOnError =>
        \A b \in Batches : batch[b].pc = "done" => batch[b].left = {}

\* Whoever grants what when, rows and ledger explain each other, and grants that do not
\* overlap are neither repeated nor overwritten.
GrantsAreExplained ==
    /\ ClaimIsNewestGrant /\ BalanceIsNewestEntry
    /\ SerialGrantsArePeriodApart /\ SerialLedgerChains

\* A batch that ends has treated everybody it listed.
BatchIsComplete == CleanBatchLeavesNoneDue /\ FailureDropsNobody
=============================================================================
