------------------------------- MODULE Retention -------------------------------
(***************************************************************************)
(* What is deleted and what a legal hold keeps: retention.Service.Apply    *)
(* over the daily partitions of one tenant, the hold registry, the archive *)
(* bucket, and retentiond's pass over the raw records of every tenant.     *)
(*                                                                         *)
(* Apply and the raw pass are steps of one process, which reads holds and  *)
(* windows when it begins; holds are placed and released, and windows set, *)
(* between any two of its steps, any of which may fail.  Time is in days;  *)
(* a partition or a raw record is named by its tenant and its day.         *)
(***************************************************************************)
EXTENDS Integers

CONSTANTS
    Hold,        \* ids of legal holds
    NoHold,      \* none of them
    Scopes,      \* the scopes a hold may be placed with
    Policies,    \* the policies Apply may be called with
    Tenant,
    RawRetentionMinDays, RawRetentionMaxDays,
    MaxTime      \* bound of now

\* What dateFrom makes of a bound that is not there or cannot be parsed.
Absent == 0
Unreadable == -1
Bound == {Unreadable, Absent} \cup 1 .. MaxTime
Policy == [hot : Nat, warm : Nat, cold : Nat]

ASSUME RetentionAssumption ==
    /\ NoHold \notin Hold
    /\ MaxTime \in Nat \ {0}
    /\ Scopes \subseteq [from : Bound, to : Bound]
    /\ Policies \subseteq Policy
    /\ RawRetentionMinDays \in Nat \ {0}
    /\ RawRetentionMaxDays \in Nat

NotPlaced == [state |-> "none", from |-> Absent, to |-> Absent, refs |-> {}]

VARIABLES
    stored,      \* the days whose partition the hot and warm stores have
    cold,        \* the days whose partition was put into the archive bucket
    protected,   \* those of which a version is under the bucket's legal hold
    holds,       \* table legal_hold
    bucket,      \* the archive bucket: none, plain or locked
    up,          \* retentiond runs
    run,         \* the Apply in progress
    rawDays,     \* tenant.raw_retention_days
    raw,         \* the days of each tenant's raw records
    windows,     \* the windows the raw pass read
    todo,        \* the tenants it has not come to
    now

\* Observation variables.
VARIABLES heldAtStart,  \* the days that open holds meant to keep when Apply began
          shortest      \* each tenant's shortest window since the raw pass began

archive == <<cold, protected, bucket>>
rawPass == <<rawDays, raw, windows, todo, shortest>>
vars == <<stored, archive, holds, up, run, rawPass, now, heldAtStart>>

NoRun == [step |-> "none", at |-> 0, holds |-> [h \in Hold |-> NotPlaced],
          policy |-> [hot |-> 1, warm |-> 0, cold |-> 0],
          left |-> {}, day |-> 0, hold |-> NoHold]

Init ==
    /\ stored = {1}
    /\ cold = {}
    /\ protected = {}
    /\ holds = [h \in Hold |-> NotPlaced]
    /\ bucket \in {"none", "plain"}
    /\ up = FALSE
    /\ run = NoRun
    /\ rawDays = [t \in Tenant |-> RawRetentionMinDays]
    /\ raw = [t \in Tenant |-> {1}]
    /\ windows = [t \in Tenant |-> 0]
    /\ todo = {}
    /\ now = 1
    /\ heldAtStart = {}
    /\ shortest = rawDays

-----------------------------------------------------------------------------
(* Holds and policies (biz/retention/hold.go).                             *)

\* A bound that is missing or cannot be parsed does not bound.
Covers(hold, day) ==
    /\ hold.state = "open"
    /\ hold.from > 0 => hold.from <= day
    /\ hold.to > 0 => day <= hold.to

Valid(policy) ==
    /\ policy.hot > 0
    /\ policy.warm > 0 /\ policy.cold > 0 => policy.hot + policy.warm <= policy.cold

\* The windows are measured from the partition's date, not from each other: a
\* cold window of nothing has data expire out of warm.
TierFor(policy, day, at) ==
    CASE at - day < policy.hot -> "hot"
      [] at - day >= policy.hot /\ at - day < policy.hot + policy.warm -> "warm"
      [] at - day >= policy.hot + policy.warm /\ at - day < policy.cold -> "cold"
      [] OTHER -> "expired"

Place(h, scope) ==
    /\ holds[h].state = "none"
    /\ holds' = [holds EXCEPT ![h] =
                    [state |-> "open", from |-> scope.from, to |-> scope.to, refs |-> {}]]
    /\ UNCHANGED <<stored, archive, up, run, rawPass, now, heldAtStart>>

Release(h) ==
    /\ holds[h].state = "open"
    /\ holds' = [holds EXCEPT ![h].state = "released"]
    /\ UNCHANGED <<stored, archive, up, run, rawPass, now, heldAtStart>>

-----------------------------------------------------------------------------
(* Apply (biz/retention/expiry.go).                                        *)

\* The days a hold is meant to keep: all but those outside a bound it states.
Meant(hold) ==
    {d \in 1 .. MaxTime : /\ hold.from \in 1 .. MaxTime => d \in hold.from .. MaxTime
                          /\ hold.to \in 1 .. MaxTime => d \in 1 .. hold.to}

Open == {h \in Hold : holds[h].state = "open"}
Free == up /\ run.step = "none" /\ todo = {}

Begin(policy, registry) ==
    /\ Free
    /\ Valid(policy)
    /\ run' = [NoRun EXCEPT !.step = "next", !.at = now, !.holds = registry,
                            !.policy = policy, !.left = stored]
    /\ heldAtStart' = UNION {Meant(holds[h]) : h \in Open}
    /\ UNCHANGED <<stored, archive, holds, up, rawPass, now>>

\* Mutant: a registry that cannot be read counts as empty.
ApplyAnyway(policy) == Begin(policy, holds) \/ Begin(policy, NoRun.holds)

\* Without the registry nothing is expired: the run ends before it begins.
Apply(policy) == Begin(policy, holds)

Held(day) == {h \in Hold : Covers(run.holds[h], day)}
Tier(day) == TierFor(run.policy, day, run.at)

\* The run turns to a partition; what fails is noted and the next one taken.
Takes(day) == run.step = "next" /\ day \in run.left
Past(day) == run' = [run EXCEPT !.left = @ \ {day}]

Skip(day) ==
    /\ Takes(day)
    /\ Tier(day) \in {"hot", "warm"} \/ (Held(day) # {} /\ Tier(day) # "expired")
    /\ Past(day)
    /\ UNCHANGED <<stored, archive, holds, up, rawPass, now, heldAtStart>>

\* Every run puts a cold partition away again; it stays in the store as well.
ArchiveCold(day) ==
    /\ Takes(day)
    /\ Held(day) = {} /\ Tier(day) = "cold"
    /\ cold' \in {cold, cold \cup {day}}
    /\ Past(day)
    /\ UNCHANGED <<stored, protected, bucket, holds, up, rawPass, now, heldAtStart>>

Expire(day) ==
    /\ Takes(day)
    /\ Held(day) = {} /\ Tier(day) = "expired"
    /\ stored' \in {stored, stored \ {day}}
    /\ Past(day)
    /\ UNCHANGED <<archive, holds, up, rawPass, now, heldAtStart>>

\* A held partition that would expire is put away for the first hold that
\* covers it.
ArchiveHeld(day) ==
    /\ Takes(day)
    /\ Tier(day) = "expired"
    /\ \/ /\ cold' = cold \cup {day}
          /\ \E h \in Held(day) :
               run' = [run EXCEPT !.left = @ \ {day}, !.step = "preserve",
                                  !.day = day, !.hold = h]
       \/ /\ Held(day) # {}
          /\ Past(day)
          /\ UNCHANGED cold
    /\ UNCHANGED <<stored, protected, bucket, holds, up, rawPass, now, heldAtStart>>

Continue(step) == run' = [run EXCEPT !.step = step]
Done == run' = [run EXCEPT !.step = "next", !.day = 0, !.hold = NoHold]

\* Mutant: goes on to the record when the protection fails.
PreserveAnyway ==
    /\ run.step = "preserve"
    /\ protected' \in {protected, protected \cup {run.day}}
    /\ Continue("record")
    /\ UNCHANGED <<stored, cold, bucket, holds, up, rawPass, now, heldAtStart>>

\* A bucket without Object Lock takes no legal hold.
Preserve ==
    /\ run.step = "preserve"
    /\ \/ /\ bucket = "locked"
          /\ protected' = protected \cup {run.day}
          /\ Continue("record")
       \/ /\ Done
          /\ UNCHANGED protected
    /\ UNCHANGED <<stored, cold, bucket, holds, up, rawPass, now, heldAtStart>>

RecordPreventedExpiry ==
    /\ run.step = "record"
    /\ holds' \in {holds, [holds EXCEPT ![run.hold].refs = @ \cup {run.day}]}
    /\ Done
    /\ UNCHANGED <<stored, archive, up, rawPass, now, heldAtStart>>

EndRun ==
    /\ run.step = "next"
    /\ run.left = {}
    /\ run' = NoRun
    /\ heldAtStart' = {}
    /\ UNCHANGED <<stored, archive, holds, up, rawPass, now>>

-----------------------------------------------------------------------------
(* The raw window (postgres/rawretentionrepo.go, cmd/retentiond/main.go).  *)

\* The shorter window counts from now on for a pass that is under way.
SetRawRetention(t, days) ==
    /\ days \in RawRetentionMinDays .. RawRetentionMaxDays
    /\ rawDays' = [rawDays EXCEPT ![t] = days]
    /\ shortest' = [shortest EXCEPT ![t] = IF todo = {} \/ days < @ THEN days ELSE @]
    /\ UNCHANGED <<stored, archive, holds, up, run, raw, windows, todo, now, heldAtStart>>

\* The windows of all tenants are read at once; the holds are not read at all.
ReadWindows ==
    /\ windows' = rawDays
    /\ todo' = Tenant
    /\ shortest' = rawDays
    /\ UNCHANGED <<rawDays, raw>>

RawPass ==
    /\ Free
    /\ ReadWindows
    /\ UNCHANGED <<stored, archive, holds, up, run, now, heldAtStart>>

\* What a filter of BuildRawExpiryQuery selects: strictly before the cutoff.
Older(days, cutoff) == {d \in days : d < cutoff}

\* Mutant: the stream filter does not name the tenant.
DeleteOfAll(t) ==
    /\ t \in todo
    /\ raw' = [u \in Tenant |-> raw[u] \ Older(raw[u], now - windows[t])]
    /\ todo' = todo \ {t}
    /\ UNCHANGED <<stored, archive, holds, up, run, rawDays, windows, now, heldAtStart,
                   shortest>>

\* The cutoff is taken when the tenant's turn comes; a failed delete waits for
\* the next pass.
DeleteRaw(t) ==
    /\ t \in todo
    /\ raw' \in {raw, [raw EXCEPT ![t] = @ \ Older(@, now - windows[t])]}
    /\ todo' = todo \ {t}
    /\ UNCHANGED <<stored, archive, holds, up, run, rawDays, windows, now, heldAtStart,
                   shortest>>

-----------------------------------------------------------------------------
(* The process and the clock.                                              *)

\* The bucket is made with Object Lock if it is not there, and taken as it is
\* if it is; the first raw pass does not wait for the ticker.
Boot ==
    /\ ~up
    /\ up' = TRUE
    /\ bucket' = IF bucket = "none" THEN "locked" ELSE bucket
    /\ ReadWindows
    /\ UNCHANGED <<stored, cold, protected, holds, run, now, heldAtStart>>

Crash ==
    /\ up
    /\ up' = FALSE
    /\ run' = NoRun
    /\ heldAtStart' = {}
    /\ todo' = {}
    /\ UNCHANGED <<stored, archive, holds, rawDays, raw, windows, shortest, now>>

Tick ==
    /\ now < MaxTime
    /\ now' = now + 1
    /\ stored' = stored \cup {now'}
    /\ raw' = [t \in Tenant |-> raw[t] \cup {now'}]
    /\ UNCHANGED <<archive, holds, up, run, rawDays, windows, todo, shortest,
                   heldAtStart>>

Next ==
    \/ \E h \in Hold : Release(h) \/ \E scope \in Scopes : Place(h, scope)
    \/ \E policy \in Policies : Apply(policy)
    \/ \E day \in run.left :
         Skip(day) \/ ArchiveCold(day) \/ Expire(day) \/ ArchiveHeld(day)
    \/ Preserve \/ RecordPreventedExpiry \/ EndRun
    \/ \E t \in Tenant :
         \/ DeleteRaw(t)
         \/ \E days \in 0 .. RawRetentionMaxDays + 1 : SetRawRetention(t, days)
    \/ RawPass \/ Boot \/ Crash \/ Tick

Spec == Init /\ [][Next]_vars

-----------------------------------------------------------------------------
\* FR-040: no run deletes a partition that a hold was to keep when the run read
\* the holds, whatever the hold's scope and whatever fails.  (A hold that is
\* placed while a run is on binds the next run.)
HeldIsKept == [][(stored \ stored') \cap heldAtStart = {}]_vars

\* A prevented expiry that is recorded as evidence has a protected copy and is
\* of the hold's scope, whatever failed between the copy and the record.
RecordedIsPreserved ==
    \A h \in Hold : /\ holds[h].refs \subseteq cold \cap protected
                    /\ holds[h].refs \subseteq Meant(holds[h])

\* A tenant's raw record is deleted only when it is older than the shortest
\* window the tenant had while the pass was on, whatever the others have.
RawOutlivesWindow ==
    [][\A t \in Tenant : \A d \in raw[t] \ raw'[t] : now - d > shortest[t]]_vars
=============================================================================
