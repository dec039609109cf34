--------------------------- MODULE Retention_proofs ---------------------------
(***************************************************************************)
(* What Retention promises about holds and windows, for every value of the *)
(* constants.                                                              *)
(***************************************************************************)
EXTENDS Retention, TLAPS

Days == 1 .. MaxTime
Registry == [Hold -> [state : {"none", "open", "released"}, from : Bound, to : Bound,
                      refs : SUBSET Int]]
Run == [step : {"none", "next", "preserve", "record"}, at : Int, holds : Registry,
        policy : Policy, left : SUBSET Days, day : Int, hold : Hold \cup {NoHold}]

RetentionTypeOK ==
    /\ stored \subseteq Days
    /\ cold \subseteq Int
    /\ protected \subseteq Int
    /\ holds \in Registry
    /\ run \in Run
    /\ rawDays \in [Tenant -> Nat]
    /\ raw \in [Tenant -> SUBSET Int]
    /\ windows \in [Tenant -> Nat]
    /\ shortest \in [Tenant -> Nat]
    /\ todo \subseteq Tenant
    /\ now \in Days
    /\ heldAtStart \subseteq Days

\* Apply goes by the registry it read, which kept all that was to be kept then.
SnapshotKeeps ==
    \A d \in heldAtStart : \E h \in Hold : run.holds[h].state = "open"
                                           /\ d \in Meant(run.holds[h])

\* The scope of a hold never changes, so the snapshot's is the registry's.
ScopesAreFixed ==
    \A h \in Hold : run.holds[h].state = "open" =>
        /\ holds[h].state # "none"
        /\ holds[h].from = run.holds[h].from
        /\ holds[h].to = run.holds[h].to

\* What the steps after ArchiveHeld go by.
EvidenceIsReady ==
    run.step \in {"preserve", "record"} =>
        /\ run.hold \in Hold
        /\ run.day \in cold
        /\ run.step = "record" => run.day \in protected
        /\ run.day \in Meant(run.holds[run.hold])
        /\ run.holds[run.hold].state = "open"

\* The window a pass read is never shorter than the shortest since.
WindowsCoverPass == \A t \in todo : shortest[t] <= windows[t]

RetentionInv ==
    /\ RetentionTypeOK
    /\ SnapshotKeeps
    /\ ScopesAreFixed
    /\ EvidenceIsReady
    /\ WindowsCoverPass
    /\ RecordedIsPreserved

-----------------------------------------------------------------------------
\* A covered day is one the hold was meant to keep, and no day it was meant to
\* keep escapes Covers while it is open: an unreadable bound does not bound.
LEMMA CoversIsMeant ==
    ASSUME NEW hold, hold.from \in Bound, hold.to \in Bound, hold.state = "open",
           NEW day \in Days
    PROVE  Covers(hold, day) <=> day \in Meant(hold)
BY RetentionAssumption, SMT DEF Covers, Meant, Bound, Days, Absent, Unreadable

\* A run that has not begun holds nothing.
LEMMA NoRunType == NoRun \in Run /\ \A h \in Hold : NoRun.holds[h].state = "none"
<1>1. NotPlaced \in [state : {"none", "open", "released"}, from : Bound, to : Bound,
                     refs : SUBSET Int]
  BY DEF NotPlaced, Bound, Absent
<1>2. [hot |-> 1, warm |-> 0, cold |-> 0] \in Policy
  BY DEF Policy
<1>3. [h \in Hold |-> NotPlaced] \in Registry
  BY <1>1 DEF Registry
<1>. QED
  BY <1>2, <1>3 DEF NoRun, Run, NotPlaced

LEMMA InitRetention == Init => RetentionInv
<1>. SUFFICES ASSUME Init PROVE RetentionInv
  OBVIOUS
<1>1. RetentionTypeOK
  <2>1. holds \in Registry
    BY DEF Init, Registry, NotPlaced, Bound, Absent
  <2>. QED
    BY <2>1, NoRunType, RetentionAssumption DEF Init, RetentionTypeOK, Days
<1>2. SnapshotKeeps /\ ScopesAreFixed /\ EvidenceIsReady /\ WindowsCoverPass
  BY NoRunType DEF Init, SnapshotKeeps, ScopesAreFixed, EvidenceIsReady, NoRun,
     WindowsCoverPass
<1>3. RecordedIsPreserved
  BY DEF Init, RecordedIsPreserved, NotPlaced
<1>. QED
  BY <1>1, <1>2, <1>3 DEF RetentionInv

-----------------------------------------------------------------------------
\* The parts of the invariant that speak of the registry and the run.
HoldParts == SnapshotKeeps /\ ScopesAreFixed /\ EvidenceIsReady /\ RecordedIsPreserved

\* A step that leaves the registry, the run and the archive alone keeps them.
LEMMA HoldPartsFrame ==
    ASSUME HoldParts, UNCHANGED <<holds, run, heldAtStart, cold, protected>>
    PROVE  HoldParts'
BY DEF HoldParts, SnapshotKeeps, ScopesAreFixed, EvidenceIsReady, RecordedIsPreserved, Meant

\* A step that only takes the next partition keeps them as well.
LEMMA HoldPartsPast ==
    ASSUME HoldParts, RetentionTypeOK, run.step = "next", NEW day, Past(day),
           UNCHANGED <<holds, heldAtStart, protected>>, cold \subseteq cold'
    PROVE  HoldParts'
<1>1. run'.step = run.step /\ run'.holds = run.holds
  BY DEF RetentionTypeOK, Run, Past
<1>. QED
  BY <1>1 DEF HoldParts, SnapshotKeeps, ScopesAreFixed, EvidenceIsReady,
     RecordedIsPreserved, Meant

LEMMA PlaceStep ==
    ASSUME RetentionInv, NEW h \in Hold, NEW scope \in Scopes, Place(h, scope)
    PROVE  RetentionInv'
<1>1. scope.from \in Bound /\ scope.to \in Bound
  BY RetentionAssumption
<1>2. RetentionTypeOK'
  <2>1. holds' \in Registry
    BY <1>1 DEF RetentionInv, RetentionTypeOK, Registry, Place
  <2>. QED
    BY <2>1 DEF RetentionInv, RetentionTypeOK, Place, archive, rawPass
<1>3. run.holds[h].state # "open"
  BY DEF RetentionInv, ScopesAreFixed, Place
<1>4. SnapshotKeeps' /\ ScopesAreFixed' /\ EvidenceIsReady'
  BY <1>3 DEF RetentionInv, RetentionTypeOK, Registry, SnapshotKeeps, ScopesAreFixed,
     EvidenceIsReady, Place, Meant, archive
<1>5. RecordedIsPreserved'
  BY DEF RetentionInv, RetentionTypeOK, Registry, RecordedIsPreserved, Place, Meant, archive
<1>6. WindowsCoverPass'
  BY DEF RetentionInv, WindowsCoverPass, Place, rawPass
<1>. QED
  BY <1>2, <1>4, <1>5, <1>6 DEF RetentionInv

LEMMA ReleaseStep ==
    ASSUME RetentionInv, NEW h \in Hold, Release(h)
    PROVE  RetentionInv'
<1>1. RetentionTypeOK'
  <2>1. holds' \in Registry
    BY DEF RetentionInv, RetentionTypeOK, Registry, Release
  <2>. QED
    BY <2>1 DEF RetentionInv, RetentionTypeOK, Release, archive, rawPass
<1>2. SnapshotKeeps' /\ ScopesAreFixed' /\ EvidenceIsReady'
  BY DEF RetentionInv, RetentionTypeOK, Registry, SnapshotKeeps, ScopesAreFixed,
     EvidenceIsReady, Release, Meant, archive
<1>3. RecordedIsPreserved'
  BY DEF RetentionInv, RetentionTypeOK, Registry, RecordedIsPreserved, Release, Meant, archive
<1>4. WindowsCoverPass'
  BY DEF RetentionInv, WindowsCoverPass, Release, rawPass
<1>. QED
  BY <1>1, <1>2, <1>3, <1>4 DEF RetentionInv

-----------------------------------------------------------------------------
\* The steps of a run.

\* A run begins on the registry as it is: what is to be kept now is in it.
LEMMA ApplyStep ==
    ASSUME RetentionInv, NEW policy \in Policies, Apply(policy)
    PROVE  RetentionInv'
<1>1. run' = [NoRun EXCEPT !.step = "next", !.at = now, !.holds = holds,
                           !.policy = policy, !.left = stored]
  BY DEF Apply, Begin
<1>2. RetentionTypeOK'
  <2>0. now \in Int /\ holds \in Registry /\ policy \in Policy /\ stored \subseteq Days
    BY RetentionAssumption DEF RetentionInv, RetentionTypeOK, Days
  <2>1. run' \in Run
    BY <1>1, <2>0, NoRunType DEF Run
  <2>2. heldAtStart' \subseteq Days
    BY DEF Apply, Begin, Meant, Days
  <2>. QED
    BY <2>1, <2>2 DEF RetentionInv, RetentionTypeOK, Apply, Begin, archive, rawPass
<1>3. run'.holds = holds /\ run'.step = "next"
  BY <1>1, NoRunType DEF Run
<1>4. SnapshotKeeps'
  BY <1>3 DEF SnapshotKeeps, Apply, Begin, Open, Meant
<1>5. ScopesAreFixed' /\ EvidenceIsReady'
  BY <1>3 DEF ScopesAreFixed, EvidenceIsReady, Apply, Begin
<1>6. RecordedIsPreserved' /\ WindowsCoverPass'
  BY DEF RetentionInv, RecordedIsPreserved, WindowsCoverPass, Apply, Begin, Meant,
     archive, rawPass
<1>. QED
  BY <1>2, <1>4, <1>5, <1>6 DEF RetentionInv, SnapshotKeeps

\* The two ways in which a run goes on.
LEMMA ContinueType ==
    ASSUME run \in Run, Continue("record")
    PROVE  /\ run' \in Run /\ run'.step = "record" /\ run'.holds = run.holds
           /\ run'.day = run.day /\ run'.hold = run.hold
BY DEF Run, Continue

LEMMA DoneType ==
    ASSUME run \in Run, Done
    PROVE  run' \in Run /\ run'.step = "next" /\ run'.holds = run.holds
<1>1. /\ run' = [run EXCEPT !.step = "next", !.day = 0, !.hold = NoHold]
      /\ 0 \in Int /\ NoHold \in Hold \cup {NoHold}
  BY DEF Done
<1>. QED
  BY <1>1 DEF Run

\* Skip, ArchiveCold, Expire, and an ArchiveHeld that fails.
LEMMA PastStep ==
    ASSUME RetentionInv, run.step = "next", NEW day, Past(day),
           UNCHANGED <<holds, heldAtStart, protected, rawPass, now>>,
           cold' \subseteq cold \cup Days, cold \subseteq cold',
           stored' \subseteq stored
    PROVE  RetentionInv'
<1>1. HoldParts'
  BY HoldPartsPast DEF RetentionInv, HoldParts
<1>2. RetentionTypeOK'
  <2>1. run' \in Run
    BY DEF RetentionInv, RetentionTypeOK, Run, Past
  <2>2. cold' \subseteq Int
    BY RetentionAssumption DEF RetentionInv, RetentionTypeOK, Days
  <2>. QED
    BY <2>1, <2>2 DEF RetentionInv, RetentionTypeOK, rawPass
<1>3. WindowsCoverPass'
  BY DEF RetentionInv, WindowsCoverPass, rawPass
<1>. QED
  BY <1>1, <1>2, <1>3 DEF RetentionInv, HoldParts

LEMMA ArchiveHeldStep ==
    ASSUME RetentionInv, NEW day \in run.left, ArchiveHeld(day)
    PROVE  RetentionInv'
<1>. USE DEF RetentionInv
<1>0. day \in Days /\ run.step = "next"
  BY DEF RetentionTypeOK, Run, ArchiveHeld, Takes
<1>1. CASE Past(day) /\ UNCHANGED cold
  BY <1>0, <1>1, PastStep DEF ArchiveHeld, rawPass, archive
<1>2. ASSUME cold' = cold \cup {day}, NEW h \in Held(day),
             run' = [run EXCEPT !.left = @ \ {day}, !.step = "preserve",
                                !.day = day, !.hold = h]
      PROVE  RetentionInv'
  <2>1. h \in Hold /\ run.holds[h].state = "open"
    BY <1>2 DEF Held, Covers
  <2>2. day \in Meant(run.holds[h])
    BY <1>0, <1>2, <2>1, CoversIsMeant DEF Held, RetentionTypeOK, Run, Registry
  <2>0. day \in Int /\ run \in Run
    BY <1>0, RetentionAssumption DEF RetentionTypeOK, Days
  <2>3. /\ run' \in Run
        /\ run'.step = "preserve" /\ run'.day = day /\ run'.hold = h
        /\ run'.holds = run.holds
    BY <1>2, <2>0, <2>1 DEF Run
  <2>4. RetentionTypeOK'
    BY <1>2, <2>0, <2>3 DEF RetentionTypeOK, ArchiveHeld, rawPass
  <2>5. SnapshotKeeps' /\ ScopesAreFixed' /\ RecordedIsPreserved' /\ WindowsCoverPass'
    BY <1>2, <2>3 DEF SnapshotKeeps, ScopesAreFixed, RecordedIsPreserved, WindowsCoverPass,
       Meant, ArchiveHeld, rawPass
  <2>6. EvidenceIsReady'
    BY <1>2, <2>1, <2>2, <2>3 DEF EvidenceIsReady, Meant
  <2>. QED
    BY <2>4, <2>5, <2>6
<1>. QED
  BY <1>1, <1>2 DEF ArchiveHeld

LEMMA PreserveStep ==
    ASSUME RetentionInv, Preserve
    PROVE  RetentionInv'
<1>. USE DEF RetentionInv
<1>1. /\ run' \in Run
      /\ run'.holds = run.holds
      /\ \/ run'.step = "next" /\ protected' = protected
         \/ /\ run'.step = "record" /\ protected' = protected \cup {run.day}
            /\ run'.day = run.day /\ run'.hold = run.hold
  BY ContinueType, DoneType DEF RetentionTypeOK, Preserve
<1>2. RetentionTypeOK'
  <2>1. run.day \in Int
    BY DEF RetentionTypeOK, Run
  <2>. QED
    BY <1>1, <2>1 DEF RetentionTypeOK, Preserve, rawPass
<1>3. SnapshotKeeps' /\ ScopesAreFixed' /\ RecordedIsPreserved' /\ WindowsCoverPass'
  BY <1>1 DEF SnapshotKeeps, ScopesAreFixed, RecordedIsPreserved, WindowsCoverPass,
     Meant, Preserve, rawPass
<1>4. EvidenceIsReady'
  BY <1>1 DEF EvidenceIsReady, Preserve, Meant
<1>. QED
  BY <1>2, <1>3, <1>4

LEMMA RecordStep ==
    ASSUME RetentionInv, RecordPreventedExpiry
    PROVE  RetentionInv'
<1>. USE DEF RetentionInv
<1>1. run' \in Run /\ run'.holds = run.holds /\ run'.step = "next"
  BY DoneType DEF RetentionTypeOK, RecordPreventedExpiry
<1>2. /\ run.hold \in Hold
      /\ run.day \in cold \cap protected
      /\ run.day \in Meant(holds[run.hold])
  BY DEF RecordPreventedExpiry, EvidenceIsReady, ScopesAreFixed, Meant
<1>3. holds' \in Registry
  BY <1>2 DEF RetentionTypeOK, Registry, RecordPreventedExpiry, Run
<1>4. \A h \in Hold : /\ holds'[h].state = holds[h].state
                      /\ holds'[h].from = holds[h].from
                      /\ holds'[h].to = holds[h].to
                      /\ \/ holds'[h].refs = holds[h].refs
                         \/ h = run.hold /\ holds'[h].refs = holds[h].refs \cup {run.day}
  BY <1>2 DEF RetentionTypeOK, Registry, RecordPreventedExpiry
<1>5. RetentionTypeOK'
  BY <1>1, <1>3 DEF RetentionTypeOK, RecordPreventedExpiry, archive, rawPass
<1>6. SnapshotKeeps' /\ ScopesAreFixed' /\ EvidenceIsReady' /\ WindowsCoverPass'
  BY <1>1, <1>4 DEF SnapshotKeeps, ScopesAreFixed, EvidenceIsReady, WindowsCoverPass,
     Meant, RecordPreventedExpiry, rawPass
<1>7. RecordedIsPreserved'
  BY <1>2, <1>4 DEF RecordedIsPreserved, RecordPreventedExpiry, Meant, archive
<1>. QED
  BY <1>5, <1>6, <1>7

LEMMA EndRunStep ==
    ASSUME RetentionInv, EndRun
    PROVE  RetentionInv'
<1>1. run' = NoRun /\ heldAtStart' = {}
  BY DEF EndRun
<1>2. RetentionTypeOK'
  BY <1>1, NoRunType DEF RetentionInv, RetentionTypeOK, EndRun, archive, rawPass
<1>3. SnapshotKeeps' /\ ScopesAreFixed' /\ EvidenceIsReady'
  BY <1>1, NoRunType DEF SnapshotKeeps, ScopesAreFixed, EvidenceIsReady, NoRun
<1>4. RecordedIsPreserved' /\ WindowsCoverPass'
  BY DEF RetentionInv, RecordedIsPreserved, WindowsCoverPass, EndRun, Meant, archive, rawPass
<1>. QED
  BY <1>2, <1>3, <1>4 DEF RetentionInv

LEMMA RunStep ==
    ASSUME RetentionInv,
           \/ \E policy \in Policies : Apply(policy)
           \/ \E day \in run.left :
                Skip(day) \/ ArchiveCold(day) \/ Expire(day) \/ ArchiveHeld(day)
           \/ Preserve \/ RecordPreventedExpiry \/ EndRun
    PROVE  RetentionInv'
<1>1. ASSUME NEW day \in run.left, Skip(day) \/ ArchiveCold(day) \/ Expire(day)
      PROVE  RetentionInv'
  <2>1. day \in Days
    BY DEF RetentionInv, RetentionTypeOK, Run
  <2>. QED
    BY <1>1, <2>1, PastStep DEF Skip, ArchiveCold, Expire, Takes, archive
<1>. QED
  BY <1>1, ApplyStep, ArchiveHeldStep, PreserveStep, RecordStep, EndRunStep

-----------------------------------------------------------------------------
\* The steps of the raw window, of the process and of the clock.

LEMMA SetRawRetentionStep ==
    ASSUME RetentionInv, NEW t \in Tenant, NEW days \in Int, SetRawRetention(t, days)
    PROVE  RetentionInv'
<1>. USE DEF RetentionInv
<1>1. days \in Nat
  BY RetentionAssumption DEF SetRawRetention
<1>2. RetentionTypeOK'
  BY <1>1 DEF RetentionTypeOK, SetRawRetention, archive
<1>3. WindowsCoverPass'
  BY <1>1 DEF RetentionTypeOK, WindowsCoverPass, SetRawRetention
<1>4. HoldParts'
  BY HoldPartsFrame DEF HoldParts, SetRawRetention, archive
<1>. QED
  BY <1>2, <1>3, <1>4 DEF HoldParts

LEMMA DeleteRawStep ==
    ASSUME RetentionInv, NEW t \in Tenant, DeleteRaw(t)
    PROVE  RetentionInv'
<1>. USE DEF RetentionInv
<1>1. raw' \in [Tenant -> SUBSET Int]
  BY DEF RetentionTypeOK, DeleteRaw, Older
<1>2. RetentionTypeOK'
  BY <1>1 DEF RetentionTypeOK, DeleteRaw, archive
<1>3. WindowsCoverPass'
  BY DEF WindowsCoverPass, DeleteRaw
<1>4. HoldParts'
  BY HoldPartsFrame DEF HoldParts, DeleteRaw, archive
<1>. QED
  BY <1>2, <1>3, <1>4 DEF HoldParts

\* A pass begins with the windows as they are.
LEMMA ReadWindowsType ==
    ASSUME RetentionTypeOK, ReadWindows
    PROVE  /\ rawDays' \in [Tenant -> Nat] /\ raw' \in [Tenant -> SUBSET Int]
           /\ windows' \in [Tenant -> Nat] /\ shortest' \in [Tenant -> Nat]
           /\ todo' \subseteq Tenant
           /\ WindowsCoverPass'
BY DEF RetentionTypeOK, ReadWindows, WindowsCoverPass

LEMMA RawPassStep ==
    ASSUME RetentionInv, RawPass \/ Boot
    PROVE  RetentionInv'
<1>. USE DEF RetentionInv
<1>1. ReadWindows
  BY DEF RawPass, Boot
<1>2. RetentionTypeOK'
  BY <1>1, ReadWindowsType DEF RetentionTypeOK, RawPass, Boot, archive
<1>3. HoldParts'
  BY HoldPartsFrame DEF HoldParts, RawPass, Boot, archive
<1>. QED
  BY <1>1, <1>2, <1>3, ReadWindowsType DEF HoldParts

LEMMA CrashStep ==
    ASSUME RetentionInv, Crash
    PROVE  RetentionInv'
<1>. USE DEF RetentionInv
<1>1. run' = NoRun /\ heldAtStart' = {} /\ todo' = {}
  BY DEF Crash
<1>2. RetentionTypeOK'
  BY <1>1, NoRunType DEF RetentionTypeOK, Crash, archive
<1>3. SnapshotKeeps' /\ ScopesAreFixed' /\ EvidenceIsReady' /\ WindowsCoverPass'
  BY <1>1, NoRunType DEF SnapshotKeeps, ScopesAreFixed, EvidenceIsReady, WindowsCoverPass,
     NoRun
<1>4. RecordedIsPreserved'
  BY DEF RecordedIsPreserved, Crash, Meant, archive
<1>. QED
  BY <1>2, <1>3, <1>4

LEMMA TickStep ==
    ASSUME RetentionInv, Tick
    PROVE  RetentionInv'
<1>. USE DEF RetentionInv
<1>1. now' \in Days /\ now' \in Int
  BY RetentionAssumption DEF RetentionTypeOK, Tick, Days
<1>2. raw' \in [Tenant -> SUBSET Int]
  BY <1>1 DEF RetentionTypeOK, Tick
<1>3. RetentionTypeOK'
  BY <1>1, <1>2 DEF RetentionTypeOK, Tick, archive
<1>4. WindowsCoverPass'
  BY DEF WindowsCoverPass, Tick
<1>5. HoldParts'
  BY HoldPartsFrame DEF HoldParts, Tick, archive
<1>. QED
  BY <1>3, <1>4, <1>5 DEF HoldParts

-----------------------------------------------------------------------------
LEMMA StepRetention == RetentionInv /\ [Next]_vars => RetentionInv'
<1>. SUFFICES ASSUME RetentionInv, [Next]_vars PROVE RetentionInv'
  OBVIOUS
<1>1. CASE \E h \in Hold : Release(h) \/ \E scope \in Scopes : Place(h, scope)
  BY <1>1, PlaceStep, ReleaseStep
<1>2. CASE \/ \E policy \in Policies : Apply(policy)
           \/ \E day \in run.left :
                Skip(day) \/ ArchiveCold(day) \/ Expire(day) \/ ArchiveHeld(day)
           \/ Preserve \/ RecordPreventedExpiry \/ EndRun
  BY <1>2, RunStep
<1>3. CASE \E t \in Tenant : DeleteRaw(t)
  BY <1>3, DeleteRawStep
<1>4. ASSUME NEW t \in Tenant, NEW days \in 0 .. RawRetentionMaxDays + 1,
             SetRawRetention(t, days)
      PROVE  RetentionInv'
  <2>1. days \in Int
    BY RetentionAssumption
  <2>. QED
    BY <1>4, <2>1, SetRawRetentionStep
<1>5. CASE RawPass \/ Boot \/ Crash \/ Tick
  BY <1>5, RawPassStep, CrashStep, TickStep
<1>6. CASE UNCHANGED vars
  <2>1. RetentionTypeOK' /\ WindowsCoverPass'
    BY <1>6 DEF RetentionInv, RetentionTypeOK, WindowsCoverPass, vars, archive, rawPass
  <2>2. HoldParts'
    BY <1>6, HoldPartsFrame DEF RetentionInv, HoldParts, vars, archive
  <2>. QED
    BY <2>1, <2>2 DEF RetentionInv, HoldParts
<1>. QED
  BY <1>1, <1>2, <1>3, <1>4, <1>5, <1>6 DEF Next

\* The inductive invariant: every run goes by a registry that keeps what the
\* open holds were to keep, and every pass by windows that cover its tenants'.
THEOREM RetentionInvariant == Spec => []RetentionInv
<1>. QED
  BY InitRetention, StepRetention, PTL DEF Spec

\* A prevented expiry on record has a protected copy of a day in the hold's
\* scope, whatever fails and whenever the process dies between the three calls
\* of retention.Service.Apply that make it.
THEOREM RecordedIsPreservedAlways == Spec => []RecordedIsPreserved
<1>. QED
  BY RetentionInvariant, PTL DEF RetentionInv

\* No run of Apply deletes a partition that an open hold was to keep when the
\* run began, for any number of holds, scopes and days.
THEOREM HeldIsKeptAlways == Spec => HeldIsKept
<1>1. RetentionInv /\ [Next]_vars => [(stored \ stored') \cap heldAtStart = {}]_vars
  <2>. SUFFICES ASSUME RetentionInv, Next, NEW d \in heldAtStart, d \in stored, d \notin stored'
                PROVE  FALSE
    BY DEF vars, archive
  <2>1. d \in run.left /\ Expire(d)
    BY DEF Next, Place, Release, Apply, Begin, Skip, ArchiveCold, Expire, ArchiveHeld,
       Preserve, RecordPreventedExpiry, EndRun, DeleteRaw, SetRawRetention, RawPass,
       Boot, Crash, Tick
  <2>2. PICK h \in Hold : run.holds[h].state = "open" /\ d \in Meant(run.holds[h])
    BY DEF RetentionInv, SnapshotKeeps
  <2>3. Covers(run.holds[h], d)
    BY <2>2, CoversIsMeant DEF RetentionInv, RetentionTypeOK, Run, Registry
  <2>. QED
    BY <2>1, <2>3 DEF Expire, Held
<1>. QED
  BY <1>1, RetentionInvariant, PTL DEF Spec, HeldIsKept

\* A pass over the raw records deletes nothing of a tenant that is younger than
\* the shortest window the tenant had since the pass read the windows.
THEOREM RawOutlivesWindowAlways == Spec => RawOutlivesWindow
<1>1. RetentionInv /\ [Next]_vars =>
        [\A t \in Tenant : \A d \in raw[t] \ raw'[t] : now - d > shortest[t]]_vars
  <2>. SUFFICES ASSUME RetentionInv, Next, NEW t \in Tenant, NEW d \in raw[t], d \notin raw'[t]
                PROVE  now - d > shortest[t]
    BY DEF vars, rawPass
  <2>1. PICK u \in Tenant : DeleteRaw(u)
    BY DEF Next, Place, Release, Apply, Begin, Skip, ArchiveCold, Expire, ArchiveHeld,
       Preserve, RecordPreventedExpiry, EndRun, SetRawRetention, RawPass, ReadWindows,
       Boot, Crash, Tick, rawPass, RetentionInv, RetentionTypeOK
  <2>2. u = t /\ t \in todo /\ d < now - windows[t]
    BY <2>1 DEF DeleteRaw, Older, RetentionInv, RetentionTypeOK
  <2>3. /\ shortest[t] <= windows[t]
        /\ shortest[t] \in Int /\ windows[t] \in Int /\ d \in Int /\ now \in Int
    BY <2>2, RetentionAssumption DEF RetentionInv, RetentionTypeOK, WindowsCoverPass, Days
  <2>. QED
    BY <2>2, <2>3
<1>. QED
  BY <1>1, RetentionInvariant, PTL DEF Spec, RawOutlivesWindow
===============================================================================
