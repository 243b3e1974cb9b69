------------------------------ MODULE TrustProofs -------------------------------
(***************************************************************************)
(* Theorems about the trust in a SoC on both sides, for every level, power,*)
(* threshold, age and recovery time: the integration's NativeSoc monitor   *)
(* (BankTrust) and the add-on's SocIntegrity (SocEvidence).  And about the *)
(* add-on's readiness evidence (ReadinessBook), for every number and       *)
(* length of days: it is never rewritten, and a day is called what it was. *)
(* Last, what TLC explores side by side is each service's own behaviour.   *)
(***************************************************************************)
EXTENDS MCServices, OwnershipProofs, ReplanProofs, SequenceTheorems, TLAPS

-----------------------------------------------------------------------------
(* The inductive invariants *)

\* A bank is blocked exactly as long as a recovery is owed, and its recovery clock is the
\* number of minutes in a row that were judged fresh and passed.
Clocked(n) ==
    IF minute.judged THEN passes = n + 1
    ELSE passes = n \/ (n = Recovery /\ passes = Recovery + 1) \/ (~minute.last /\ passes = 0)
OwedBlocked ==
    /\ owed <=> bank.blocked
    /\ ~bank.blocked => bank.since = {} /\ ~bank.ready /\ fails = bank.failures
    /\ fails <= bank.failures /\ (~bank.blocked => bank.failures < Threshold)
    /\ bank.failed => bank.since = {} /\ ~bank.ready
    /\ bank.blocked /\ bank.since = {} => passes = 0
    /\ \A n \in bank.since : Clocked(n)
    /\ ~minute.judged /\ ~minute.last => passes = 0
    /\ cause => bank.blocked \/ (~minute.judged /\ passes = 0)
    /\ view.trust = "trusted" => ~bank.blocked
\* A rejected reading is what the last judged minute showed.
RejectedShown == energy.rejected # {} => shown = energy.rejected

TrustInv == BankTypeOK /\ OwedBlocked /\ RejectedShown

\* The last n minutes count for a recovery: those that were seen passed, their reports never
\* went back, the newest is as old as last says, and, where every minute counts, each was seen.
CountsFor(t, n, last, every) ==
    /\ n <= Len(t)
    /\ \A i \in 1 .. Len(t) : i > Len(t) - n =>
          /\ t[i].seen => t[i].ok /\ Older(t[i].age) >= last
          /\ \A j \in 1 .. Len(t) : i < j /\ t[i].seen /\ t[j].seen => t[j].age <= t[i].age
          /\ every => t[i].seen
Every == driver = "alphaess" /\ ~stable.gap
StableClock ==
    /\ saved = failures
    /\ ~Blocked(failures) => failures.count <= failedRun
    /\ failures.state = "threshold" => failures.count = FailuresAllowed
    /\ stable.on => Recovers /\ CountsFor(trail, stable.minutes, stable.last, Every)
    /\ stable.ready => stable.on /\ CountsFor(trail, Window, stable.last, Every)
    /\ stable.gap => stable.on /\ trail # <<>> /\ ~trail[Len(trail)].ok
    /\ Len(trail) <= Window
RejectedSeen == balance.rejected # {} => lastSeen = balance.rejected

EvidenceInv == EvidenceTypeOK /\ StableClock /\ RejectedSeen
-----------------------------------------------------------------------------
(* Lemmas about the bank's operators *)

Sinces == {{}} \union {{n} : n \in 0 .. Recovery}
Banks == [failures : 0 .. Threshold, blocked : BOOLEAN, failed : BOOLEAN, since : Sinces,
          ready : BOOLEAN]
Goods == [of : {"none", "this", "earlier"}, read : Reads]

LEMMA BoundsAreNat == Most \in Nat /\ Enough \in Nat
<1>1. PICK l \in Levels : \A k \in Levels : k <= l
  BY BankAssumption
<1>2. Most \in Levels
  BY <1>1 DEF Most
<1> QED
  BY <1>2, BankAssumption DEF Enough

LEMMA AtMostBounds ==
    ASSUME NEW n \in Nat, NEW top \in Nat
    PROVE  /\ AtMost(n, top) \in 0 .. top
           /\ n <= top => AtMost(n, top) = n
           /\ n >= top => AtMost(n, top) = top
BY DEF AtMost

\* What a frame carries, and what is kept of it.
LEMMA FrameTypes ==
    ASSUME BankTypeOK, NEW f \in Frames
    PROVE  /\ f.held \in BOOLEAN /\ f.read \in Reads
           /\ KeptRead(f) \in Goods /\ Power(f) \in Measured
           /\ FreshRead(f) \in BOOLEAN
<1>1. Unread \in Reads
  BY BankAssumption DEF Unread, Reads, Readings, Measured
<1>2. f.held \in BOOLEAN /\ f.read \in Reads
  <2>1. CASE f = NoFrame
    BY <2>1, <1>1 DEF NoFrame
  <2>2. CASE good.of = "this" /\ f = [held |-> TRUE, read |-> good.read]
    BY <2>2 DEF BankTypeOK
  <2>3. ASSUME NEW v \in Readings, NEW p \in Measured,
               f = [held |-> TRUE, read |-> [value |-> v, power |-> p, fresh |-> TRUE, age |-> 0]]
        PROVE  f.held \in BOOLEAN /\ f.read \in Reads
    <3> DEFINE r == [value |-> v, power |-> p, fresh |-> TRUE, age |-> 0]
    <3>1. r \in Reads
      BY BankAssumption DEF Reads
    <3> QED
      BY <2>3, <3>1
  <2>4. \/ f = NoFrame
        \/ good.of = "this" /\ f = [held |-> TRUE, read |-> good.read]
        \/ \E v \in Readings, p \in Measured :
              f = [held |-> TRUE,
                   read |-> [value |-> v, power |-> p, fresh |-> TRUE, age |-> 0]]
    BY DEF Frames
  <2> QED
    BY <2>1, <2>2, <2>3, <2>4
<1>3. NoGood \in Goods /\ good \in Goods
  BY <1>1 DEF NoGood, Goods, BankTypeOK
<1>4. KeptRead(f) \in Goods
  BY <1>2, <1>3 DEF KeptRead, Goods
<1>5. Power(f) \in Measured
  BY <1>4 DEF Power, Goods, Reads, Measured
<1> QED
  BY <1>2, <1>4, <1>5 DEF Goods, Reads, FreshRead

LEMMA UsedBounds ==
    ASSUME BankTypeOK, NEW power \in Measured
    PROVE  Used(power) \in 0 .. Enough
<1>1. energy.used \in 0 .. Enough /\ energy.waited \in Nat /\ energy.power \in Measured
  BY BoundsAreNat DEF BankTypeOK
<1>2. CASE power # {} /\ energy.power # {}
  <2> DEFINE p == CHOOSE p \in power : TRUE
             q == CHOOSE q \in energy.power : TRUE
  <2>1. p \in Nat /\ q \in Nat
    BY <1>1, <1>2, BankAssumption DEF Measured
  <2>2. (p + q) * energy.waited \in Nat
    <3>1. p + q \in Nat
      BY <2>1
    <3> HIDE DEF p, q
    <3> QED
      BY <3>1, <1>1
  <2>3. Used(power) = AtMost(energy.used + (p + q) * energy.waited, Enough)
    BY <1>2 DEF Used
  <2>4. energy.used + (p + q) * energy.waited \in Nat
    BY <2>2, <1>1, BoundsAreNat
  <2> HIDE DEF p, q
  <2> QED
    BY <2>3, <2>4, AtMostBounds, BoundsAreNat
<1>3. CASE ~(power # {} /\ energy.power # {})
  BY <1>1, <1>3 DEF Used
<1> QED
  BY <1>2, <1>3

LEMMA FailingBank ==
    ASSUME NEW b \in Banks
    PROVE  /\ Failing(b) \in Banks
           /\ Failing(b).failures = AtMost(b.failures + 1, Threshold)
           /\ Failing(b).blocked <=> b.blocked \/ b.failures + 1 >= Threshold
           /\ Failing(b).failed /\ Failing(b).since = {} /\ ~Failing(b).ready
<1> DEFINE n == AtMost(b.failures + 1, Threshold)
<1>0. {} \in Sinces
  BY DEF Sinces
<1>1. b.failures \in 0 .. Threshold /\ b.blocked \in BOOLEAN
  BY DEF Banks
<1>2. n \in 0 .. Threshold /\ (n >= Threshold <=> b.failures + 1 >= Threshold)
  BY <1>1, BankAssumption DEF AtMost
<1> DEFINE c == [b EXCEPT !.failures = n, !.failed = TRUE, !.blocked = @ \/ n >= Threshold]
<1>3. Failing(b) = NotRecovering(c)
  BY DEF Failing
<1> HIDE DEF n
<1>4. /\ c \in Banks /\ c.failures = n /\ c.failed
      /\ c.blocked <=> b.blocked \/ n >= Threshold
  BY <1>2 DEF Banks
<1> HIDE DEF c
<1>5. /\ NotRecovering(c) \in Banks /\ NotRecovering(c).failures = c.failures
      /\ NotRecovering(c).failed <=> c.failed
      /\ NotRecovering(c).blocked <=> c.blocked
      /\ NotRecovering(c).since = {} /\ ~NotRecovering(c).ready
  BY <1>0, <1>4 DEF NotRecovering, Banks
<1> QED
  BY <1>2, <1>3, <1>4, <1>5 DEF n

\* A pass of a bank that is not blocked, and one that recovery goes on with or ends with.
LEMMA PassingUnblocked ==
    ASSUME NEW b \in Banks, NEW fresh \in BOOLEAN, ~b.blocked
    PROVE  /\ Passing(b, fresh) \in Banks
           /\ Passing(b, fresh).failures = 0
           /\ ~Passing(b, fresh).blocked /\ ~Passing(b, fresh).failed
           /\ Passing(b, fresh).since = b.since
           /\ Passing(b, fresh).ready <=> b.ready
<1>1. Passing(b, fresh) = [b EXCEPT !.failures = 0, !.failed = FALSE]
  BY DEF Passing
<1> DEFINE c == [b EXCEPT !.failures = 0, !.failed = FALSE]
<1>2. 0 \in 0 .. Threshold
  BY BankAssumption
<1>3. c \in Banks
  BY <1>2 DEF Banks
<1>4. /\ c.failures = 0 /\ ~c.blocked /\ ~c.failed
      /\ c.since = b.since /\ (c.ready <=> b.ready)
  BY DEF Banks
<1> QED
  BY <1>1, <1>3, <1>4

LEMMA RecoveringBank ==
    ASSUME BankTypeOK, NEW b \in Banks, NEW fresh \in BOOLEAN, b.blocked
    PROVE  /\ Recovering(b, fresh) \in Banks
           /\ Recovering(b, fresh).failures = b.failures
           /\ Recovering(b, fresh).blocked /\ ~Recovering(b, fresh).failed
           /\ ~fresh => Recovering(b, fresh).since = {} /\ ~Recovering(b, fresh).ready
           /\ fresh => /\ Recovering(b, fresh).since
                            = IF b.since # {} /\ minute.last THEN b.since ELSE {0}
                       /\ Recovering(b, fresh).ready <=> Recovery \in Recovering(b, fresh).since
<1> DEFINE over == NotRecovering(b)
<1>0. b.since \in Sinces /\ minute.last \in BOOLEAN /\ {0} \in Sinces /\ {} \in Sinces
  BY BankAssumption DEF Banks, BankTypeOK, Sinces
<1>1. /\ over \in Banks /\ over.failures = b.failures /\ over.blocked
      /\ over.since = {} /\ ~over.ready
  BY <1>0 DEF NotRecovering, Banks
<1> HIDE DEF over
<1>2. ASSUME NEW a \in Banks, NEW s \in Sinces
      PROVE  LET c == [a EXCEPT !.since = s, !.failed = FALSE, !.ready = Recovery \in s]
             IN  /\ c \in Banks /\ c.failures = a.failures /\ (c.blocked <=> a.blocked)
                 /\ ~c.failed /\ c.since = s /\ (c.ready <=> Recovery \in s)
  <2> DEFINE c == [a EXCEPT !.since = s, !.failed = FALSE, !.ready = Recovery \in s]
  <2>0. ASSUME NEW k \in BOOLEAN
        PROVE  [a EXCEPT !.since = s, !.failed = FALSE, !.ready = k] \in Banks
    BY DEF Banks
  <2>1. c \in Banks
    <3>1. CASE Recovery \in s
      <4>1. (Recovery \in s) = TRUE
        BY <3>1
      <4> QED
        BY <2>0, <4>1, Zenon
    <3>2. CASE Recovery \notin s
      <4>1. (Recovery \in s) = FALSE
        BY <3>2
      <4> QED
        BY <2>0, <4>1, Zenon
    <3> QED
      BY <3>1, <3>2
  <2>2. c.failures = a.failures /\ (c.blocked <=> a.blocked)
    BY DEF Banks
  <2>3. ~c.failed /\ c.since = s /\ (c.ready <=> Recovery \in s)
    BY DEF Banks
  <2> QED
    BY <2>1, <2>2, <2>3
<1>3. CASE ~fresh
  <2> DEFINE c == [over EXCEPT !.since = over.since, !.failed = FALSE, !.ready = @]
  <2>1. Recovering(b, fresh) = c
    BY <1>3 DEF Recovering, Gapless, over
  <2>2. /\ c \in Banks /\ c.failures = over.failures /\ (c.blocked <=> over.blocked)
        /\ ~c.failed /\ c.since = {} /\ ~c.ready
    BY <1>1 DEF Banks
  <2> QED
    BY <2>1, <2>2, <1>1, <1>3
<1>4. CASE fresh /\ b.since # {} /\ minute.last
  <2> DEFINE c == [b EXCEPT !.since = b.since, !.failed = FALSE, !.ready = Recovery \in b.since]
  <2>1. Recovering(b, fresh) = c
    BY <1>4 DEF Recovering, Gapless
  <2>2. /\ c \in Banks /\ c.failures = b.failures /\ (c.blocked <=> b.blocked)
        /\ ~c.failed /\ c.since = b.since /\ (c.ready <=> Recovery \in b.since)
    BY <1>0, <1>2, Zenon
  <2> HIDE DEF c
  <2> QED
    BY <2>1, <2>2, <1>0, <1>1, <1>4
<1>5. CASE fresh /\ b.since # {} /\ ~minute.last
  <2> DEFINE c == [over EXCEPT !.since = {0}, !.failed = FALSE, !.ready = Recovery \in {0}]
  <2>1. Recovering(b, fresh) = c
    BY <1>5, <1>1 DEF Recovering, Gapless, over
  <2>2. /\ c \in Banks /\ c.failures = over.failures /\ (c.blocked <=> over.blocked)
        /\ ~c.failed /\ c.since = {0} /\ (c.ready <=> Recovery \in {0})
    BY <1>0, <1>1, <1>2, Zenon
  <2> HIDE DEF c
  <2> QED
    BY <2>1, <2>2, <1>0, <1>1, <1>5
<1>6. CASE fresh /\ b.since = {}
  <2> DEFINE c == [b EXCEPT !.since = {0}, !.failed = FALSE, !.ready = Recovery \in {0}]
  <2>1. Recovering(b, fresh) = c
    BY <1>6 DEF Recovering, Gapless
  <2>2. /\ c \in Banks /\ c.failures = b.failures /\ (c.blocked <=> b.blocked)
        /\ ~c.failed /\ c.since = {0} /\ (c.ready <=> Recovery \in {0})
    BY <1>0, <1>2, Zenon
  <2> HIDE DEF c
  <2> QED
    BY <2>1, <2>2, <1>0, <1>1, <1>6
<1> QED
  BY <1>3, <1>4, <1>5, <1>6

LEMMA NewBankIsUnblocked ==
    /\ NewBank \in Banks /\ NewBank.failures = 0 /\ ~NewBank.blocked /\ ~NewBank.failed
    /\ NewBank.since = {} /\ ~NewBank.ready
<1>1. 0 \in 0 .. Threshold /\ {} \in Sinces
  BY BankAssumption DEF Sinces
<1> QED
  BY <1>1 DEF NewBank, Banks

LEMMA PassingBlocked ==
    ASSUME BankTypeOK, NEW b \in Banks, NEW fresh \in BOOLEAN, b.blocked
    PROVE  Passing(b, fresh) = IF Recovering(b, fresh).ready /\ ~cause THEN NewBank
                               ELSE Recovering(b, fresh)
BY DEF Passing

LEMMA PassingBank ==
    ASSUME BankTypeOK, NEW b \in Banks, NEW fresh \in BOOLEAN
    PROVE  Passing(b, fresh) \in Banks
<1>1. CASE b.blocked
  BY <1>1, PassingBlocked, RecoveringBank, NewBankIsUnblocked
<1>2. CASE ~b.blocked
  BY <1>2, PassingUnblocked
<1> QED
  BY <1>1, <1>2

-----------------------------------------------------------------------------
(* Types of the bank *)

Views == [value : Readings, age : 0 .. MaxAge + 1, reason : Reasons,
          trust : {"trusted", "untrusted", "recovering"}]
Balances == [base : Readings, used : 0 .. Enough, power : Measured, waited : 0 .. Enough,
             rejected : Readings]
TrustTypes ==
    /\ up \in BOOLEAN /\ good \in Goods /\ view \in Views /\ bank \in Banks
    /\ energy \in Balances /\ cause \in BOOLEAN
    /\ minute \in [judged : BOOLEAN, last : BOOLEAN]
    /\ shown \in Readings /\ passes \in 0 .. Recovery + 1 /\ fails \in 0 .. Threshold
    /\ owed \in BOOLEAN

LEMMA TypesNamed == BankTypeOK <=> TrustTypes
BY DEF BankTypeOK, TrustTypes, Goods, Views, Banks, Balances, Sinces

LEMMA EmptyTypes ==
    /\ {} \in Readings /\ {} \in Measured /\ Unread \in Reads /\ NoGood \in Goods
    /\ NoView \in Views /\ NewBalance \in Balances
<1>1. {} \in Readings /\ {} \in Measured
  BY DEF Readings, Measured
<1>2. 0 \in 0 .. MaxAge + 1 /\ MaxAge + 1 \in 0 .. MaxAge + 1 /\ 0 \in 0 .. Enough
  BY BankAssumption, BoundsAreNat
<1>3. Unread \in Reads
  BY <1>1, <1>2 DEF Unread, Reads
<1>4. NoView \in Views
  BY <1>1, <1>2 DEF NoView, Views, Reasons
<1> QED
  BY <1>1, <1>2, <1>3, <1>4 DEF NoGood, Goods, NewBalance, Balances

LEMMA BankTypeInit == BankInit => BankTypeOK
<1>1. 0 \in 0 .. Recovery + 1 /\ 0 \in 0 .. Threshold
  BY BankAssumption
<1>2. [judged |-> FALSE, last |-> FALSE] \in [judged : BOOLEAN, last : BOOLEAN]
  OBVIOUS
<1>3. ASSUME BankInit PROVE TrustTypes
  BY <1>1, <1>2, <1>3, EmptyTypes, NewBankIsUnblocked, Zenon DEF BankInit, TrustTypes
<1> QED
  BY <1>3, TypesNamed

LEMMA AgedTypes ==
    /\ \A r \in Reads : Aged(r) \in Reads
    /\ \A v \in Views : Aged(v) \in Views /\ Aged(v).trust = v.trust
<1>1. \A n \in 0 .. MaxAge + 1 : AtMost(n + 1, MaxAge + 1) \in 0 .. MaxAge + 1
  BY BankAssumption DEF AtMost
<1>2. ASSUME NEW r \in Reads
      PROVE  Aged(r) \in Reads
  <2>1. r.age \in 0 .. MaxAge + 1
    BY DEF Reads
  <2> QED
    BY <1>1, <2>1 DEF Aged, Reads
<1>3. ASSUME NEW v \in Views
      PROVE  Aged(v) \in Views /\ Aged(v).trust = v.trust
  <2>1. v.age \in 0 .. MaxAge + 1
    BY DEF Views
  <2> QED
    BY <1>1, <2>1 DEF Aged, Views
<1> QED
  BY <1>2, <1>3

LEMMA ReasonTypes ==
    ASSUME BankTypeOK, NEW f \in Frames
    PROVE  Reason(f) \in Reasons
<1>1. view.reason \in Reasons
  BY DEF BankTypeOK
<1>2. FreshReason(f) \in Reasons
  BY DEF FreshReason, Reasons
<1>3. KeptReason \in Reasons
  BY <1>1 DEF KeptReason, Reasons
<1>4. "read_failed" \in Reasons
  BY DEF Reasons
<1> QED
  BY <1>2, <1>3, <1>4 DEF Reason

LEMMA BalanceTypes ==
    ASSUME BankTypeOK, NEW f \in Frames
    PROVE  Balance(f) \in Balances
<1>1. energy \in Balances /\ KeptRead(f).read.value \in Readings /\ Power(f) \in Measured
  BY FrameTypes, TypesNamed DEF TrustTypes, Goods, Reads
<1>2. 0 \in 0 .. Enough /\ Used(Power(f)) \in 0 .. Enough
  BY BoundsAreNat, UsedBounds, <1>1
<1>3. CASE FreshRead(f)
  <2> DEFINE value    == KeptRead(f).read.value
             accepted == FreshReason(f) = "ok" /\ value # energy.base
             base     == IF accepted THEN value ELSE energy.base
             used     == IF accepted THEN 0 ELSE Used(Power(f))
             rejected == IF Jump(f) /\ FreshReason(f) # "ok" THEN value ELSE {}
  <2>1. base \in Readings /\ used \in 0 .. Enough /\ rejected \in Readings
    BY <1>1, <1>2, EmptyTypes DEF Balances
  <2>2. Balance(f) = [base |-> base, used |-> used, power |-> Power(f), waited |-> 0,
                      rejected |-> rejected]
    BY <1>3 DEF Balance
  <2> HIDE DEF base, used, rejected
  <2> QED
    BY <1>1, <1>2, <2>1, <2>2 DEF Balances
<1>4. CASE ~FreshRead(f) /\ Power(f) # {}
  BY <1>1, <1>4, EmptyTypes DEF Balance, Balances
<1>5. CASE ~FreshRead(f) /\ Power(f) = {}
  BY <1>1, <1>2, <1>5, EmptyTypes DEF Balance, Balances
<1> QED
  BY <1>3, <1>4, <1>5

Judging == [bank EXCEPT !.blocked = @ \/ cause]

LEMMA JudgingBank ==
    ASSUME BankTypeOK
    PROVE  /\ Judging \in Banks /\ Judging.failures = bank.failures
           /\ Judging.since = bank.since
           /\ Judging.blocked <=> bank.blocked \/ cause
           /\ Judging.failed <=> bank.failed
           /\ Judging.ready <=> bank.ready
<1>1. bank \in Banks /\ cause \in BOOLEAN
  BY TypesNamed DEF TrustTypes
<1>2. Judging \in Banks
  BY <1>1 DEF Judging, Banks
<1>3. Judging.failures = bank.failures /\ Judging.since = bank.since
  BY <1>1 DEF Judging, Banks
<1>4. Judging.blocked <=> bank.blocked \/ cause
  BY <1>1 DEF Judging, Banks
<1>5. (Judging.failed <=> bank.failed) /\ (Judging.ready <=> bank.ready)
  BY <1>1 DEF Judging, Banks
<1> QED
  BY <1>2, <1>3, <1>4, <1>5

\* What a minute's first observation does, with its parts named.
LEMMA Observed ==
    ASSUME BankTypeOK, NEW f \in Frames, Observe(f)
    PROVE  /\ ~minute.judged /\ minute'.judged /\ minute'.last = minute.last
           /\ minute' \in [judged : BOOLEAN, last : BOOLEAN]
           /\ bank' = IF Reason(f) = "ok" THEN Passing(Judging, FreshRead(f))
                      ELSE Failing(Judging)
           /\ view' \in Views
           /\ view'.trust = "trusted" => Reason(f) = "ok" /\ ~bank'.blocked
           /\ passes' = IF Reason(f) = "ok" /\ FreshRead(f) THEN AtMost(passes + 1, Recovery + 1)
                        ELSE 0
           /\ fails' = IF Reason(f) = "ok" THEN 0 ELSE AtMost(fails + 1, Threshold)
           /\ owed' = ((owed \/ cause \/ fails' >= Threshold)
                       /\ ~(passes' > Recovery /\ ~cause))
           /\ energy' = Balance(f)
           /\ shown' = IF FreshRead(f) THEN KeptRead(f).read.value ELSE {}
           /\ good' \in Goods /\ up' = up /\ cause' = cause
<1>1. minute \in [judged : BOOLEAN, last : BOOLEAN] /\ view \in Views
  BY TypesNamed DEF TrustTypes
<1>2. /\ ~minute.judged /\ minute' = [minute EXCEPT !.judged = TRUE]
      /\ energy' = Balance(f)
      /\ shown' = IF FreshRead(f) THEN KeptRead(f).read.value ELSE {}
      /\ good' = [KeptRead(f) EXCEPT !.read = Judged(@)]
      /\ up' = up /\ cause' = cause
  BY DEF Observe
<1>3. minute'.judged /\ minute'.last = minute.last
      /\ minute' \in [judged : BOOLEAN, last : BOOLEAN]
  BY <1>1, <1>2
<1>4. bank' = IF Reason(f) = "ok" THEN Passing(Judging, FreshRead(f)) ELSE Failing(Judging)
  BY DEF Observe, Judging
<1>5. /\ passes' = IF Reason(f) = "ok" /\ FreshRead(f) THEN AtMost(passes + 1, Recovery + 1)
                   ELSE 0
      /\ fails' = IF Reason(f) = "ok" THEN 0 ELSE AtMost(fails + 1, Threshold)
      /\ owed' = ((owed \/ cause \/ fails' >= Threshold)
                  /\ ~(passes' > Recovery /\ ~cause))
  BY DEF Observe
<1>6. view' \in Views /\ (view'.trust = "trusted" => Reason(f) = "ok" /\ ~bank'.blocked)
  <2> DEFINE kept  == IF FreshRead(f) THEN KeptRead(f).read ELSE view
             trust == IF Reason(f) # "ok" THEN "untrusted"
                      ELSE IF bank'.blocked THEN "recovering" ELSE "trusted"
  <2>1. view' = [value |-> kept.value, age |-> kept.age, reason |-> Reason(f), trust |-> trust]
    BY DEF Observe
  <2>2. kept.value \in Readings /\ kept.age \in 0 .. MaxAge + 1
    BY FrameTypes, <1>1 DEF Goods, Reads, Views
  <2>3. /\ trust \in {"trusted", "untrusted", "recovering"}
        /\ trust = "trusted" => Reason(f) = "ok" /\ ~bank'.blocked
    OBVIOUS
  <2>4. Reason(f) \in Reasons
    BY ReasonTypes
  <2> HIDE DEF kept, trust
  <2> QED
    BY <2>1, <2>2, <2>3, <2>4 DEF Views
<1>7. good' \in Goods
  <2>1. KeptRead(f) \in Goods /\ KeptRead(f).read \in Reads
    BY FrameTypes DEF Goods
  <2>2. Judged(KeptRead(f).read) \in Reads
    BY <2>1, EmptyTypes DEF Judged, Reads
  <2> QED
    BY <1>2, <2>1, <2>2 DEF Goods
<1> QED
  BY <1>2, <1>3, <1>4, <1>5, <1>6, <1>7

\* What a later one does.
LEMMA ObservedAgain ==
    ASSUME BankTypeOK, NEW f \in Frames, ObserveAgain(f)
    PROVE  /\ minute.judged /\ minute' = minute /\ up' = up /\ cause' = cause
           /\ good' \in Goods /\ view' \in Views
           /\ view'.trust = "trusted" => Sound /\ view.trust = "trusted" /\ ~cause
           /\ \/ /\ ~Sound /\ ~bank.failed /\ bank' = Failing(Judging)
                 /\ energy' = [energy EXCEPT !.rejected = {}] /\ shown' = {}
                 /\ passes' = 0 /\ fails' = AtMost(fails + 1, Threshold)
              \/ /\ Sound \/ bank.failed
                 /\ bank' = Judging /\ energy' = energy /\ shown' = shown /\ fails' = fails
                 /\ passes' = IF Sound THEN passes ELSE 0
           /\ owed' = (owed \/ cause \/ fails' >= Threshold)
<1>1. view \in Views /\ cause \in BOOLEAN
  BY TypesNamed DEF TrustTypes
<1>2. /\ minute.judged /\ minute' = minute /\ up' = up /\ cause' = cause
      /\ owed' = (owed \/ cause \/ fails' >= Threshold)
      /\ good' = KeptRead(f)
  BY DEF ObserveAgain
<1>3. good' \in Goods
  BY <1>2, FrameTypes
<1>4. view' \in Views /\ (view'.trust = "trusted" => Sound /\ view.trust = "trusted" /\ ~cause)
  <2>1. CASE ~Sound
    <3>1. view' = [view EXCEPT !.trust = "untrusted", !.reason = "read_failed"]
      BY <2>1 DEF ObserveAgain
    <3> QED
      BY <1>1, <3>1 DEF Views, Reasons
  <2>2. CASE Sound /\ cause /\ view.trust = "trusted"
    <3>1. view' = [view EXCEPT !.trust = "recovering", !.reason = "ok"]
      BY <2>2 DEF ObserveAgain
    <3> QED
      BY <1>1, <3>1 DEF Views, Reasons
  <2>3. CASE Sound /\ ~(cause /\ view.trust = "trusted")
    <3>1. view' = view
      BY <2>3 DEF ObserveAgain
    <3> QED
      BY <1>1, <2>3, <3>1
  <2> QED
    BY <2>1, <2>2, <2>3
<1>5. CASE ~Sound /\ ~bank.failed
  BY <1>2, <1>3, <1>4, <1>5 DEF ObserveAgain, Judging
<1>6. CASE Sound \/ bank.failed
  <2>1. /\ bank' = Judging /\ energy' = energy /\ shown' = shown /\ fails' = fails
        /\ passes' = IF Sound THEN passes ELSE 0
    BY <1>6 DEF ObserveAgain, Judging
  <2> QED
    BY <1>2, <1>3, <1>4, <1>6, <2>1
<1> QED
  BY <1>5, <1>6

LEMMA BankTypeStep ==
    ASSUME BankTypeOK, [BankNext]_bankVars
    PROVE  BankTypeOK'
<1>1. TrustTypes
  BY TypesNamed
<1> SUFFICES TrustTypes'
  BY TypesNamed, PTL
<1>2. ASSUME LinkLost PROVE TrustTypes'
  BY <1>1, <1>2 DEF LinkLost, TrustTypes, Remembered, Goods
<1>3. ASSUME LinkBack PROVE TrustTypes'
  BY <1>1, <1>3 DEF LinkBack, TrustTypes, Remembered
<1>4. ASSUME MinuteEnds PROVE TrustTypes'
  <2>1. good' \in Goods
    BY <1>1, <1>4, AgedTypes DEF MinuteEnds, TrustTypes, Goods
  <2>2. view' \in Views
    BY <1>1, <1>4, AgedTypes DEF MinuteEnds, TrustTypes
  <2>3. energy' \in Balances
    <3> DEFINE n == AtMost(energy.waited + 1, Enough)
    <3>0. energy.waited + 1 \in Nat
      BY <1>1, BoundsAreNat DEF TrustTypes, Balances
    <3>1. n \in 0 .. Enough
      BY <3>0, BoundsAreNat, AtMostBounds
    <3>2. energy' = [energy EXCEPT !.waited = n]
      BY <1>4, Zenon DEF MinuteEnds
    <3>3. energy \in Balances
      BY <1>1 DEF TrustTypes
    <3> HIDE DEF n
    <3> QED
      BY <3>1, <3>2, <3>3 DEF Balances
  <2>4. bank' \in Banks
    <3>1. \A n \in 0 .. Recovery : AtMost(n + 1, Recovery) \in 0 .. Recovery
      BY BankAssumption DEF AtMost
    <3>2. bank.since \in Sinces
      BY <1>1 DEF TrustTypes, Banks
    <3>3. {AtMost(n + 1, Recovery) : n \in bank.since} \in Sinces
      BY <3>1, <3>2 DEF Sinces
    <3> QED
      BY <1>1, <1>4, <3>3 DEF MinuteEnds, TrustTypes, Banks
  <2>5. minute' \in [judged : BOOLEAN, last : BOOLEAN] /\ passes' \in 0 .. Recovery + 1
    BY <1>1, <1>4, BankAssumption DEF MinuteEnds, TrustTypes
  <2> QED
    BY <1>1, <1>4, <2>1, <2>2, <2>3, <2>4, <2>5 DEF MinuteEnds, TrustTypes
<1>5. ASSUME NEW f \in Frames, Observe(f) PROVE TrustTypes'
  <2>1. bank' \in Banks
    BY <1>5, Observed, JudgingBank, FailingBank, PassingBank, FrameTypes
  <2>2. energy' \in Balances /\ shown' \in Readings
    <3>1. energy' = Balance(f)
          /\ shown' = IF FreshRead(f) THEN KeptRead(f).read.value ELSE {}
      BY <1>5, Observed
    <3>2. KeptRead(f).read.value \in Readings
      BY FrameTypes DEF Goods, Reads
    <3>3. Balance(f) \in Balances
      BY BalanceTypes
    <3> QED
      BY <3>1, <3>2, <3>3, EmptyTypes
  <2>3. passes' \in 0 .. Recovery + 1 /\ fails' \in 0 .. Threshold
    BY <1>1, <1>5, Observed, BankAssumption DEF TrustTypes, AtMost
  <2>4. owed' \in BOOLEAN
    BY <1>5, Observed
  <2> QED
    BY <1>1, <1>5, <2>1, <2>2, <2>3, <2>4, Observed DEF TrustTypes
<1>6. ASSUME NEW f \in Frames, ObserveAgain(f) PROVE TrustTypes'
  <2>1. bank' \in Banks
    BY <1>6, ObservedAgain, JudgingBank, FailingBank
  <2>2. energy' \in Balances /\ shown' \in Readings
    BY <1>1, <1>6, ObservedAgain, EmptyTypes DEF TrustTypes, Balances
  <2>3. passes' \in 0 .. Recovery + 1 /\ fails' \in 0 .. Threshold
    BY <1>1, <1>6, ObservedAgain, BankAssumption DEF TrustTypes, AtMost
  <2>4. owed' \in BOOLEAN
    BY <1>6, ObservedAgain
  <2> QED
    BY <1>1, <1>6, <2>1, <2>2, <2>3, <2>4, ObservedAgain DEF TrustTypes
<1>7. ASSUME Fall \/ \E left \in BOOLEAN : CauseEnds(left) PROVE TrustTypes'
  BY <1>1, <1>7 DEF Fall, CauseEnds, TrustTypes, Remembered
<1>8. ASSUME BankRestart PROVE TrustTypes'
  <2>1. 0 \in 0 .. Recovery + 1 /\ 0 \in 0 .. Threshold
    BY BankAssumption
  <2> QED
    BY <1>1, <1>8, <2>1, EmptyTypes, NewBankIsUnblocked DEF BankRestart, TrustTypes
<1>9. CASE UNCHANGED bankVars
  BY <1>1, <1>9 DEF bankVars, TrustTypes
<1> QED
  BY <1>2, <1>3, <1>4, <1>5, <1>6, <1>7, <1>8, <1>9 DEF BankNext

-----------------------------------------------------------------------------
(* A bank is blocked as long as a recovery is owed *)

\* A failed observation, the first or a later one, blocks exactly when a recovery becomes owed.
LEMMA FailureCounts ==
    ASSUME BankTypeOK, OwedBlocked, bank' = Failing(Judging),
           fails' = AtMost(fails + 1, Threshold),
           owed' <=> owed \/ cause \/ fails' >= Threshold
    PROVE  /\ bank'.since = {} /\ ~bank'.ready /\ bank'.failures \in 0 .. Threshold
           /\ owed' <=> bank'.blocked
           /\ ~bank'.blocked => fails' = bank'.failures /\ bank'.failures < Threshold
           /\ fails' <= bank'.failures
           /\ cause => bank'.blocked
<1>1. /\ bank.failures \in 0 .. Threshold /\ fails \in 0 .. Threshold
      /\ bank' \in Banks /\ bank'.failures = AtMost(bank.failures + 1, Threshold)
      /\ bank'.blocked <=> (bank.blocked \/ cause) \/ bank.failures + 1 >= Threshold
      /\ bank'.since = {} /\ ~bank'.ready
  BY JudgingBank, FailingBank, TypesNamed DEF TrustTypes, Banks
<1>2. /\ bank'.failures \in 0 .. Threshold
      /\ bank'.failures = IF bank.failures + 1 > Threshold THEN Threshold ELSE bank.failures + 1
      /\ fails' = IF fails + 1 > Threshold THEN Threshold ELSE fails + 1
  BY <1>1, BankAssumption DEF AtMost
<1>3. /\ owed <=> bank.blocked
      /\ ~bank.blocked => fails = bank.failures /\ bank.failures < Threshold
      /\ fails <= bank.failures
  BY DEF OwedBlocked
<1>4. owed' <=> bank'.blocked
  <2>1. CASE bank.blocked \/ cause
    BY <1>1, <1>3, <2>1
  <2>2. CASE ~bank.blocked /\ ~cause
    BY <1>1, <1>2, <1>3, <2>2, BankAssumption
  <2> QED
    BY <2>1, <2>2
<1>5. ~bank'.blocked => fails' = bank'.failures /\ bank'.failures < Threshold
  BY <1>1, <1>2, <1>3, BankAssumption
<1>6. fails' <= bank'.failures
  BY <1>1, <1>2, <1>3, BankAssumption
<1> QED
  BY <1>1, <1>2, <1>4, <1>5, <1>6

\* A pass of a blocked bank ends the block exactly when the recovery is no longer owed.
LEMMA RecoveryCounts ==
    ASSUME BankTypeOK, OwedBlocked, NEW fresh \in BOOLEAN, ~minute.judged, minute'.judged,
           bank.blocked \/ cause, bank' = Passing(Judging, fresh), fails' = 0,
           passes' = IF fresh THEN AtMost(passes + 1, Recovery + 1) ELSE 0,
           owed' <=> ~(passes' > Recovery /\ ~cause)
    PROVE  /\ owed' <=> bank'.blocked
           /\ ~bank'.blocked => /\ bank'.since = {} /\ ~bank'.ready /\ ~cause
                                /\ bank'.failures = 0
           /\ ~bank'.failed
           /\ bank'.since = {} => passes' = 0 \/ ~bank'.blocked
           /\ \A n \in bank'.since : passes' = n + 1
<1> DEFINE c == Recovering(Judging, fresh)
<1>1. Judging \in Banks /\ Judging.blocked /\ Judging.since = bank.since
  BY JudgingBank
<1>2. /\ c.blocked /\ ~c.failed
      /\ ~fresh => c.since = {} /\ ~c.ready
      /\ fresh => /\ c.since = IF bank.since # {} /\ minute.last THEN bank.since ELSE {0}
                  /\ c.ready <=> Recovery \in c.since
  BY <1>1, RecoveringBank
<1>3. bank' = IF c.ready /\ ~cause THEN NewBank ELSE c
  BY <1>1, PassingBlocked
<1> HIDE DEF c
<1>4. passes \in 0 .. Recovery + 1 /\ bank.since \in Sinces /\ passes' \in 0 .. Recovery + 1
  BY BankAssumption, TypesNamed DEF TrustTypes, Banks, AtMost
<1>5. fresh => \E n \in 0 .. Recovery : c.since = {n} /\ passes' = n + 1
  <2> HAVE fresh
  <2>0. passes' = AtMost(passes + 1, Recovery + 1) /\ 0 \in 0 .. Recovery
    BY BankAssumption
  <2>1. CASE bank.since # {} /\ minute.last
    <3>1. PICK n \in 0 .. Recovery : bank.since = {n}
      BY <1>4, <2>1 DEF Sinces
    <3>2. passes = n \/ (n = Recovery /\ passes = Recovery + 1)
      BY <2>1, <3>1 DEF OwedBlocked, Clocked
    <3>3. passes' = n + 1
      BY <2>0, <3>2, BankAssumption DEF AtMost
    <3> QED
      BY <1>2, <2>1, <3>1, <3>3
  <2>2. CASE ~(bank.since # {} /\ minute.last)
    <3>1. passes = 0
      BY <2>2 DEF OwedBlocked
    <3>2. passes' = 0 + 1
      BY <2>0, <3>1, BankAssumption DEF AtMost
    <3> QED
      BY <1>2, <2>0, <2>2, <3>2
  <2> QED
    BY <2>1, <2>2
<1>6. c.ready <=> passes' > Recovery
  <2>1. CASE fresh
    <3>1. PICK n \in 0 .. Recovery : c.since = {n} /\ passes' = n + 1
      BY <1>5, <2>1
    <3>2. c.ready <=> Recovery = n
      BY <1>2, <2>1, <3>1
    <3> QED
      BY <3>1, <3>2, BankAssumption
  <2>2. CASE ~fresh
    BY <1>2, <2>2, BankAssumption
  <2> QED
    BY <2>1, <2>2
<1>7. CASE c.ready /\ ~cause
  BY <1>3, <1>6, <1>7, NewBankIsUnblocked
<1>8. CASE ~(c.ready /\ ~cause)
  <2>1. bank' = c
    BY <1>3, <1>8
  <2>2. \A n \in c.since : passes' = n + 1
    BY <1>2, <1>5
  <2>3. c.since = {} => passes' = 0
    BY <1>5
  <2> QED
    BY <1>2, <1>6, <1>8, <2>1, <2>2, <2>3
<1> QED
  BY <1>7, <1>8

LEMMA OwedBlockedStep ==
    ASSUME BankTypeOK, BankTypeOK', OwedBlocked, [BankNext]_bankVars
    PROVE  OwedBlocked'
<1>0. TrustTypes
  BY TypesNamed
<1>1. ASSUME LinkLost \/ LinkBack PROVE OwedBlocked'
  BY <1>1 DEF LinkLost, LinkBack, Remembered, OwedBlocked, Clocked
<1>2. ASSUME MinuteEnds PROVE OwedBlocked'
  <2>1. /\ bank' = [bank EXCEPT !.since = {AtMost(n + 1, Recovery) : n \in bank.since}]
        /\ view' = Aged(view) /\ passes' = IF minute.judged THEN passes ELSE 0
        /\ minute' = [judged |-> FALSE, last |-> minute.judged]
        /\ fails' = fails /\ owed' = owed /\ cause' = cause
    BY <1>2, Zenon DEF MinuteEnds
  <2>2. /\ bank'.since = {AtMost(n + 1, Recovery) : n \in bank.since}
        /\ bank'.failures = bank.failures
    BY <1>0, <2>1 DEF TrustTypes, Banks
  <2>3. /\ bank'.blocked <=> bank.blocked
        /\ bank'.failed <=> bank.failed
        /\ bank'.ready <=> bank.ready
    BY <1>0, <2>1 DEF TrustTypes, Banks
  <2>4. view'.trust = view.trust
    BY <1>0, <2>1, AgedTypes DEF TrustTypes
  <2>5. ~minute'.judged /\ (minute'.last <=> minute.judged)
    BY <2>1
  <2>6. bank'.since = {} <=> bank.since = {}
    BY <2>2
  <2>7. \A k \in bank'.since : Clocked(k)'
    <3>1. SUFFICES ASSUME NEW k \in bank'.since
                   PROVE  \/ passes' = k \/ (k = Recovery /\ passes' = Recovery + 1)
                          \/ ~minute'.last /\ passes' = 0
      BY <2>5 DEF Clocked
    <3>2. PICK n \in bank.since : k = AtMost(n + 1, Recovery)
      BY <2>2
    <3>3. n \in 0 .. Recovery
      BY <1>0 DEF TrustTypes, Banks, Sinces
    <3>4. CASE minute.judged
      <4>1. passes = n + 1 /\ passes' = passes
        BY <2>1, <3>4 DEF OwedBlocked, Clocked
      <4> QED
        BY <3>2, <3>3, <4>1, BankAssumption DEF AtMost
    <3>5. CASE ~minute.judged
      BY <2>1, <2>5, <3>5
    <3> QED
      BY <3>4, <3>5
  <2>8. /\ passes' = IF minute.judged THEN passes ELSE 0
        /\ fails' = fails /\ owed' = owed /\ cause' = cause
    BY <2>1
  <2> HIDE DEF Clocked
  <2>9. bank'.blocked /\ bank'.since = {} => passes' = 0
    BY <2>3, <2>6, <2>8 DEF OwedBlocked
  <2>10. cause' => bank'.blocked \/ (~minute'.judged /\ passes' = 0)
    BY <2>3, <2>5, <2>8 DEF OwedBlocked
  <2>11. ~minute'.judged /\ ~minute'.last => passes' = 0
    BY <2>5, <2>8
  <2> QED
    BY <2>2, <2>3, <2>4, <2>6, <2>7, <2>8, <2>9, <2>10, <2>11 DEF OwedBlocked
<1>3. ASSUME NEW f \in Frames, Observe(f) PROVE OwedBlocked'
  <2>0. FreshRead(f) \in BOOLEAN
    BY FrameTypes
  <2>1. /\ ~minute.judged /\ minute'.judged /\ cause' = cause
        /\ view'.trust = "trusted" => Reason(f) = "ok" /\ ~bank'.blocked
        /\ owed' <=> (owed \/ cause \/ fails' >= Threshold) /\ ~(passes' > Recovery /\ ~cause)
    BY <1>3, Observed
  <2>2. CASE Reason(f) # "ok"
    <3>1. /\ bank' = Failing(Judging) /\ passes' = 0
          /\ fails' = AtMost(fails + 1, Threshold)
      BY <1>3, <2>2, Observed
    <3>2. owed' <=> owed \/ cause \/ fails' >= Threshold
      BY <2>1, <3>1, BankAssumption
    <3> QED
      BY <2>1, <2>2, <3>1, <3>2, FailureCounts DEF OwedBlocked
  <2>3. CASE Reason(f) = "ok" /\ (bank.blocked \/ cause)
    <3>1. /\ bank' = Passing(Judging, FreshRead(f)) /\ fails' = 0
          /\ passes' = IF FreshRead(f) THEN AtMost(passes + 1, Recovery + 1) ELSE 0
      BY <1>3, <2>3, Observed
    <3>2. owed' <=> ~(passes' > Recovery /\ ~cause)
      BY <2>1, <2>3 DEF OwedBlocked
    <3>3. /\ owed' <=> bank'.blocked
          /\ ~bank'.blocked => /\ bank'.since = {} /\ ~bank'.ready /\ ~cause
                               /\ bank'.failures = 0
          /\ ~bank'.failed
          /\ bank'.since = {} => passes' = 0 \/ ~bank'.blocked
          /\ \A n \in bank'.since : passes' = n + 1
      BY <2>0, <2>1, <2>3, <3>1, <3>2, RecoveryCounts
    <3>4. bank'.failures \in 0 .. Threshold
      BY DEF BankTypeOK
    <3> QED
      BY <2>1, <3>1, <3>3, <3>4, BankAssumption DEF OwedBlocked, Clocked
  <2>4. CASE Reason(f) = "ok" /\ ~bank.blocked /\ ~cause
    <3>1. bank' = Passing(Judging, FreshRead(f)) /\ fails' = 0
      BY <1>3, <2>4, Observed
    <3>2. /\ bank'.failures = 0 /\ ~bank'.blocked /\ ~bank'.failed
          /\ bank'.since = {} /\ ~bank'.ready
      BY <2>0, <2>4, <3>1, JudgingBank, PassingUnblocked DEF OwedBlocked
    <3>3. ~owed'
      BY <2>1, <2>4, <3>1, BankAssumption DEF OwedBlocked
    <3> QED
      BY <2>1, <2>4, <3>1, <3>2, <3>3, BankAssumption DEF OwedBlocked
  <2> QED
    BY <2>2, <2>3, <2>4
<1>4. ASSUME NEW f \in Frames, ObserveAgain(f) PROVE OwedBlocked'
  <2>1. /\ minute.judged /\ minute' = minute /\ cause' = cause
        /\ view'.trust = "trusted" => Sound /\ view.trust = "trusted" /\ ~cause
        /\ owed' <=> owed \/ cause \/ fails' >= Threshold
    BY <1>4, ObservedAgain
  <2>2. cause => bank.blocked
    BY <2>1 DEF OwedBlocked
  <2>3. CASE ~Sound /\ ~bank.failed
    <3>1. /\ bank' = Failing(Judging) /\ passes' = 0
          /\ fails' = AtMost(fails + 1, Threshold)
      BY <1>4, <2>3, ObservedAgain
    <3> QED
      BY <2>1, <2>3, <3>1, FailureCounts DEF OwedBlocked
  <2>4. CASE Sound \/ bank.failed
    <3>1. /\ bank' = Judging /\ fails' = fails
          /\ passes' = IF Sound THEN passes ELSE 0
      BY <1>4, <2>4, ObservedAgain
    <3>2. /\ bank'.failures = bank.failures /\ bank'.since = bank.since
          /\ bank'.blocked <=> bank.blocked
          /\ bank'.failed <=> bank.failed
          /\ bank'.ready <=> bank.ready
      BY <2>2, <3>1, JudgingBank
    <3>3. owed' <=> bank'.blocked
      BY <1>0, <2>1, <2>2, <3>1, <3>2, BankAssumption DEF OwedBlocked, TrustTypes, Banks
    <3>4. \A n \in bank'.since : Clocked(n)'
      BY <2>1, <2>4, <3>1, <3>2 DEF OwedBlocked, Clocked
    <3>5. bank'.blocked /\ bank'.since = {} => passes' = 0
      BY <3>1, <3>2 DEF OwedBlocked
    <3>6. view'.trust = "trusted" => ~bank'.blocked
      BY <2>1, <3>2 DEF OwedBlocked
    <3> QED
      BY <2>1, <2>2, <3>1, <3>2, <3>3, <3>4, <3>5, <3>6 DEF OwedBlocked
  <2> QED
    BY <2>3, <2>4
<1>5. ASSUME Fall PROVE OwedBlocked'
  BY <1>5 DEF Fall, Requested, Remembered, OwedBlocked, Clocked
<1>6. ASSUME NEW left \in BOOLEAN, CauseEnds(left) PROVE OwedBlocked'
  BY <1>6 DEF CauseEnds, Remembered, OwedBlocked, Clocked
<1>7. ASSUME BankRestart PROVE OwedBlocked'
  BY <1>7, NewBankIsUnblocked, BankAssumption DEF BankRestart, NoView, OwedBlocked
<1>8. CASE UNCHANGED bankVars
  BY <1>8 DEF bankVars, OwedBlocked, Clocked
<1> QED
  BY <1>1, <1>2, <1>3, <1>4, <1>5, <1>6, <1>7, <1>8 DEF BankNext

-----------------------------------------------------------------------------
(* One wild reading is never believed *)

LEMMA RejectedStep ==
    ASSUME BankTypeOK, RejectedShown, [BankNext]_bankVars
    PROVE  RejectedShown'
<1>0. TrustTypes
  BY TypesNamed
<1>1. ASSUME NEW f \in Frames, Observe(f) PROVE RejectedShown'
  <2>1. /\ energy' = Balance(f)
        /\ shown' = IF FreshRead(f) THEN KeptRead(f).read.value ELSE {}
    BY <1>1, Observed
  <2>2. CASE FreshRead(f)
    <3>1. energy'.rejected = IF Jump(f) /\ FreshReason(f) # "ok" THEN KeptRead(f).read.value
                             ELSE {}
      BY <2>1, <2>2 DEF Balance
    <3> QED
      BY <2>1, <2>2, <3>1 DEF RejectedShown
  <2>3. CASE ~FreshRead(f)
    BY <1>0, <2>1, <2>3 DEF Balance, RejectedShown, TrustTypes, Balances
  <2> QED
    BY <2>2, <2>3
<1>2. ASSUME NEW f \in Frames, ObserveAgain(f) PROVE RejectedShown'
  BY <1>0, <1>2, ObservedAgain DEF RejectedShown, TrustTypes, Balances
<1>3. ASSUME MinuteEnds PROVE RejectedShown'
  <2>1. energy' = [energy EXCEPT !.waited = AtMost(@ + 1, Enough)] /\ shown' = shown
    BY <1>3, Zenon DEF MinuteEnds
  <2> QED
    BY <1>0, <2>1 DEF RejectedShown, TrustTypes, Balances
<1>4. ASSUME LinkLost \/ LinkBack \/ Fall \/ (\E left \in BOOLEAN : CauseEnds(left))
             \/ UNCHANGED bankVars
      PROVE  RejectedShown'
  BY <1>4 DEF LinkLost, LinkBack, Fall, CauseEnds, Remembered, bankVars, RejectedShown
<1>5. ASSUME BankRestart PROVE RejectedShown'
  BY <1>5 DEF BankRestart, NewBalance, RejectedShown
<1> QED
  BY <1>1, <1>2, <1>3, <1>4, <1>5 DEF BankNext

LEMMA BelievedStep ==
    ASSUME BankTypeOK, RejectedShown, [BankNext]_bankVars
    PROVE  BelievedTwice
<1>0. TrustTypes
  BY TypesNamed
<1>1. SUFFICES ASSUME energy'.base # energy.base, energy'.base # {}, energy'.power # {},
                      NEW b \in energy.base, NEW v \in energy'.base,
                      Unexplained(Apart(v, b), Used(energy'.power))
               PROVE  shown = {v}
  BY DEF BelievedTwice
<1>2. ASSUME NEW f \in Frames, Observe(f) PROVE shown = {v}
  <2>1. energy' = Balance(f)
    BY <1>2, Observed
  <2>2. FreshRead(f)
    BY <1>0, <1>1, <2>1 DEF Balance, TrustTypes, Balances
  <2>3. /\ energy'.power = Power(f)
        /\ energy'.base = IF FreshReason(f) = "ok" /\ KeptRead(f).read.value # energy.base
                          THEN KeptRead(f).read.value ELSE energy.base
    BY <2>1, <2>2 DEF Balance
  <2>4. FreshReason(f) = "ok" /\ energy'.base = KeptRead(f).read.value
    BY <1>1, <2>3
  <2>5. Implausible(f)
    BY <1>1, <2>3, <2>4 DEF Implausible
  <2>6. SeenTwice(f)
    BY <2>4, <2>5 DEF FreshReason
  <2>7. energy'.base = energy.rejected
    BY <2>4, <2>6 DEF SeenTwice
  <2>8. energy'.base = {v}
    BY <2>4, <1>1, FrameTypes DEF Goods, Reads, Readings
  <2> QED
    BY <1>1, <2>7, <2>8 DEF RejectedShown
<1>3. ASSUME NEW f \in Frames, ObserveAgain(f) PROVE FALSE
  BY <1>0, <1>1, <1>3, ObservedAgain DEF TrustTypes, Balances
<1>4. ASSUME MinuteEnds PROVE FALSE
  <2>1. energy' = [energy EXCEPT !.waited = AtMost(@ + 1, Enough)]
    BY <1>4, Zenon DEF MinuteEnds
  <2> QED
    BY <1>0, <1>1, <2>1 DEF TrustTypes, Balances
<1>5. ASSUME LinkLost \/ LinkBack \/ Fall \/ (\E left \in BOOLEAN : CauseEnds(left))
             \/ UNCHANGED bankVars
      PROVE  FALSE
  BY <1>1, <1>5 DEF LinkLost, LinkBack, Fall, CauseEnds, bankVars
<1>6. ASSUME BankRestart PROVE FALSE
  BY <1>1, <1>6 DEF BankRestart, NewBalance
<1> QED
  BY <1>2, <1>3, <1>4, <1>5, <1>6 DEF BankNext

-----------------------------------------------------------------------------
(* The theorems of the integration's side *)

LEMMA TrustInvInit == BankInit => TrustInv
<1> SUFFICES ASSUME BankInit PROVE TrustInv
  OBVIOUS
<1>1. BankTypeOK
  BY BankTypeInit
<1>2. OwedBlocked
  BY NewBankIsUnblocked, BankAssumption DEF BankInit, NoView, OwedBlocked
<1>3. RejectedShown
  BY DEF BankInit, NewBalance, RejectedShown
<1> QED
  BY <1>1, <1>2, <1>3 DEF TrustInv

LEMMA TrustInvStep == TrustInv /\ [BankNext]_bankVars => TrustInv'
<1> SUFFICES ASSUME TrustInv, [BankNext]_bankVars PROVE TrustInv'
  OBVIOUS
<1>1. BankTypeOK'
  BY BankTypeStep DEF TrustInv
<1>2. OwedBlocked'
  BY <1>1, OwedBlockedStep DEF TrustInv
<1>3. RejectedShown'
  BY RejectedStep DEF TrustInv
<1> QED
  BY <1>1, <1>2, <1>3 DEF TrustInv

\* Every variable of the integration's SoC monitor keeps its type: counters stay within the
\* threshold and the recovery time, and only known reasons and trust levels are published
\* (native_soc.py, SocMonitor).
THEOREM BankTypeCorrect == BankSpec => []BankTypeOK
<1>1. BankInit => BankTypeOK
  BY BankTypeInit
<1>2. BankTypeOK /\ [BankNext]_bankVars => BankTypeOK'
  BY BankTypeStep
<1> QED
  BY <1>1, <1>2, PTL DEF BankSpec

\* Trust is earned, for every level, power, age, threshold and recovery time: a bank that is
\* owed a recovery is not published as trusted, fallback is asked for only while one is owed,
\* and a jump nothing explains is believed only when two judged minutes in a row showed it
\* (native_soc.py: observe, _judge, bank).
THEOREM TrustIsEarned == BankSpec => TrustEarned
<1>1. TrustInv /\ TrustInv' /\ [BankNext]_bankVars =>
        [/\ view'.trust = "trusted" => ~owed'
         /\ cause' /\ ~cause => owed
         /\ BelievedTwice]_bankVars
  <2> SUFFICES ASSUME TrustInv, TrustInv', [BankNext]_bankVars
               PROVE  /\ view'.trust = "trusted" => ~owed'
                      /\ cause' /\ ~cause => owed
                      /\ BelievedTwice
    OBVIOUS
  <2>1. view'.trust = "trusted" => ~owed'
    BY DEF TrustInv, OwedBlocked
  <2>2. cause' /\ ~cause => owed
    <3> SUFFICES ASSUME cause', ~cause PROVE owed
      OBVIOUS
    <3>1. bank.blocked
      <4>1. ASSUME NEW f \in Frames, Observe(f) \/ ObserveAgain(f) PROVE FALSE
        BY <4>1 DEF Observe, ObserveAgain
      <4>2. ASSUME \/ LinkLost \/ LinkBack \/ MinuteEnds \/ UNCHANGED bankVars
                   \/ BankRestart \/ \E left \in BOOLEAN : CauseEnds(left)
            PROVE  FALSE
        BY <4>2 DEF LinkLost, LinkBack, MinuteEnds, BankRestart, CauseEnds, bankVars
      <4>3. Fall
        BY <4>1, <4>2 DEF BankNext
      <4> QED
        BY <4>3 DEF Fall, Requested
    <3> QED
      BY <3>1 DEF TrustInv, OwedBlocked
  <2>3. BelievedTwice
    BY BelievedStep DEF TrustInv
  <2> QED
    BY <2>1, <2>2, <2>3
<1>2. TrustInv /\ [BankNext]_bankVars => TrustInv'
  BY TrustInvStep
<1> QED
  BY <1>1, <1>2, TrustInvInit, PTL DEF BankSpec, TrustEarned

-----------------------------------------------------------------------------
(* Lemmas about the add-on's operators *)

Weights == [base : Shown, used : 0 .. Plenty, power : SocPower, waited : 0 .. Plenty,
            rejected : Shown]

LEMMA SocBounds == Highest \in Nat /\ Plenty \in Nat \ {0}
<1>1. PICK l \in SocLevels : \A k \in SocLevels : k <= l
  BY EvidenceAssumption
<1>2. Highest \in SocLevels
  BY <1>1 DEF Highest
<1> QED
  BY <1>2, EvidenceAssumption DEF Plenty

LEMMA CapBounds ==
    ASSUME NEW n \in Nat, NEW top \in Nat
    PROVE  /\ Cap(n, top) \in 0 .. top
           /\ n <= top => Cap(n, top) = n
           /\ n >= top => Cap(n, top) = top
BY DEF Cap

\* A minute later an age is a minute older, up to the oldest that is told apart.
LEMMA OlderAge ==
    /\ \A a \in Ages : Older(a) \in Ages /\ a <= Older(a)
    /\ \A a, b \in Ages : a <= b => Older(a) <= Older(b)
BY EvidenceAssumption DEF Older, Cap, Ages

LEMMA EmptyWeights ==
    /\ {} \in Shown /\ {} \in SocPower /\ Unweighed \in Weights /\ Healthy \in Counts
    /\ Unstable \in Stables
<1>1. {} \in Shown /\ {} \in SocPower
  BY DEF Shown, SocPower
<1>2. 0 \in 0 .. Plenty /\ 0 \in 0 .. FailuresAllowed /\ 0 \in 0 .. StableMinutes /\ 0 \in Ages
  BY SocBounds, EvidenceAssumption DEF Ages
<1>3. Unweighed \in Weights
  BY <1>1, <1>2 DEF Unweighed, Weights
<1>4. Healthy \in Counts
  BY <1>2 DEF Healthy, Counts, States
<1>5. Unstable \in Stables
  BY <1>2 DEF Unstable, Stables
<1> QED
  BY <1>1, <1>3, <1>4, <1>5

LEMMA WeighedTypes ==
    ASSUME EvidenceTypeOK, NEW o \in Sightings
    PROVE  Weighed(o) \in Weights
<1>1. o.value \in Shown /\ o.power \in SocPower /\ balance \in Weights
  BY DEF EvidenceTypeOK, Weights, Sightings
<1>2. balance.used \in 0 .. Plenty /\ balance.waited \in 0 .. Plenty /\ balance.base \in Shown
  BY <1>1 DEF Weights
<1>3. SocUsed(o.power) \in 0 .. Plenty
  <2>1. balance.used + 2 * balance.waited \in Nat
    BY <1>2, SocBounds
  <2> QED
    BY <1>2, <2>1, SocBounds, CapBounds DEF SocUsed
<1> DEFINE accepted == Passes(o) /\ o.value # balance.base
           base     == IF accepted THEN o.value ELSE balance.base
           used     == IF accepted THEN 0 ELSE SocUsed(o.power)
           rejected == IF SocJump(o) /\ ~Passes(o) THEN o.value ELSE {}
<1>4. base \in Shown /\ used \in 0 .. Plenty /\ rejected \in Shown /\ 1 \in 0 .. Plenty
  BY <1>1, <1>2, <1>3, SocBounds, EmptyWeights
<1>5. Weighed(o) = [base |-> base, used |-> used, power |-> o.power, waited |-> 1,
                    rejected |-> rejected]
  BY DEF Weighed
<1> HIDE DEF base, used, rejected
<1> QED
  BY <1>1, <1>4, <1>5 DEF Weights

\* A minute later the progress of a recovery is a minute longer, and its reports are older.
LEMMA LaterStable ==
    ASSUME NEW s \in Stables
    PROVE  /\ Later(s) \in Stables
           /\ (Later(s).on <=> s.on) /\ (Later(s).ready <=> s.ready)
           /\ (Later(s).gap <=> s.gap)
           /\ s.on => /\ Later(s).minutes = Cap(s.minutes + 1, StableMinutes)
                      /\ Later(s).last = Older(s.last)
           /\ ~s.on => Later(s) = s
<1>1. CASE ~s.on
  BY <1>1 DEF Later
<1>2. CASE s.on
  <2> DEFINE m == Cap(s.minutes + 1, StableMinutes)
             t == [s EXCEPT !.minutes = m, !.first = Older(@), !.last = Older(@)]
  <2>1. Later(s) = t
    BY <1>2 DEF Later
  <2>2. s.minutes + 1 \in Nat /\ StableMinutes \in Nat /\ s.first \in Ages /\ s.last \in Ages
    BY EvidenceAssumption DEF Stables
  <2>3. m \in 0 .. StableMinutes /\ Older(s.first) \in Ages /\ Older(s.last) \in Ages
    BY <2>2, CapBounds, OlderAge
  <2> HIDE DEF m
  <2>4. t \in Stables
    BY <2>3 DEF Stables
  <2>5. (t.on <=> s.on) /\ (t.ready <=> s.ready) /\ (t.gap <=> s.gap)
    BY DEF Stables
  <2>6. t.minutes = m /\ t.last = Older(s.last)
    BY DEF Stables
  <2> QED
    BY <1>2, <2>1, <2>4, <2>5, <2>6 DEF m
<1> QED
  BY <1>1, <1>2

LEMMA BegunStable ==
    ASSUME NEW o \in Sightings
    PROVE  /\ Begun(o) \in Stables /\ Begun(o).on /\ Begun(o).minutes = 0
           /\ Begun(o).first = o.age /\ ~Begun(o).newer
<1>1. Unstable \in Stables /\ o.age \in Ages
  BY EmptyWeights DEF Sightings
<1>2. Begun(o) \in Stables
  BY <1>1 DEF Begun, Stables
<1> QED
  BY <1>2 DEF Begun, Unstable

\* A sighting begins a recovery, or goes on with one whose reports did not go back.
LEMMA AdvancedStable ==
    ASSUME EvidenceTypeOK, NEW o \in Sightings
    PROVE  /\ Advanced(o) \in Stables /\ Advanced(o).on /\ ~Advanced(o).gap
           /\ Advanced(o).last = o.age
           /\ \/ Advanced(o).minutes = 0 /\ ~Advanced(o).ready
              \/ /\ stable.on /\ o.age <= stable.last /\ (driver = "alphaess" => ~stable.gap)
                 /\ Advanced(o).minutes = stable.minutes
                 /\ Advanced(o).ready => stable.minutes = StableMinutes
<1> DEFINE s     == IF ~stable.on \/ Broken(stable, o) THEN Begun(o) ELSE stable
           newer == s.newer \/ o.age < s.first
           ready == newer /\ s.minutes >= StableMinutes
           t     == [s EXCEPT !.last = o.age, !.newer = newer, !.gap = FALSE, !.ready = ready]
<1>1. o.age \in Ages /\ stable \in Stables /\ Begun(o) \in Stables
  BY BegunStable DEF EvidenceTypeOK, Sightings
<1>2. s \in Stables /\ s.on
  BY <1>1, BegunStable
<1>3. Advanced(o) = t
  BY DEF Advanced
<1>4. \/ s = Begun(o) /\ s.minutes = 0 /\ ~ready
      \/ /\ s = stable /\ stable.on /\ o.age <= stable.last
         /\ driver = "alphaess" => ~stable.gap
         /\ ready => stable.minutes = StableMinutes
  <2>1. CASE ~stable.on \/ Broken(stable, o)
    <3>1. s = Begun(o)
      BY <2>1
    <3>2. ~(0 >= StableMinutes)
      BY EvidenceAssumption
    <3> QED
      BY <3>1, <3>2, BegunStable
  <2>2. CASE stable.on /\ ~Broken(stable, o)
    <3>1. s = stable
      BY <2>2
    <3>2. o.age <= stable.last /\ (driver = "alphaess" => ~stable.gap)
      BY <1>1, <2>2 DEF Broken, Stables, Ages
    <3>3. ready => stable.minutes = StableMinutes
      BY <1>1, <3>1, EvidenceAssumption DEF Stables
    <3> QED
      BY <2>2, <3>1, <3>2, <3>3
  <2> QED
    BY <2>1, <2>2
<1>5. newer \in BOOLEAN /\ ready \in BOOLEAN
  BY <1>2 DEF Stables
<1> HIDE DEF s, newer, ready
<1>6. t \in Stables
  BY <1>1, <1>2, <1>5 DEF Stables
<1>7. t.on /\ ~t.gap /\ t.last = o.age /\ t.minutes = s.minutes /\ (t.ready <=> ready)
  BY <1>2, <1>5 DEF Stables
<1> QED
  BY <1>3, <1>4, <1>6, <1>7

-----------------------------------------------------------------------------
(* The trail of minutes *)

\* A minute more: the newest entry is m, the others are the trail's last ones, a minute older.
LEMMA TrailGrows ==
    ASSUME EvidenceTypeOK, Len(trail) <= Window, NEW m \in Minutes
    PROVE  LET t == Trailed(m)
               d == Len(trail) + 1 - Len(t)
           IN  /\ t \in Seq(Minutes) /\ Len(t) \in Nat \ {0} /\ d \in {0, 1}
               /\ Len(t) = Cap(Len(trail) + 1, Window)
               /\ t[Len(t)] = m
               /\ \A i \in 1 .. Len(t) : i < Len(t) =>
                    /\ i + d \in 1 .. Len(trail)
                    /\ t[i] = [trail[i + d] EXCEPT !.age = Older(@)]
<1> DEFINE aged == [i \in DOMAIN trail |-> [trail[i] EXCEPT !.age = Older(@)]]
           all  == Append(aged, m)
           t    == Trailed(m)
           k    == Len(trail)
<1>0. t = IF Len(all) > Window THEN Tail(all) ELSE all
  BY DEF Trailed
<1>1. trail \in Seq(Minutes) /\ k \in Nat /\ DOMAIN trail = 1 .. k
  BY DEF EvidenceTypeOK
<1>2. \A i \in 1 .. k : [trail[i] EXCEPT !.age = Older(@)] \in Minutes
  <2> SUFFICES ASSUME NEW i \in 1 .. k PROVE [trail[i] EXCEPT !.age = Older(@)] \in Minutes
    OBVIOUS
  <2>1. trail[i] \in Minutes
    BY <1>1
  <2>2. Older(trail[i].age) \in Ages
    BY <2>1, OlderAge DEF Minutes
  <2> QED
    BY <2>1, <2>2 DEF Minutes
<1>3. aged \in Seq(Minutes) /\ Len(aged) = k
  <2>1. aged \in [1 .. k -> Minutes]
    BY <1>1, <1>2
  <2>2. aged \in Seq(Minutes)
    BY <1>1, <2>1
  <2> QED
    BY <1>1, <2>1, <2>2
<1>4. \A i \in 1 .. k : aged[i] = [trail[i] EXCEPT !.age = Older(@)]
  BY <1>1
<1> HIDE DEF aged
<1>5. /\ all \in Seq(Minutes) /\ Len(all) = k + 1 /\ all[k + 1] = m
      /\ \A i \in 1 .. k : all[i] = aged[i]
  BY <1>1, <1>3
<1> HIDE DEF all
<1>6. Window \in Nat /\ Window > 1 /\ k \in Nat /\ k <= Window
  BY <1>1, EvidenceAssumption DEF Window
<1>7. CASE k + 1 > Window
  <2>1. t = Tail(all)
    BY <1>0, <1>5, <1>7
  <2>2. k = Window
    BY <1>6, <1>7
  <2>3. /\ t \in Seq(Minutes) /\ Len(t) = k
        /\ \A i \in 1 .. k : t[i] = all[i + 1]
    <3>1. all # << >>
      BY <1>1, <1>5
    <3> QED
      BY <1>1, <1>5, <2>1, <3>1, HeadTailProperties
  <2>4. Len(t) = Cap(k + 1, Window)
    BY <1>6, <2>2, <2>3 DEF Cap
  <2> HIDE DEF t
  <2>5. k + 1 - Len(t) = 1 /\ Len(t) \in Nat \ {0}
    BY <1>1, <1>6, <2>2, <2>3
  <2>6. t[Len(t)] = m
    BY <1>1, <1>5, <1>6, <2>2, <2>3
  <2>7. \A i \in 1 .. Len(t) : i < Len(t) =>
            /\ i + 1 \in 1 .. k
            /\ t[i] = [trail[i + 1] EXCEPT !.age = Older(@)]
    <3> SUFFICES ASSUME NEW i \in 1 .. Len(t), i < Len(t)
                 PROVE  /\ i + 1 \in 1 .. k
                        /\ t[i] = [trail[i + 1] EXCEPT !.age = Older(@)]
      OBVIOUS
    <3>1. i \in 1 .. k /\ i + 1 \in 1 .. k
      BY <1>1, <2>3
    <3> QED
      BY <1>4, <1>5, <2>3, <3>1
  <2> QED
    BY <2>3, <2>4, <2>5, <2>6, <2>7 DEF t
<1>8. CASE k + 1 <= Window
  <2>1. t = all
    BY <1>0, <1>1, <1>5, <1>6, <1>8
  <2>2. Len(t) = Cap(k + 1, Window)
    BY <1>1, <1>5, <1>6, <1>8, <2>1 DEF Cap
  <2> HIDE DEF t
  <2>3. k + 1 - Len(t) = 0 /\ Len(t) \in Nat \ {0}
    BY <1>1, <1>5, <2>1
  <2>4. \A i \in 1 .. Len(t) : i < Len(t) =>
            /\ i + 0 \in 1 .. k
            /\ t[i] = [trail[i + 0] EXCEPT !.age = Older(@)]
    <3> SUFFICES ASSUME NEW i \in 1 .. Len(t), i < Len(t)
                 PROVE  /\ i + 0 \in 1 .. k
                        /\ t[i] = [trail[i + 0] EXCEPT !.age = Older(@)]
      OBVIOUS
    <3>1. i \in 1 .. k /\ i + 0 = i
      BY <1>1, <1>5, <2>1
    <3> QED
      BY <1>4, <1>5, <2>1, <3>1
  <2> QED
    BY <1>5, <2>1, <2>2, <2>3, <2>4 DEF t
<1> QED
  BY <1>1, <1>6, <1>7, <1>8

LEMMA CountsFewer ==
    ASSUME NEW t, NEW n \in Nat, NEW k \in Nat, k <= n, NEW last, NEW every, Len(t) \in Nat,
           CountsFor(t, n, last, every)
    PROVE  CountsFor(t, k, last, every)
BY DEF CountsFor

\* A minute that passes, or was not seen, makes what counts a minute longer.
LEMMA CountsGrow ==
    ASSUME EvidenceTypeOK, Len(trail) <= Window, NEW m \in Minutes, NEW n \in Nat,
           NEW last \in Ages, NEW next \in Ages, NEW every \in BOOLEAN, NEW now \in BOOLEAN,
           CountsFor(trail, n, last, every), n + 1 <= Window, next <= Older(last),
           m.seen => m.ok /\ m.age <= last /\ next <= Older(m.age),
           now => every /\ m.seen
    PROVE  CountsFor(Trailed(m), n + 1, next, now)
<1> DEFINE t == Trailed(m)
           d == Len(trail) + 1 - Len(t)
<1>1. /\ Len(t) \in Nat \ {0} /\ d \in {0, 1} /\ t[Len(t)] = m
      /\ Len(t) = Cap(Len(trail) + 1, Window)
      /\ \A i \in 1 .. Len(t) : i < Len(t) =>
            /\ i + d \in 1 .. Len(trail)
            /\ t[i] = [trail[i + d] EXCEPT !.age = Older(@)]
  BY TrailGrows
<1>2. trail \in Seq(Minutes) /\ Len(trail) \in Nat /\ n <= Len(trail) /\ Window \in Nat
  BY EvidenceAssumption DEF EvidenceTypeOK, CountsFor, Window
<1> HIDE DEF t
<1>3. n + 1 <= Len(t)
  BY <1>1, <1>2 DEF Cap
<1>4. \A i \in 1 .. Len(t) : i < Len(t) =>
         /\ i + d \in 1 .. Len(trail) /\ trail[i + d].age \in Ages
         /\ t[i].age = Older(trail[i + d].age)
         /\ (t[i].seen <=> trail[i + d].seen) /\ (t[i].ok <=> trail[i + d].ok)
  <2> SUFFICES ASSUME NEW i \in 1 .. Len(t), i < Len(t)
               PROVE  /\ i + d \in 1 .. Len(trail) /\ trail[i + d].age \in Ages
                      /\ t[i].age = Older(trail[i + d].age)
                      /\ (t[i].seen <=> trail[i + d].seen) /\ (t[i].ok <=> trail[i + d].ok)
    OBVIOUS
  <2>1. i + d \in 1 .. Len(trail) /\ t[i] = [trail[i + d] EXCEPT !.age = Older(@)]
    BY <1>1
  <2>2. trail[i + d] \in Minutes
    BY <1>2, <2>1
  <2> HIDE DEF d
  <2> QED
    BY <2>1, <2>2 DEF Minutes
<1>5. \A i \in 1 .. Len(t) : i < Len(t) => (i > Len(t) - (n + 1) => i + d > Len(trail) - n)
  BY <1>1, <1>2
<1> HIDE DEF d
<1>6. SUFFICES ASSUME NEW i \in 1 .. Len(t), i > Len(t) - (n + 1)
               PROVE  /\ t[i].seen => t[i].ok /\ Older(t[i].age) >= next
                      /\ \A j \in 1 .. Len(t) :
                            i < j /\ t[i].seen /\ t[j].seen => t[j].age <= t[i].age
                      /\ now => t[i].seen
  BY <1>3 DEF CountsFor, t
<1>7. CASE i = Len(t)
  <2>1. t[i] = m /\ \A j \in 1 .. Len(t) : ~(i < j)
    BY <1>1, <1>7
  <2>2. m.seen => Older(m.age) >= next
    BY OlderAge DEF Minutes, Ages
  <2> QED
    BY <2>1, <2>2
<1>8. CASE i < Len(t)
  <2> DEFINE a == trail[i + d]
  <2>1. /\ i + d \in 1 .. Len(trail) /\ i + d > Len(trail) - n /\ a.age \in Ages
        /\ t[i].age = Older(a.age) /\ (t[i].seen <=> a.seen) /\ (t[i].ok <=> a.ok)
    BY <1>4, <1>5, <1>6, <1>8
  <2>2. /\ a.seen => a.ok /\ Older(a.age) >= last
        /\ \A k \in 1 .. Len(trail) :
              i + d < k /\ a.seen /\ trail[k].seen => trail[k].age <= a.age
        /\ every => a.seen
    BY <2>1 DEF CountsFor
  <2>3. Older(a.age) \in Ages /\ Older(last) \in Ages /\ Older(Older(a.age)) \in Ages
    BY <2>1, OlderAge
  <2>4. a.seen => Older(Older(a.age)) >= next
    <3>1. a.seen => Older(last) <= Older(Older(a.age))
      BY <2>2, <2>3, OlderAge DEF Ages
    <3> QED
      BY <2>3, <3>1 DEF Ages
  <2>5. ASSUME NEW j \in 1 .. Len(t), i < j, t[i].seen, t[j].seen
        PROVE  t[j].age <= t[i].age
    <3>1. CASE j = Len(t)
      <4>1. m.age <= last /\ last <= Older(a.age) /\ m.age \in Ages
        BY <1>1, <2>1, <2>2, <2>3, <2>5, <3>1 DEF Ages, Minutes
      <4>2. m.age <= Older(a.age)
        BY <2>3, <4>1 DEF Ages
      <4> QED
        BY <1>1, <2>1, <3>1, <4>2
    <3>2. CASE j < Len(t)
      <4> DEFINE b == trail[j + d]
      <4>1. /\ j + d \in 1 .. Len(trail) /\ b.age \in Ages /\ t[j].age = Older(b.age)
            /\ (t[j].seen <=> b.seen)
        BY <1>4, <3>2
      <4>2. i + d < j + d
        BY <1>1, <2>5
      <4>3. b.age <= a.age
        BY <2>1, <2>2, <2>5, <4>1, <4>2
      <4> QED
        BY <2>1, <4>1, <4>3, OlderAge
    <3> QED
      BY <2>5, <3>1, <3>2, <1>1
  <2> QED
    BY <2>1, <2>2, <2>4, <2>5
<1> QED
  BY <1>1, <1>7, <1>8

\* The first minute of a recovery.
LEMMA CountsBegin ==
    ASSUME EvidenceTypeOK, Len(trail) <= Window, NEW m \in Minutes, m.seen, m.ok,
           NEW now \in BOOLEAN
    PROVE  CountsFor(Trailed(m), 1, Older(m.age), now)
<1> DEFINE t == Trailed(m)
<1>1. Len(t) \in Nat \ {0} /\ t[Len(t)] = m
  BY TrailGrows
<1>2. Older(m.age) \in Ages
  BY OlderAge DEF Minutes
<1> HIDE DEF t
<1>3. ASSUME NEW i \in 1 .. Len(t), i > Len(t) - 1
      PROVE  t[i] = m /\ \A j \in 1 .. Len(t) : ~(i < j)
  BY <1>1, <1>3
<1>4. 1 <= Len(t)
  BY <1>1
<1>5. CountsFor(t, 1, Older(m.age), now)
  <2>1. Older(m.age) >= Older(m.age)
    BY <1>2, EvidenceAssumption DEF Ages
  <2>2. ASSUME NEW i \in 1 .. Len(t), i > Len(t) - 1
        PROVE  /\ t[i].seen => t[i].ok /\ Older(t[i].age) >= Older(m.age)
               /\ \A j \in 1 .. Len(t) : i < j /\ t[i].seen /\ t[j].seen => t[j].age <= t[i].age
               /\ now => t[i].seen
    BY <1>3, <2>1, <2>2
  <2> QED
    BY <1>4, <2>2 DEF CountsFor
<1> QED
  BY <1>5 DEF t

-----------------------------------------------------------------------------
(* Types of the evidence *)

EvidenceTypes ==
    /\ driver \in {"fallback", "plain", "alphaess"} /\ balance \in Weights
    /\ failures \in Counts /\ saved \in Counts /\ stable \in Stables
    /\ trail \in Seq(Minutes) /\ failedRun \in 0 .. FailuresAllowed /\ lastSeen \in Shown

LEMMA EvidenceNamed == EvidenceTypeOK <=> EvidenceTypes
BY DEF EvidenceTypeOK, EvidenceTypes, Weights

LEMMA FailedCounts ==
    ASSUME EvidenceTypeOK
    PROVE  /\ Failed \in Counts /\ Failed.count = Cap(failures.count + 1, FailuresAllowed)
           /\ failures.state = "fallback" => Failed.state = "fallback"
           /\ failures.state # "fallback" =>
                Failed.state = IF Failed.count >= FailuresAllowed THEN "threshold" ELSE "pending"
<1>1. failures.count \in 0 .. FailuresAllowed
  BY DEF EvidenceTypeOK, Counts
<1>2. Counted \in 0 .. FailuresAllowed
  BY <1>1, EvidenceAssumption DEF Counted, Cap
<1> QED
  BY <1>2 DEF Failed, Counted, Counts, States

LEMMA SightMinute ==
    ASSUME NEW o \in Sightings
    PROVE  /\ [seen |-> TRUE, ok |-> Passes(o), age |-> o.age] \in Minutes
           /\ [seen |-> FALSE, ok |-> FALSE, age |-> 0] \in Minutes
<1>1. o.age \in Ages /\ 0 \in Ages /\ Passes(o) \in BOOLEAN
  BY EvidenceAssumption DEF Sightings, Ages, Passes
<1> QED
  BY <1>1 DEF Minutes

LEMMA EvidenceTypeStep ==
    ASSUME EvidenceTypeOK, Len(trail) <= Window, [EvidenceNext]_evidenceVars
    PROVE  EvidenceTypeOK' /\ Len(trail)' <= Window
<1>1. EvidenceTypes
  BY EvidenceNamed
<1> SUFFICES EvidenceTypes' /\ Len(trail)' <= Window
  BY EvidenceNamed, PTL
<1>2. \A m \in Minutes : Trailed(m) \in Seq(Minutes) /\ Len(Trailed(m)) <= Window
  <2> TAKE m \in Minutes
  <2>1. Trailed(m) \in Seq(Minutes) /\ Len(Trailed(m)) = Cap(Len(trail) + 1, Window)
    BY TrailGrows
  <2>2. Len(trail) + 1 \in Nat /\ Window \in Nat
    BY EvidenceAssumption DEF EvidenceTypeOK, Window
  <2> QED
    BY <2>1, <2>2 DEF Cap
<1>3. ASSUME NEW o \in Sightings, Sight(o) PROVE EvidenceTypes' /\ Len(trail)' <= Window
  <2>1. trail' \in Seq(Minutes) /\ Len(trail') <= Window
    BY <1>2, <1>3, SightMinute DEF Sight
  <2>2. balance' \in Weights
    BY <1>3, WeighedTypes DEF Sight
  <2>3. failedRun' \in 0 .. FailuresAllowed
    BY <1>1, <1>3, EvidenceAssumption DEF Sight, EvidenceTypes, Cap
  <2>4. lastSeen' \in Shown /\ driver' = driver
    BY <1>3 DEF Sight, Sightings
  <2>5. failures' \in Counts /\ stable' \in Stables /\ saved' = failures'
    <3>1. CASE Passes(o) /\ Recovers
      BY <1>1, <1>3, <3>1, AdvancedStable, LaterStable
         DEF Sight, RecordOnce, RecordPass, EvidenceTypes
    <3>2. CASE Passes(o) /\ ~Recovers
      BY <1>1, <1>3, <3>2, EmptyWeights DEF Sight, RecordOnce, RecordPass, EvidenceTypes
    <3>3. CASE ~Passes(o)
      BY <1>3, <3>3, FailedCounts, EmptyWeights, LaterStable DEF Sight, RecordOnce, StartedOver
    <3> QED
      BY <3>1, <3>2, <3>3
  <2> QED
    BY <1>1, <2>1, <2>2, <2>3, <2>4, <2>5 DEF EvidenceTypes
<1>4. ASSUME NoSighting PROVE EvidenceTypes' /\ Len(trail)' <= Window
  <2>1. trail' \in Seq(Minutes) /\ Len(trail') <= Window
    <3>1. [seen |-> FALSE, ok |-> FALSE, age |-> 0] \in Minutes
      BY EvidenceAssumption DEF Minutes, Ages
    <3> QED
      BY <1>2, <1>4, <3>1 DEF NoSighting
  <2>2. balance' \in Weights
    <3> DEFINE w == IF balance.waited = 0 THEN 0 ELSE Cap(balance.waited + 1, Plenty)
    <3>1. balance.waited \in 0 .. Plenty /\ Plenty \in Nat
      BY <1>1, SocBounds DEF EvidenceTypes, Weights
    <3>2. w \in 0 .. Plenty
      BY <3>1 DEF Cap
    <3>3. balance' = [balance EXCEPT !.waited = w]
      BY <1>4 DEF NoSighting
    <3>4. balance \in Weights
      BY <1>1 DEF EvidenceTypes
    <3> HIDE DEF w
    <3> QED
      BY <3>2, <3>3, <3>4 DEF Weights
  <2>3. stable' \in Stables
    <3>1. Later(stable) \in Stables /\ stable.on \in BOOLEAN
      BY <1>1, LaterStable DEF EvidenceTypes, Stables
    <3>2. stable' = [Later(stable) EXCEPT !.gap = stable.on]
      BY <1>4 DEF NoSighting
    <3> QED
      BY <3>1, <3>2 DEF Stables
  <2> QED
    BY <1>1, <1>4, <2>1, <2>2, <2>3 DEF NoSighting, EvidenceTypes
<1>5. ASSUME AskFallback PROVE EvidenceTypes' /\ Len(trail)' <= Window
  <2>1. failures' \in Counts
    BY <1>1, <1>5 DEF AskFallback, EvidenceTypes, Counts, States
  <2> QED
    BY <1>1, <1>5, <2>1 DEF AskFallback, EvidenceTypes
<1>6. ASSUME CompleteRecovery PROVE EvidenceTypes' /\ Len(trail)' <= Window
  BY <1>1, <1>6, EmptyWeights DEF CompleteRecovery, EvidenceTypes
<1>7. ASSUME MonitorRestart PROVE EvidenceTypes' /\ Len(trail)' <= Window
  <2>1. << >> \in Seq(Minutes) /\ Len(<< >>) <= Window
    BY EvidenceAssumption DEF Window
  <2> QED
    BY <1>1, <1>7, <2>1, EmptyWeights DEF MonitorRestart, EvidenceTypes
<1>8. CASE UNCHANGED evidenceVars
  BY <1>1, <1>8 DEF evidenceVars, EvidenceTypes
<1> QED
  BY <1>3, <1>4, <1>5, <1>6, <1>7, <1>8 DEF EvidenceNext

-----------------------------------------------------------------------------
(* The recovery clock and the counted failures *)

\* What the recovery's progress says of the trail.
Progress(s, t, every) ==
    /\ s.on => CountsFor(t, s.minutes, s.last, every)
    /\ s.ready => s.on /\ CountsFor(t, Window, s.last, every)

LEMMA SightProgress ==
    ASSUME EvidenceTypeOK, StableClock, NEW o \in Sightings, Passes(o), NEW now \in BOOLEAN,
           now => driver = "alphaess"
    PROVE  Progress(Later(Advanced(o)),
                    Trailed([seen |-> TRUE, ok |-> Passes(o), age |-> o.age]), now)
<1> DEFINE m == [seen |-> TRUE, ok |-> Passes(o), age |-> o.age]
           a == Advanced(o)
           s == Later(a)
<1>1. m \in Minutes /\ m.seen /\ m.ok /\ m.age = o.age
  BY SightMinute
<1>2. /\ a \in Stables /\ a.on /\ a.last = o.age
      /\ \/ a.minutes = 0 /\ ~a.ready
         \/ /\ stable.on /\ o.age <= stable.last /\ (driver = "alphaess" => ~stable.gap)
            /\ a.minutes = stable.minutes
            /\ a.ready => stable.minutes = StableMinutes
  BY AdvancedStable
<1>3. /\ s.on /\ (s.ready <=> a.ready)
      /\ s.minutes = Cap(a.minutes + 1, StableMinutes) /\ s.last = Older(o.age)
  BY <1>2, LaterStable
<1> HIDE DEF m, a, s
<1>4. /\ stable \in Stables /\ Len(trail) <= Window /\ o.age \in Ages
      /\ StableMinutes \in Nat \ {0} /\ Window = StableMinutes + 1
  BY EvidenceAssumption DEF EvidenceTypeOK, StableClock, Sightings, Window
<1>5. CASE a.minutes = 0 /\ ~a.ready
  <2>1. s.minutes = 1
    BY <1>3, <1>4, <1>5 DEF Cap
  <2>2. CountsFor(Trailed(m), 1, Older(o.age), now)
    BY <1>1, <1>4, CountsBegin
  <2> QED
    BY <1>3, <1>5, <2>1, <2>2 DEF Progress, s, a, m
<1>6. CASE /\ stable.on /\ o.age <= stable.last /\ (driver = "alphaess" => ~stable.gap)
           /\ a.minutes = stable.minutes
           /\ a.ready => stable.minutes = StableMinutes
  <2> DEFINE n == stable.minutes
  <2>1. n \in 0 .. StableMinutes /\ stable.last \in Ages
    BY <1>4 DEF Stables
  <2>2. CountsFor(trail, n, stable.last, now)
    <3>1. CountsFor(trail, n, stable.last, Every) /\ (now => Every)
      BY <1>6 DEF StableClock, Every
    <3> QED
      BY <3>1 DEF CountsFor
  <2> HIDE DEF n
  <2>3. CountsFor(Trailed(m), n + 1, Older(o.age), now)
    <3>1. Older(o.age) <= Older(stable.last) /\ Older(o.age) <= Older(o.age)
      BY <1>4, <1>6, <2>1, OlderAge DEF Ages
    <3>2. n \in Nat /\ n + 1 <= Window /\ Older(o.age) \in Ages
      BY <1>4, <2>1, OlderAge
    <3> QED
      BY <1>1, <1>4, <1>6, <2>1, <2>2, <3>1, <3>2, CountsGrow
  <2>4. CountsFor(Trailed(m), s.minutes, s.last, now)
    <3>1. s.minutes = Cap(n + 1, StableMinutes)
      BY <1>3, <1>6 DEF n
    <3>2. s.minutes \in Nat /\ s.minutes <= n + 1 /\ n + 1 \in Nat
      BY <1>4, <2>1, <3>1 DEF Cap
    <3>3. Len(Trailed(m)) \in Nat
      BY <1>1, <1>4, TrailGrows
    <3> QED
      BY <1>3, <2>3, <3>2, <3>3, CountsFewer
  <2>5. s.ready => CountsFor(Trailed(m), Window, s.last, now)
    BY <1>3, <1>4, <1>6, <2>3 DEF n
  <2> QED
    BY <1>3, <2>4, <2>5 DEF Progress, s, a, m
<1> QED
  BY <1>2, <1>5, <1>6 DEF Progress

LEMMA MissedProgress ==
    ASSUME EvidenceTypeOK, StableClock
    PROVE  Progress([Later(stable) EXCEPT !.gap = stable.on],
                    Trailed([seen |-> FALSE, ok |-> FALSE, age |-> 0]), FALSE)
<1> DEFINE m == [seen |-> FALSE, ok |-> FALSE, age |-> 0]
           a == Later(stable)
           s == [a EXCEPT !.gap = stable.on]
<1>1. m \in Minutes /\ ~m.seen
  BY EvidenceAssumption DEF Minutes, Ages
<1>2. /\ stable \in Stables /\ Len(trail) <= Window
      /\ StableMinutes \in Nat \ {0} /\ Window = StableMinutes + 1
  BY EvidenceAssumption DEF EvidenceTypeOK, StableClock, Window
<1>3. /\ a \in Stables /\ (a.on <=> stable.on) /\ (a.ready <=> stable.ready)
      /\ stable.on => a.minutes = Cap(stable.minutes + 1, StableMinutes)
                      /\ a.last = Older(stable.last)
  BY <1>2, LaterStable
<1> HIDE DEF m, a
<1>4. /\ (s.on <=> stable.on) /\ (s.ready <=> stable.ready)
      /\ s.minutes = a.minutes /\ s.last = a.last
  BY <1>3 DEF Stables
<1> HIDE DEF s
<1>5. CASE ~stable.on
  BY <1>4, <1>5 DEF Progress, StableClock, s, a, m
<1>6. CASE stable.on
  <2> DEFINE n == stable.minutes
  <2>1. /\ n \in 0 .. StableMinutes /\ stable.last \in Ages /\ Older(stable.last) \in Ages
        /\ Older(stable.last) <= Older(stable.last)
    BY <1>2, OlderAge DEF Stables, Ages
  <2>2. CountsFor(trail, n, stable.last, FALSE)
    BY <1>6 DEF StableClock, CountsFor
  <2>3. ASSUME NEW k \in Nat, k + 1 <= Window, CountsFor(trail, k, stable.last, FALSE)
        PROVE  CountsFor(Trailed(m), k + 1, Older(stable.last), FALSE)
    BY <1>1, <1>2, <2>1, <2>3, CountsGrow
  <2> HIDE DEF n
  <2>4. CountsFor(Trailed(m), s.minutes, s.last, FALSE)
    <3>1. n \in Nat /\ n + 1 \in Nat /\ n + 1 <= Window
      BY <1>2, <2>1
    <3>2. s.minutes = Cap(n + 1, StableMinutes) /\ s.last = Older(stable.last)
      BY <1>3, <1>4, <1>6 DEF n
    <3>3. s.minutes \in Nat /\ s.minutes <= n + 1 /\ Len(Trailed(m)) \in Nat
      BY <1>1, <1>2, <3>1, <3>2, TrailGrows DEF Cap
    <3>4. CountsFor(Trailed(m), n + 1, s.last, FALSE)
      BY <2>2, <2>3, <3>1, <3>2
    <3> QED
      BY <3>1, <3>3, <3>4, CountsFewer
  <2>5. s.ready => CountsFor(Trailed(m), Window, s.last, FALSE)
    <3> HAVE s.ready
    <3>1. CountsFor(trail, Window, stable.last, FALSE)
      BY <1>4 DEF StableClock, CountsFor
    <3>2. Len(trail) \in Nat /\ Window \in Nat /\ StableMinutes \in Nat /\ StableMinutes <= Window
      BY <1>2 DEF EvidenceTypeOK
    <3>3. CountsFor(trail, StableMinutes, stable.last, FALSE)
      BY <3>1, <3>2, CountsFewer
    <3>4. s.last = Older(stable.last)
      BY <1>3, <1>4, <1>6
    <3>5. StableMinutes \in Nat /\ StableMinutes + 1 <= Window
      BY <1>2
    <3>6. CountsFor(Trailed(m), StableMinutes + 1, Older(stable.last), FALSE)
      BY <2>3, <3>3, <3>5
    <3> QED
      BY <1>2, <3>4, <3>6
  <2> QED
    BY <1>4, <1>6, <2>4, <2>5 DEF Progress, s, a, m
<1> QED
  BY <1>5, <1>6

LEMMA StableClockStep ==
    ASSUME EvidenceInv, EvidenceTypeOK', [EvidenceNext]_evidenceVars
    PROVE  StableClock'
<1>1. EvidenceTypeOK /\ StableClock /\ EvidenceTypes
  BY EvidenceNamed DEF EvidenceInv
<1>2. Len(trail)' <= Window
  BY <1>1, EvidenceTypeStep DEF StableClock
<1>3. ASSUME NEW o \in Sightings, Sight(o) PROVE StableClock'
  <2> DEFINE m == [seen |-> TRUE, ok |-> Passes(o), age |-> o.age]
  <2>0. /\ driver' = driver /\ saved' = failures' /\ trail' = Trailed(m)
        /\ failedRun' = IF Passes(o) THEN 0 ELSE Cap(failedRun + 1, FailuresAllowed)
    BY <1>3 DEF Sight, RecordOnce
  <2>1. CASE Passes(o) /\ Recovers
    <3>1. failures' = failures /\ stable' = Later(Advanced(o))
      BY <1>3, <2>1 DEF Sight, RecordOnce, RecordPass
    <3>2. ~Advanced(o).gap /\ stable'.on /\ ~stable'.gap
      BY <1>1, <3>1, AdvancedStable, LaterStable
    <3>3. Progress(stable', trail', Every')
      <4>1. CASE Every'
        <5>1. driver = "alphaess" /\ Progress(stable', trail', TRUE)
          BY <1>1, <2>0, <2>1, <3>1, <4>1, SightProgress DEF Every
        <5> QED
          BY <5>1 DEF Progress, CountsFor
      <4>2. CASE ~Every'
        <5>1. Progress(stable', trail', FALSE)
          BY <1>1, <2>0, <2>1, <3>1, SightProgress
        <5> QED
          BY <4>2, <5>1 DEF Progress, CountsFor
      <4> QED
        BY <4>1, <4>2
    <3>4. Recovers'
      BY <2>0, <2>1, <3>1 DEF Recovers
    <3>5. ~Blocked(failures') => failures'.count <= failedRun'
      BY <2>1, <3>1 DEF Recovers, Blocked
    <3>6. failures'.state = "threshold" => failures'.count = FailuresAllowed
      BY <1>1, <3>1 DEF StableClock
    <3> QED
      BY <1>2, <2>0, <3>2, <3>3, <3>4, <3>5, <3>6 DEF StableClock, Progress
  <2>2. CASE Passes(o) /\ ~Recovers
    <3>1. failures' = Healthy /\ stable' = stable /\ failedRun' = 0
      BY <1>3, <2>0, <2>2 DEF Sight, RecordOnce, RecordPass
    <3>2. ~stable.on /\ ~stable.ready /\ ~stable.gap
      BY <1>1, <2>2 DEF StableClock
    <3> QED
      BY <1>2, <2>0, <3>1, <3>2 DEF StableClock, Healthy, Blocked
  <2>3. CASE ~Passes(o)
    <3>1. failures' = Failed /\ stable' = Unstable
      BY <1>3, <2>3 DEF Sight, RecordOnce, StartedOver, Later, Unstable
    <3>2. ~stable'.on /\ ~stable'.ready /\ ~stable'.gap
      BY <3>1 DEF Unstable
    <3>3. failures.count \in 0 .. FailuresAllowed /\ failedRun \in 0 .. FailuresAllowed
      BY <1>1 DEF EvidenceTypes, Counts
    <3>4. /\ failures'.count = Cap(failures.count + 1, FailuresAllowed)
          /\ failures.state = "fallback" => failures'.state = "fallback"
          /\ failures.state # "fallback" =>
               failures'.state = IF failures'.count >= FailuresAllowed THEN "threshold"
                                 ELSE "pending"
      BY <1>1, <3>1, FailedCounts
    <3>5. failures'.state = "threshold" => failures'.count = FailuresAllowed
      BY <3>3, <3>4, EvidenceAssumption DEF Cap
    <3>6. ~Blocked(failures') => failures'.count <= failedRun'
      <4>1. SUFFICES ASSUME ~Blocked(failures') PROVE failures'.count <= failedRun'
        OBVIOUS
      <4>2. failures.state # "fallback" /\ failures'.count < FailuresAllowed
        BY <3>3, <3>4, <4>1, EvidenceAssumption DEF Blocked, Cap
      <4>3. failures.count < FailuresAllowed
        BY <3>3, <3>4, <4>2, EvidenceAssumption DEF Cap
      <4>4. failures.count <= failedRun
        BY <1>1, <4>2, <4>3, <3>3 DEF StableClock, Blocked
      <4> QED
        BY <2>0, <2>3, <3>3, <3>4, <4>4, EvidenceAssumption DEF Cap
    <3> QED
      BY <1>2, <2>0, <3>2, <3>5, <3>6 DEF StableClock
  <2> QED
    BY <2>1, <2>2, <2>3
<1>4. ASSUME NoSighting PROVE StableClock'
  <2> DEFINE m == [seen |-> FALSE, ok |-> FALSE, age |-> 0]
  <2>1. /\ stable' = [Later(stable) EXCEPT !.gap = stable.on] /\ trail' = Trailed(m)
        /\ driver' = driver /\ failures' = failures /\ saved' = saved /\ failedRun' = failedRun
    BY <1>4 DEF NoSighting
  <2>2. (stable'.on <=> stable.on) /\ (stable'.gap <=> stable.on)
    BY <1>1, <2>1, LaterStable DEF EvidenceTypes, Stables
  <2>3. Progress(stable', trail', FALSE)
    BY <1>1, <2>1, MissedProgress
  <2>4. stable'.on => Recovers' /\ CountsFor(trail', stable'.minutes, stable'.last, Every')
    <3>1. stable'.on => Recovers
      BY <1>1, <2>2 DEF StableClock
    <3>2. stable'.on => Recovers'
      BY <2>1, <3>1 DEF Recovers
    <3>3. stable'.on => ~Every'
      BY <2>2 DEF Every
    <3> QED
      BY <2>3, <3>2, <3>3 DEF Progress, CountsFor
  <2>5. stable'.ready => stable'.on /\ CountsFor(trail', Window, stable'.last, Every')
    <3>1. stable'.on => ~Every'
      BY <2>2 DEF Every
    <3> QED
      BY <2>3, <3>1 DEF Progress, CountsFor
  <2>6. stable'.gap => stable'.on /\ trail' # << >> /\ ~trail'[Len(trail')].ok
    <3>1. m \in Minutes /\ ~m.ok
      BY EvidenceAssumption DEF Minutes, Ages
    <3>2. Len(trail') \in Nat \ {0} /\ trail'[Len(trail')] = m
      BY <1>1, <2>1, <3>1, TrailGrows DEF StableClock
    <3>3. trail' # << >>
      BY <3>2
    <3> QED
      BY <2>2, <3>1, <3>2, <3>3
  <2>7. ~Blocked(failures') => failures'.count <= failedRun'
    BY <1>1, <2>1 DEF StableClock
  <2> QED
    BY <1>1, <1>2, <2>1, <2>4, <2>5, <2>6, <2>7 DEF StableClock
<1>5. ASSUME AskFallback PROVE StableClock'
  <2>1. failures' = [failures EXCEPT !.state = "fallback"] /\ saved' = failures'
        /\ UNCHANGED <<driver, stable, trail, failedRun>>
    BY <1>5 DEF AskFallback
  <2>2. failures'.state = "fallback"
    BY <1>1, <2>1 DEF EvidenceTypes, Counts
  <2>3. ~stable.on /\ ~stable.ready /\ ~stable.gap
    BY <1>1, <1>5 DEF AskFallback, StableClock, Recovers
  <2> QED
    BY <1>2, <2>1, <2>2, <2>3 DEF StableClock, Blocked
<1>6. ASSUME CompleteRecovery PROVE StableClock'
  <2>1. failures' = Healthy /\ saved' = Healthy /\ stable' = Unstable /\ failedRun' = failedRun
    BY <1>6 DEF CompleteRecovery
  <2>2. 0 <= failedRun
    BY <1>1 DEF EvidenceTypes
  <2> QED
    BY <1>2, <2>1, <2>2 DEF StableClock, Healthy, Unstable, Blocked
<1>7. ASSUME MonitorRestart PROVE StableClock'
  <2>1. failures' = saved /\ saved' = saved /\ stable' = Unstable /\ failedRun' = failedRun
    BY <1>7 DEF MonitorRestart
  <2> QED
    BY <1>1, <1>2, <2>1 DEF StableClock, Unstable, Blocked
<1>8. CASE UNCHANGED evidenceVars
  BY <1>1, <1>8 DEF evidenceVars, StableClock, Recovers, Every, Blocked
<1> QED
  BY <1>3, <1>4, <1>5, <1>6, <1>7, <1>8 DEF EvidenceNext

LEMMA RejectedSeenStep ==
    ASSUME EvidenceInv, [EvidenceNext]_evidenceVars
    PROVE  RejectedSeen'
<1>1. balance \in Weights
  BY EvidenceNamed DEF EvidenceInv, EvidenceTypes
<1>2. ASSUME NEW o \in Sightings, Sight(o) PROVE RejectedSeen'
  <2>1. balance'.rejected = IF SocJump(o) /\ ~Passes(o) THEN o.value ELSE {}
    BY <1>2 DEF Sight, Weighed
  <2> QED
    BY <1>2, <2>1 DEF Sight, RejectedSeen
<1>3. ASSUME NoSighting PROVE RejectedSeen'
  BY <1>1, <1>3 DEF NoSighting, Weights, RejectedSeen, EvidenceInv
<1>4. ASSUME MonitorRestart PROVE RejectedSeen'
  BY <1>4 DEF MonitorRestart, Unweighed, RejectedSeen
<1>5. ASSUME AskFallback \/ CompleteRecovery \/ UNCHANGED evidenceVars PROVE RejectedSeen'
  BY <1>5 DEF AskFallback, CompleteRecovery, evidenceVars, RejectedSeen, EvidenceInv
<1> QED
  BY <1>2, <1>3, <1>4, <1>5 DEF EvidenceNext

LEMMA EvidenceInvInit == EvidenceInit => EvidenceInv
<1> SUFFICES ASSUME EvidenceInit PROVE EvidenceInv
  OBVIOUS
<1>1. EvidenceTypeOK
  <2>1. << >> \in Seq(Minutes) /\ 0 \in 0 .. FailuresAllowed
    BY EvidenceAssumption
  <2>2. EvidenceTypes
    BY <2>1, EmptyWeights DEF EvidenceInit, EvidenceTypes
  <2> QED
    BY <2>2, EvidenceNamed
<1>2. StableClock
  <2>1. Len(trail) <= Window
    BY EvidenceAssumption DEF EvidenceInit, Window
  <2> QED
    BY <2>1 DEF EvidenceInit, StableClock, Healthy, Unstable, Blocked
<1>3. RejectedSeen
  BY DEF EvidenceInit, Unweighed, RejectedSeen
<1> QED
  BY <1>1, <1>2, <1>3 DEF EvidenceInv

LEMMA EvidenceInvStep == EvidenceInv /\ [EvidenceNext]_evidenceVars => EvidenceInv'
<1> SUFFICES ASSUME EvidenceInv, [EvidenceNext]_evidenceVars PROVE EvidenceInv'
  OBVIOUS
<1>1. EvidenceTypeOK'
  BY EvidenceTypeStep DEF EvidenceInv, StableClock
<1> QED
  BY <1>1, StableClockStep, RejectedSeenStep DEF EvidenceInv

-----------------------------------------------------------------------------
(* What a step may do *)

\* Blocked by the last of FailuresAllowed failures in a row.
LEMMA BlockedByFailures ==
    ASSUME EvidenceInv, [EvidenceNext]_evidenceVars, Blocked(failures'), ~Blocked(failures)
    PROVE  failedRun' >= FailuresAllowed
<1>1. /\ failures.count \in 0 .. FailuresAllowed /\ failedRun \in 0 .. FailuresAllowed
      /\ failures.count <= failedRun /\ failures.state \in States /\ saved = failures
  BY EvidenceNamed DEF EvidenceInv, EvidenceTypes, StableClock, Counts
<1>2. PICK o \in Sightings : Sight(o)
  <2>1. CASE NoSighting \/ UNCHANGED evidenceVars
    BY <2>1 DEF NoSighting, evidenceVars
  <2>2. CASE AskFallback \/ CompleteRecovery
    BY <2>2 DEF AskFallback, CompleteRecovery, Blocked, Healthy
  <2>3. CASE MonitorRestart
    BY <1>1, <2>3 DEF MonitorRestart
  <2> QED
    BY <2>1, <2>2, <2>3 DEF EvidenceNext
<1>3. CASE Passes(o)
  BY <1>2, <1>3 DEF Sight, RecordOnce, RecordPass, Healthy, Blocked
<1>4. CASE ~Passes(o)
  <2>1. failures' = Failed /\ failedRun' = Cap(failedRun + 1, FailuresAllowed)
    BY <1>2, <1>4 DEF Sight, RecordOnce
  <2>2. failures'.count >= FailuresAllowed
    BY <2>1, FailedCounts DEF EvidenceInv, Blocked
  <2>3. failures'.count = Cap(failures.count + 1, FailuresAllowed)
    BY <2>1, FailedCounts DEF EvidenceInv
  <2> QED
    BY <1>1, <2>1, <2>2, <2>3, EvidenceAssumption DEF Cap
<1> QED
  BY <1>3, <1>4

\* Given back, where recovery is required, on stable evidence alone.
LEMMA ReleasedOnEvidence ==
    ASSUME EvidenceInv, [EvidenceNext]_evidenceVars, ~Blocked(failures'), Blocked(failures),
           Recovers
    PROVE  Stable
<1>1. /\ EvidenceTypeOK /\ saved = failures /\ failures.count \in 0 .. FailuresAllowed
      /\ failures.state = "threshold" => failures.count = FailuresAllowed
  BY EvidenceNamed DEF EvidenceInv, EvidenceTypes, StableClock, Counts
<1>2. CompleteRecovery
  <2>1. ASSUME NEW o \in Sightings, Sight(o) PROVE FALSE
    <3>1. CASE Passes(o)
      BY <2>1, <3>1 DEF Sight, RecordOnce, RecordPass
    <3>2. CASE ~Passes(o)
      <4>1. failures' = Failed
        BY <2>1, <3>2 DEF Sight, RecordOnce
      <4>2. failures.state = "threshold" /\ failures.count = FailuresAllowed
        BY <1>1, <4>1, FailedCounts DEF Blocked
      <4>3. Failed.count = FailuresAllowed
        BY <1>1, <4>2, FailedCounts, EvidenceAssumption DEF Cap
      <4>4. FailuresAllowed >= FailuresAllowed
        BY EvidenceAssumption
      <4>5. Failed.state = "threshold"
        BY <1>1, <4>2, <4>3, <4>4, FailedCounts
      <4> QED
        BY <4>1, <4>5 DEF Blocked
    <3> QED
      BY <3>1, <3>2
  <2>2. ASSUME NoSighting \/ MonitorRestart \/ UNCHANGED evidenceVars
        PROVE  FALSE
    BY <1>1, <2>2 DEF NoSighting, MonitorRestart, evidenceVars
  <2>3. ASSUME AskFallback PROVE FALSE
    <3>1. failures \in Counts
      BY EvidenceNamed DEF EvidenceInv, EvidenceTypes
    <3>2. failures'.state = "fallback"
      BY <2>3, <3>1 DEF AskFallback, Counts
    <3> QED
      BY <3>2 DEF Blocked
  <2> QED
    BY <2>1, <2>2, <2>3 DEF EvidenceNext
<1>3. /\ CountsFor(trail, Window, stable.last, Every) /\ Len(trail) <= Window
      /\ stable.gap => ~trail[Len(trail)].ok
  BY <1>2 DEF CompleteRecovery, EvidenceInv, StableClock
<1>4. Len(trail) = Window /\ Window \in Nat
  BY <1>1, <1>3, EvidenceAssumption DEF CountsFor, EvidenceTypeOK, Window
<1>5. driver = "alphaess" => Every
  BY <1>2, <1>3 DEF CompleteRecovery, Every
<1>6. \A i \in 1 .. Window : i > Len(trail) - Window
  BY <1>4
<1> QED
  BY <1>3, <1>4, <1>5, <1>6 DEF CountsFor, Stable

\* A value is believed without an explanation only when the last observation showed it too.
LEMMA JumpSeenTwice ==
    ASSUME EvidenceInv, [EvidenceNext]_evidenceVars, NEW b \in balance.base,
           NEW v \in balance'.base, v # b, balance'.power # {},
           Unbalanced(v, b, SocUsed(balance'.power))
    PROVE  lastSeen = {v}
<1>1. balance \in Weights
  BY EvidenceNamed DEF EvidenceInv, EvidenceTypes
<1>2. balance.base = {b}
  BY <1>1 DEF Weights, Shown
<1>3. balance'.base # balance.base
  BY <1>2
<1>4. PICK o \in Sightings : Sight(o)
  <2>1. CASE NoSighting
    BY <1>1, <1>3, <2>1 DEF NoSighting, Weights
  <2>2. CASE AskFallback \/ CompleteRecovery \/ UNCHANGED evidenceVars
    BY <1>3, <2>2 DEF AskFallback, CompleteRecovery, evidenceVars
  <2>3. CASE MonitorRestart
    BY <2>3 DEF MonitorRestart, Unweighed
  <2> QED
    BY <2>1, <2>2, <2>3 DEF EvidenceNext
<1>5. /\ balance'.power = o.power
      /\ balance'.base = IF Passes(o) /\ o.value # balance.base THEN o.value ELSE balance.base
  BY <1>4 DEF Sight, Weighed
<1>6. Passes(o) /\ balance'.base = o.value
  BY <1>3, <1>5
<1>7. OutOfBalance(o)
  BY <1>5, <1>6 DEF OutOfBalance
<1>8. o.value = balance.rejected
  BY <1>6, <1>7 DEF Passes, Recalibrated
<1>9. o.value = {v}
  BY <1>6 DEF Sightings, Shown
<1> QED
  BY <1>8, <1>9 DEF EvidenceInv, RejectedSeen

\* No value older than UnchangedAge passes.
LEMMA PassedIsRecent ==
    ASSUME EvidenceInv, [EvidenceNext]_evidenceVars, trail' # trail, trail' # << >>,
           trail'[Len(trail')].ok
    PROVE  trail'[Len(trail')].age <= UnchangedAge
<1>0. EvidenceTypeOK /\ Len(trail) <= Window
  BY DEF EvidenceInv, StableClock
<1>1. ASSUME NEW o \in Sightings, Sight(o) PROVE trail'[Len(trail')].age <= UnchangedAge
  <2> DEFINE m == [seen |-> TRUE, ok |-> Passes(o), age |-> o.age]
  <2>1. trail'[Len(trail')] = m
    BY <1>0, <1>1, SightMinute, TrailGrows DEF Sight
  <2>2. Passes(o)
    BY <2>1
  <2>3. o.age <= UnchangedAge
    BY <2>2, EvidenceAssumption DEF Passes, Recent, SourceProves, Sightings, Ages
  <2> QED
    BY <2>1, <2>3
<1>2. ASSUME NoSighting PROVE FALSE
  <2> DEFINE m == [seen |-> FALSE, ok |-> FALSE, age |-> 0]
  <2>1. m \in Minutes
    BY EvidenceAssumption DEF Minutes, Ages
  <2>2. trail'[Len(trail')] = m
    BY <1>0, <1>2, <2>1, TrailGrows DEF NoSighting
  <2> QED
    BY <2>2
<1>3. ASSUME AskFallback \/ CompleteRecovery \/ MonitorRestart \/ UNCHANGED evidenceVars
      PROVE  FALSE
  BY <1>3 DEF AskFallback, CompleteRecovery, MonitorRestart, evidenceVars
<1> QED
  BY <1>1, <1>2, <1>3 DEF EvidenceNext

-----------------------------------------------------------------------------
(* The theorems of the add-on's side *)

\* Every variable of the add-on's monitor keeps its type, the file's included: counters stay
\* within the threshold and the stable minutes (soc_monitor.py, soc_integrity.py).
THEOREM EvidenceTypeCorrect == EvidenceSpec => []EvidenceTypeOK
<1>1. EvidenceInv => EvidenceTypeOK
  BY DEF EvidenceInv
<1> QED
  BY <1>1, EvidenceInvInit, EvidenceInvStep, PTL DEF EvidenceSpec

\* A device is blocked only after FailuresAllowed failures in a row, and given back only on
\* StableMinutes of stable evidence; a jump is believed only when seen twice, and nothing old
\* passes: for every level, age, threshold and recovery time (soc_monitor.py: _record_once,
\* complete_recovery; soc_integrity.py).
THEOREM EvidenceIsKept == EvidenceSpec => EvidenceKept
<1>1. EvidenceInv /\ [EvidenceNext]_evidenceVars =>
        [/\ Blocked(failures') /\ ~Blocked(failures) => failedRun' >= FailuresAllowed
         /\ ~Blocked(failures') /\ Blocked(failures) /\ Recovers => Stable
         /\ \A b \in balance.base, v \in balance'.base :
              v # b /\ balance'.power # {} /\ Unbalanced(v, b, SocUsed(balance'.power)) =>
                  lastSeen = {v}
         /\ trail' # trail /\ trail' # <<>> /\ trail'[Len(trail')].ok =>
              trail'[Len(trail')].age <= UnchangedAge]_evidenceVars
  BY BlockedByFailures, ReleasedOnEvidence, JumpSeenTwice, PassedIsRecent
<1> QED
  BY <1>1, EvidenceInvInit, EvidenceInvStep, PTL DEF EvidenceSpec, EvidenceKept

-----------------------------------------------------------------------------
(* The readiness evidence: slots and rows *)

SlotRows == {Missing} \union {{r} : r \in SlotRow}
DayRows  == {Missing} \union {{g} : g \in SUBSET Gaps}
Samples  == SUBSET {"valid", "invalid", "breach"}
Tries    == 0 .. LastSlot + RetrySlots
Task     == [on : BOOLEAN, now : Slots, day : 0 .. BookDays]
BookLeft == [troubles : 0 .. BookTroubles, switches : 0 .. ModeSwitches]

\* A day's slots are recorded ones.
LEMMA SlotFacts ==
  /\ LastSlot \in Nat /\ LastSlot >= 1 /\ SettleSlots \in Nat /\ SettleSlots >= 1
  /\ RetrySlots \in Nat /\ BookDays \in Nat /\ BookDays >= 1
  /\ \A d \in Days : /\ d \in Nat /\ d < BookDays /\ Start(d) \in Nat /\ End(d) \in Nat
                     /\ SlotsOf(d) \subseteq MeasuredSlots
<1>1. BookDays \in Nat /\ BookDays >= 1 /\ SlotsADay \in Nat /\ SlotsADay >= 1
      /\ SettleSlots \in Nat /\ SettleSlots >= 1 /\ RetrySlots \in Nat /\ KeptSlots \in Nat
  BY BookAssumption
<1>2. \A k \in Nat : k * SlotsADay \in Nat
  BY <1>1
<1>3. LastSlot \in Nat /\ LastSlot >= 1
  <2>1. (BookDays - 1) * SlotsADay \in Nat
    BY <1>1, <1>2
  <2> QED
    BY <1>1, <2>1 DEF LastSlot
<1>4. ASSUME NEW d \in Days
      PROVE  /\ d \in Nat /\ d < BookDays /\ Start(d) \in Nat /\ End(d) \in Nat
             /\ SlotsOf(d) \subseteq MeasuredSlots
  <2>1. d \in Nat /\ d + 1 <= BookDays
    BY <1>1, <1>4 DEF Days
  <2>2. Start(d) \in Nat /\ End(d) \in Nat
    BY <1>1, <1>2, <2>1 DEF Start, End
  <2>3. BookDays * SlotsADay = (d + 1) * SlotsADay + (BookDays - (d + 1)) * SlotsADay
    BY <1>1, <2>1
  <2>4. (BookDays - (d + 1)) * SlotsADay \in Nat
    BY <1>1, <1>2, <2>1
  <2>5. (d + 1) * SlotsADay = d * SlotsADay + SlotsADay
    BY <1>1, <2>1
  <2>6. End(d) <= BookDays * SlotsADay /\ BookDays * SlotsADay \in Nat
    BY <1>1, <1>2, <2>2, <2>3, <2>4, <2>5 DEF Start, End
  <2>7. ASSUME NEW t \in SlotsOf(d) PROVE t \in MeasuredSlots
    <3>1. t \in Int /\ Start(d) <= t /\ t <= End(d) - 1
      BY <2>2, <2>7 DEF SlotsOf
    <3>2. t \in Int /\ 0 <= t /\ t <= BookDays * SlotsADay - 1
      BY <2>2, <2>6, <3>1
    <3> QED
      BY <2>6, <3>2 DEF MeasuredSlots
  <2> QED
    BY <2>1, <2>2, <2>7, <1>1
<1> QED
  BY <1>1, <1>3, <1>4
\* What becomes of a slot's statistics follows the clock, a join's own tick does not run ahead
\* of it, and a notice that has gone out is either flagged or owed again.
BookTypes ==
    /\ wall \in [slot : Slots, late : BOOLEAN] /\ observing \in BOOLEAN /\ planned \in BOOLEAN
    /\ ticked \in Slots \union {-1} /\ tries \in [Days -> Tries]
    /\ evaluated \in Int /\ task \in Task
    /\ slotRows \in [Slots -> SlotRows] /\ guardRows \in [MeasuredSlots -> Samples]
    /\ dayRows \in [Days -> DayRows]
    /\ statistics \in [MeasuredSlots -> {"open", "coming", "measured", "none"}]
    /\ forecastDays \subseteq Days /\ notified \in BOOLEAN /\ rearmed \in BOOLEAN
    /\ bookLeft \in BookLeft
Compiled == \A t \in MeasuredSlots : /\ t < wall.slot => statistics[t] # "open"
                                     /\ t < wall.slot - 1 => statistics[t] # "coming"
BookInv == BookTypes /\ Compiled /\ task.now <= wall.slot /\ (notified \/ rearmed)

LEMMA BookTypeParts == BookTypeOK <=> BookTypes
BY DEF BookTypeOK, BookTypes, SlotRows, DayRows, Samples, Tries, Task, BookLeft

\* A trouble or a switch is counted.
LEMMA TroubleTypes == BookInv /\ Trouble => bookLeft' \in BookLeft
BY BookAssumption DEF BookInv, BookTypes, Trouble, BookLeft

\* Time, the owner, plans and restarts.
LEMMA WorldKeeps ==
  ASSUME BookInv, SlotPasses \/ Compiles \/ OwnerSwitches \/ PlanRun \/ DaemonRestart
  PROVE  BookInv'
<1>0. wall \in [slot : Slots, late : BOOLEAN] /\ wall.slot \in Nat /\ bookLeft \in BookLeft
      /\ statistics \in [MeasuredSlots -> {"open", "coming", "measured", "none"}]
      /\ Slots \subseteq Nat /\ MeasuredSlots \subseteq Int /\ task \in Task
      /\ task.now \in Nat
  BY SlotFacts DEF BookInv, BookTypes, Slots, MeasuredSlots, Task
<1>1. CASE SlotPasses
  <2>1. UNCHANGED <<observing, planned, ticked, tries, evaluated, task, slotRows, guardRows,
                    dayRows, notified, rearmed, forecastDays>>
    BY <1>1 DEF SlotPasses, Memory, Stored
  <2>2. bookLeft' \in BookLeft
    BY <1>0, <1>1, TroubleTypes DEF SlotPasses
  <2>3. CASE ~wall.late
    <3>1. wall' = [wall EXCEPT !.late = TRUE] /\ UNCHANGED statistics
      BY <1>1, <2>3 DEF SlotPasses
    <3>2. wall' \in [slot : Slots, late : BOOLEAN] /\ wall'.slot = wall.slot
      BY <1>0, <3>1
    <3> QED
      BY <2>1, <2>2, <3>1, <3>2 DEF BookInv, BookTypes, Compiled
  <2>4. CASE wall.late
    <3>1. /\ wall.slot < LastSlot
          /\ \A t \in MeasuredSlots : t < wall.slot => statistics[t] # "coming"
          /\ wall' = [slot |-> wall.slot + 1, late |-> FALSE]
          /\ IF wall.slot \notin MeasuredSlots THEN UNCHANGED <<statistics, bookLeft>>
             ELSE \/ statistics' = [statistics EXCEPT ![wall.slot] = "coming"] /\ UNCHANGED bookLeft
                  \/ statistics' = [statistics EXCEPT ![wall.slot] = "none"] /\ Trouble
      BY <1>1, <2>4 DEF SlotPasses
    <3>2. wall' \in [slot : Slots, late : BOOLEAN] /\ wall'.slot = wall.slot + 1
      <4>1. wall.slot + 1 \in Slots /\ FALSE \in BOOLEAN
        BY <1>0, <3>1, SlotFacts DEF Slots
      <4> QED
        BY <3>1, <4>1
    <3>3. statistics' \in [MeasuredSlots -> {"open", "coming", "measured", "none"}]
          /\ (wall.slot \in MeasuredSlots => statistics'[wall.slot] # "open")
          /\ \A t \in MeasuredSlots : t # wall.slot => statistics'[t] = statistics[t]
      BY <1>0, <3>1
    <3>4. Compiled'
      <4> SUFFICES ASSUME NEW t \in MeasuredSlots
                   PROVE  /\ t < wall'.slot => statistics'[t] # "open"
                          /\ t < wall'.slot - 1 => statistics'[t] # "coming"
        BY DEF Compiled
      <4>1. CASE t = wall.slot
        BY <1>0, <3>2, <3>3, <4>1
      <4>2. CASE t # wall.slot
        <5>1. statistics'[t] = statistics[t] /\ t \in Int /\ wall.slot \in Nat
          BY <1>0, <3>3, <4>2
        <5>2. t < wall'.slot => t < wall.slot
          BY <3>2, <4>2, <5>1
        <5>3. t < wall'.slot - 1 => t < wall.slot
          BY <3>2, <5>1
        <5> QED
          BY <3>1, <5>1, <5>2, <5>3 DEF BookInv, Compiled
      <4> QED
        BY <4>1, <4>2
    <3>5. task'.now <= wall'.slot
      <4>1. task.now <= wall.slot /\ task' = task
        BY <2>1 DEF BookInv
      <4> QED
        BY <1>0, <3>2, <4>1
    <3> QED
      BY <2>1, <2>2, <3>2, <3>3, <3>4, <3>5 DEF BookInv, BookTypes
  <2> QED
    BY <2>3, <2>4
<1>2. CASE Compiles
  <2>1. UNCHANGED <<wall, observing, planned, ticked, tries, evaluated, task, slotRows, guardRows,
                    dayRows, notified, rearmed, forecastDays, bookLeft>>
        /\ statistics' = [t \in MeasuredSlots |-> IF statistics[t] = "coming" THEN "measured"
                                                  ELSE statistics[t]]
    BY <1>2 DEF Compiles, Memory, Stored
  <2>2. statistics' \in [MeasuredSlots -> {"open", "coming", "measured", "none"}]
    BY <1>0, <2>1
  <2>3. Compiled'
    BY <2>1 DEF BookInv, Compiled
  <2> QED
    BY <2>1, <2>2, <2>3 DEF BookInv, BookTypes
<1>3. CASE OwnerSwitches
  <2>1. bookLeft' \in BookLeft /\ observing' \in BOOLEAN
    BY <1>0, <1>3, BookAssumption DEF OwnerSwitches, BookLeft
  <2> QED
    BY <1>3, <2>1 DEF OwnerSwitches, Memory, Stored, BookInv, BookTypes, Compiled
<1>4. CASE PlanRun
  <2>1. forecastDays' \subseteq Days
    BY <1>4 DEF PlanRun, BookInv, BookTypes
  <2> QED
    BY <1>4, <2>1 DEF PlanRun, World, Stored, BookInv, BookTypes, Compiled
<1>5. CASE DaemonRestart
  <2>1. 0 \in Tries /\ NoTask \in Task /\ NoTask.now <= wall.slot
    <3>1. 0 \in Slots /\ 0 \in Tries /\ 0 \in 0 .. BookDays /\ FALSE \in BOOLEAN /\ 0 <= wall.slot
      BY <1>0, SlotFacts DEF Slots, Tries
    <3> QED
      BY <3>1 DEF NoTask, Task
  <2>2. bookLeft' \in BookLeft
    BY <1>5, TroubleTypes DEF DaemonRestart
  <2>3. tries' \in [Days -> Tries] /\ ticked' \in Slots \union {-1} /\ evaluated' \in Int
        /\ task' \in Task /\ planned' \in BOOLEAN /\ task'.now <= wall.slot
    <3>1. tries' = [d \in Days |-> 0] /\ ticked' = -1 /\ evaluated' = -1 /\ planned' = FALSE
          /\ task' = NoTask
      BY <1>5 DEF DaemonRestart
    <3>2. tries' \in [Days -> Tries]
      BY <2>1, <3>1
    <3>3. ticked' \in Slots \union {-1}
      BY <3>1
    <3>4. evaluated' \in Int
      BY <3>1
    <3> QED
      BY <2>1, <3>1, <3>2, <3>3, <3>4
  <2>4. UNCHANGED <<wall, observing, statistics, slotRows, guardRows, dayRows, notified, rearmed,
                    forecastDays>>
    BY <1>5 DEF DaemonRestart, World, Stored
  <2> QED
    BY <2>2, <2>3, <2>4 DEF BookInv, BookTypes, Compiled
<1> QED
  BY <1>1, <1>2, <1>3, <1>4, <1>5

\* A tick.
LEMMA TickKeeps ==
  ASSUME BookInv, BookTick
  PROVE  BookInv' /\ (\A t \in Recorded : slotRows'[t] = slotRows[t])
<1>0. wall.slot \in Slots /\ slotRows \in [Slots -> SlotRows] /\ task \in Task
      /\ guardRows \in [MeasuredSlots -> Samples] /\ observing \in BOOLEAN /\ bookLeft \in BookLeft
  BY DEF BookInv, BookTypes
<1>1. /\ ticked' = wall.slot
      /\ \/ RecordSlot /\ RecordGuard({"valid"})
         \/ ~Captures /\ UNCHANGED slotRows /\ Trouble /\ RecordGuard({"valid", "breach"})
      /\ task' = IF task.on THEN task ELSE [on |-> TRUE, now |-> wall.slot, day |-> 0]
      /\ UNCHANGED <<wall, observing, statistics, planned, tries, evaluated, dayRows, notified,
                     rearmed, forecastDays>>
  BY DEF BookTick, World
<1>2. task' \in Task /\ task'.now <= wall.slot
  <2>1. 0 \in 0 .. BookDays /\ wall.slot <= wall.slot
    BY <1>0, SlotFacts DEF Slots
  <2>2. [on |-> TRUE, now |-> wall.slot, day |-> 0] \in Task
    BY <1>0, <2>1 DEF Task
  <2> QED
    BY <1>0, <1>1, <2>1, <2>2 DEF BookInv
<1>3. bookLeft' \in BookLeft
  BY <1>0, <1>1, TroubleTypes DEF RecordSlot
<1>4. CapturedRow \in SlotRow /\ [CapturedRow EXCEPT !.energy = FALSE] \in SlotRow
      /\ [CapturedRow EXCEPT !.hold = FALSE] \in SlotRow
  BY <1>0 DEF CapturedRow, SlotRow
<1>5. slotRows' = slotRows \/ (Captures /\ \E row \in SlotRow : slotRows' = Captured(row))
  BY <1>1, <1>4 DEF RecordSlot
<1>6. slotRows' \in [Slots -> SlotRows] /\ \A t \in Recorded : slotRows'[t] = slotRows[t]
  <2>1. CASE slotRows' = slotRows
    BY <1>0, <2>1
  <2>2. ASSUME Captures, NEW row \in SlotRow, slotRows' = Captured(row)
        PROVE  slotRows' \in [Slots -> SlotRows] /\ \A t \in Recorded : slotRows'[t] = slotRows[t]
    <3>1. slotRows' = [slotRows EXCEPT ![wall.slot] = {row}] /\ {row} \in SlotRows
      BY <2>2 DEF Captured, SlotRows
    <3>2. \A t \in Recorded : t \in Slots /\ t # wall.slot
      BY <2>2 DEF Recorded, Captures
    <3> QED
      BY <1>0, <3>1, <3>2
  <2> QED
    BY <1>5, <2>1, <2>2
<1>7. guardRows' \in [MeasuredSlots -> Samples]
  <2>1. ASSUME NEW sample \in Samples, RecordGuard(sample) PROVE guardRows' \in [MeasuredSlots -> Samples]
    <3>1. CASE ~Guarded
      BY <1>0, <2>1, <3>1 DEF RecordGuard
    <3>2. CASE Guarded
      <4> DEFINE new == guardRows[wall.slot] \union IF planned THEN sample ELSE {"invalid"}
      <4>1. wall.slot \in MeasuredSlots /\ guardRows' = [guardRows EXCEPT ![wall.slot] = new]
        BY <2>1, <3>2 DEF RecordGuard, Guarded
      <4>2. new \in Samples
        BY <1>0, <4>1 DEF Samples
      <4> HIDE DEF new
      <4> QED
        BY <1>0, <4>1, <4>2
    <3> QED
      BY <3>1, <3>2
  <2>2. {"valid"} \in Samples /\ {"valid", "breach"} \in Samples
    BY DEF Samples
  <2> QED
    BY <1>1, <2>1, <2>2
<1>8. Compiled'
  BY <1>1 DEF BookInv, Compiled
<1> QED
  BY <1>0, <1>1, <1>2, <1>3, <1>6, <1>7, <1>8 DEF BookInv, BookTypes

-----------------------------------------------------------------------------
(* The readiness evidence: what a day is said to be *)

\* Reasons of a day whose slots have settled.
LEMMA ReasonsHonest ==
  ASSUME BookInv, NEW d \in Days, Settled(d), ~Pending(d)
  PROVE  ReasonsOf(d) \in SUBSET Gaps /\ Honest(d, ReasonsOf(d))
<1>0. d \in Nat /\ Start(d) \in Nat /\ End(d) \in Nat /\ SlotsOf(d) \subseteq MeasuredSlots
      /\ SettleSlots \in Nat /\ SettleSlots >= 1 /\ task.now \in Nat /\ wall.slot \in Nat
      /\ HorizonSlots \in Nat
  BY SlotFacts, BookAssumption DEF BookInv, BookTypes, Task, Slots
<1>1. ReasonsOf(d) \in SUBSET Gaps
  BY DEF ReasonsOf, Gaps
<1>2. ASSUME ReasonsOf(d) = {}, NEW t \in SlotsOf(d)
      PROVE  Row(t).observe /\ statistics[t] = "measured"
  <2>1. "slot" \notin ReasonsOf(d) /\ "gap" \notin ReasonsOf(d)
    BY <1>2
  <2>2. \A u \in SlotsOf(d) : slotRows[u] # Missing /\ Row(u).observe /\ Row(u).hold
    BY <2>1 DEF ReasonsOf
  <2>3. \A u \in SlotsOf(d) : statistics[u] = "measured"
    BY <2>1 DEF ReasonsOf
  <2> QED
    BY <2>2, <2>3
<1>3. ASSUME "gap" \in ReasonsOf(d), "missed" \notin ReasonsOf(d)
      PROVE  \E t \in SlotsOf(d) : statistics[t] = "none"
  <2>1. ~Expired(d)
    BY <1>3 DEF ReasonsOf
  <2>2. PICK t \in SlotsOf(d) : statistics[t] # "measured"
    BY <1>3, <2>1 DEF ReasonsOf
  <2>3. t \in MeasuredSlots /\ t \in Int /\ t <= End(d) - 1
    BY <1>0, <2>2 DEF SlotsOf
  <2>4. End(d) + SettleSlots <= task.now /\ task.now <= wall.slot
    BY DEF Settled, BookInv
  <2>5. t < wall.slot /\ t < wall.slot - 1
    BY <1>0, <2>3, <2>4
  <2>6. statistics[t] \in {"open", "coming", "measured", "none"}
    BY <2>3 DEF BookInv, BookTypes
  <2> QED
    BY <2>2, <2>3, <2>5, <2>6 DEF BookInv, Compiled
<1>4. ASSUME "end" \in ReasonsOf(d) PROVE wall.slot > End(d)
  <2>1. End(d) + SettleSlots <= task.now /\ task.now <= wall.slot
    BY DEF Settled, BookInv
  <2> QED
    BY <1>0, <2>1
<1> QED
  BY <1>1, <1>2, <1>3, <1>4 DEF Honest

\* A join.
LEMMA JoinKeeps ==
  ASSUME BookInv, JoinDay
  PROVE  /\ BookInv' /\ slotRows' = slotRows /\ notified' = notified
         /\ \A d \in Days : dayRows[d] # Missing => dayRows'[d] = dayRows[d]
         /\ \A d \in Days : dayRows[d] = Missing => \A r \in dayRows'[d] : Honest(d, r)
<1> DEFINE d == task.day
<1>0. d \in Days /\ task.on /\ task' = [task EXCEPT !.day = @ + 1] /\ task \in Task
      /\ dayRows \in [Days -> DayRows] /\ tries \in [Days -> Tries] /\ bookLeft \in BookLeft
      /\ UNCHANGED <<wall, observing, statistics, planned, ticked, evaluated, slotRows, guardRows,
                     notified, rearmed, forecastDays>>
      /\ IF ~Due(d) THEN UNCHANGED <<tries, dayRows, bookLeft>>
         ELSE \/ SnapshotDay(d) /\ UNCHANGED bookLeft
              \/ ~Expired(d) /\ tries' = Retried(d) /\ UNCHANGED dayRows /\ Trouble
  BY DEF JoinDay, World, BookInv, BookTypes
<1>1. task' \in Task /\ task'.now = task.now
  <2>1. d + 1 \in 0 .. BookDays
    BY <1>0, SlotFacts
  <2> QED
    BY <1>0, <2>1 DEF Task
<1>2. bookLeft' \in BookLeft
  BY <1>0, TroubleTypes
<1> HIDE DEF d
<1>3. Retried(d) \in [Days -> Tries] /\ [tries EXCEPT ![d] = 0] \in [Days -> Tries]
  <2>1. task.now + RetrySlots \in Tries /\ 0 \in Tries
    BY <1>0, SlotFacts DEF Tries, Task, Slots
  <2> QED
    BY <1>0, <2>1 DEF Retried
<1>4. tries' \in [Days -> Tries]
  BY <1>0, <1>3 DEF SnapshotDay
<1>5. \/ dayRows' = dayRows
      \/ /\ Due(d) /\ ~Pending(d) /\ dayRows' = [dayRows EXCEPT ![d] = {ReasonsOf(d)}]
  BY <1>0 DEF SnapshotDay
<1>6. /\ dayRows' \in [Days -> DayRows]
      /\ \A e \in Days : dayRows[e] # Missing => dayRows'[e] = dayRows[e]
      /\ \A e \in Days : dayRows[e] = Missing => \A r \in dayRows'[e] : Honest(e, r)
  <2>1. CASE dayRows' = dayRows
    BY <1>0, <2>1 DEF Missing
  <2>2. CASE Due(d) /\ ~Pending(d) /\ dayRows' = [dayRows EXCEPT ![d] = {ReasonsOf(d)}]
    <3>1. dayRows[d] = Missing /\ Settled(d)
      BY <2>2 DEF Due
    <3>2. ReasonsOf(d) \in SUBSET Gaps /\ Honest(d, ReasonsOf(d))
      BY <1>0, <2>2, <3>1, ReasonsHonest
    <3>3. {ReasonsOf(d)} \in DayRows
      BY <3>2 DEF DayRows
    <3>4. dayRows' \in [Days -> DayRows] /\ dayRows'[d] = {ReasonsOf(d)}
          /\ \A e \in Days : e # d => dayRows'[e] = dayRows[e]
      BY <1>0, <2>2, <3>3
    <3>5. ASSUME NEW e \in Days, dayRows[e] = Missing, NEW r \in dayRows'[e] PROVE Honest(e, r)
      <4>1. CASE e = d
        BY <3>2, <3>4, <3>5, <4>1
      <4>2. CASE e # d
        BY <3>4, <3>5, <4>2 DEF Missing
      <4> QED
        BY <4>1, <4>2
    <3> QED
      BY <3>1, <3>4, <3>5
  <2> QED
    BY <1>5, <2>1, <2>2
<1>7. Compiled'
  BY <1>0 DEF BookInv, Compiled
<1>8. BookInv'
  BY <1>0, <1>1, <1>2, <1>4, <1>6, <1>7 DEF BookInv, BookTypes
<1> QED
  BY <1>0, <1>6, <1>8

\* An evaluation.
LEMMA EvaluateKeeps ==
  ASSUME BookInv, Evaluate
  PROVE  /\ BookInv' /\ slotRows' = slotRows /\ dayRows' = dayRows
         /\ notified' /\ ~notified => rearmed
<1> DEFINE closed == DayOf(task.now) - 1
<1>0. /\ task' = NoTask
      /\ \/ closed \in Days /\ evaluated' = closed /\ NotifyReadiness
         \/ UNCHANGED <<evaluated, notified, rearmed, bookLeft>>
      /\ UNCHANGED <<wall, observing, statistics, planned, ticked, tries, slotRows, guardRows,
                     dayRows, forecastDays>>
      /\ notified \in BOOLEAN /\ rearmed \in BOOLEAN /\ bookLeft \in BookLeft
      /\ (notified \/ rearmed) /\ evaluated \in Int
  BY DEF Evaluate, World, BookInv, BookTypes
<1>1. NoTask \in Task /\ NoTask.now <= wall.slot
  <2>1. 0 \in Slots /\ 0 \in 0 .. BookDays /\ FALSE \in BOOLEAN /\ 0 <= wall.slot
    BY SlotFacts DEF Slots, BookInv, BookTypes
  <2> QED
    BY <2>1 DEF NoTask, Task
<1>2. evaluated' \in Int
  <2>1. closed \in Days => closed \in Int
    <3> HIDE DEF closed
    <3> QED
      BY DEF Days
  <2> QED
    BY <1>0, <2>1
<1>3. /\ notified' \in BOOLEAN /\ rearmed' \in BOOLEAN /\ bookLeft' \in BookLeft
      /\ (notified' \/ rearmed') /\ (notified' /\ ~notified => rearmed)
  <2>1. CASE NotifyReadiness
    <3>1. CASE Verdict = "fail"
      <4>1. \/ notified' = FALSE /\ rearmed' = TRUE /\ UNCHANGED bookLeft
            \/ UNCHANGED notified /\ rearmed' = TRUE /\ Trouble
        BY <2>1, <3>1 DEF NotifyReadiness
      <4>2. bookLeft' \in BookLeft
        BY <1>0, <4>1, TroubleTypes
      <4> QED
        BY <1>0, <4>1, <4>2
    <3>2. CASE Verdict = "pass" /\ ~notified
      <4>1. \/ notified' = TRUE /\ rearmed' = FALSE /\ UNCHANGED bookLeft
            \/ UNCHANGED <<notified, rearmed>> /\ Trouble
        BY <2>1, <3>2 DEF NotifyReadiness
      <4>2. bookLeft' \in BookLeft
        BY <1>0, <4>1, TroubleTypes
      <4>3. ~notified /\ rearmed
        BY <1>0, <3>2
      <4>4. CASE notified' = TRUE /\ rearmed' = FALSE
        BY <4>2, <4>3, <4>4
      <4>5. CASE UNCHANGED <<notified, rearmed>>
        BY <1>0, <4>2, <4>3, <4>5
      <4> QED
        BY <4>1, <4>4, <4>5
    <3>3. CASE Verdict # "fail" /\ ~(Verdict = "pass" /\ ~notified)
      BY <1>0, <2>1, <3>3 DEF NotifyReadiness
    <3> QED
      BY <3>1, <3>2, <3>3
  <2>2. CASE UNCHANGED <<evaluated, notified, rearmed, bookLeft>>
    BY <1>0, <2>2
  <2> QED
    BY <1>0, <2>1, <2>2
<1>4. Compiled'
  BY <1>0 DEF BookInv, Compiled
<1> QED
  BY <1>0, <1>1, <1>2, <1>3, <1>4 DEF BookInv, BookTypes

LEMMA BookStarts == BookInit => BookInv
<1> SUFFICES ASSUME BookInit PROVE BookInv
  OBVIOUS
<1>1. 0 \in Slots /\ 0 \in Tries /\ NoTask \in Task /\ NoTask.now <= 0
  <2>1. 0 \in Slots /\ 0 \in Tries /\ 0 \in 0 .. BookDays /\ FALSE \in BOOLEAN
    BY SlotFacts DEF Slots, Tries
  <2> QED
    BY <2>1 DEF NoTask, Task
<1>2. Missing \in SlotRows /\ Missing \in DayRows /\ {} \in Samples
  BY DEF SlotRows, DayRows, Samples
<1>3. bookLeft \in BookLeft
  BY BookAssumption DEF BookInit, BookLeft
<1>4. Compiled
  BY SlotFacts DEF BookInit, Compiled, MeasuredSlots
<1>5. tries \in [Days -> Tries] /\ ticked \in Slots \union {-1} /\ evaluated \in Int
  BY <1>1 DEF BookInit
<1>6. slotRows \in [Slots -> SlotRows] /\ guardRows \in [MeasuredSlots -> Samples]
      /\ dayRows \in [Days -> DayRows]
      /\ statistics \in [MeasuredSlots -> {"open", "coming", "measured", "none"}]
  BY <1>2 DEF BookInit
<1> QED
  BY <1>1, <1>3, <1>4, <1>5, <1>6 DEF BookInit, BookInv, BookTypes

\* The steps, and what they may do to the evidence.
Kept == /\ \A t \in Recorded : slotRows'[t] = slotRows[t]
        /\ \A d \in Days : dayRows[d] # Missing => dayRows'[d] = dayRows[d]
        /\ \A d \in Days : dayRows[d] = Missing => \A r \in dayRows'[d] : Honest(d, r)
        /\ notified' /\ ~notified => rearmed
LEMMA BookStep == BookInv /\ [BookNext]_bookVars => BookInv' /\ [Kept]_bookVars
<1> SUFFICES ASSUME BookInv, [BookNext]_bookVars PROVE BookInv' /\ [Kept]_bookVars
  OBVIOUS
<1>1. CASE UNCHANGED bookVars
  BY <1>1 DEF bookVars, BookInv, BookTypes, Compiled
<1>2. CASE SlotPasses \/ Compiles \/ OwnerSwitches \/ PlanRun \/ DaemonRestart
  <2>1. UNCHANGED <<slotRows, dayRows, notified>>
    BY <1>2 DEF SlotPasses, Compiles, OwnerSwitches, PlanRun, DaemonRestart, Stored
  <2> QED
    BY <1>2, <2>1, WorldKeeps DEF Kept, Missing
<1>3. CASE BookTick
  <2>1. UNCHANGED <<dayRows, notified>>
    BY <1>3 DEF BookTick
  <2> QED
    BY <1>3, <2>1, TickKeeps DEF Kept, Missing
<1>4. CASE JoinDay
  BY <1>4, JoinKeeps DEF Kept
<1>5. CASE Evaluate
  BY <1>5, EvaluateKeeps DEF Kept, Missing
<1> QED
  BY <1>1, <1>2, <1>3, <1>4, <1>5 DEF BookNext

\* The readiness evidence keeps its types.
THEOREM BookTypeCorrect == BookSpec => []BookTypeOK
<1>1. BookInv => BookTypeOK
  BY BookTypeParts DEF BookInv
<1> QED
  BY <1>1, BookStarts, BookStep, PTL DEF BookSpec

\* Evidence is never rewritten, and a day is called what it was, though joins fail, are retried
\* and run behind the ticks.
THEOREM EvidenceIsHonest == BookSpec => EvidenceHonest
<1> QED
  BY BookStarts, BookStep, PTL DEF BookSpec, EvidenceHonest, Kept

-----------------------------------------------------------------------------
(* The services side by side *)

LEMMA EachServiceSteps ==
  [ServicesNext]_serviceVars =>
    /\ [Next]_vars /\ [ReplanNext]_replanVars /\ [BankNext]_bankVars
    /\ [EvidenceNext]_evidenceVars /\ [BookNext]_bookVars
    /\ service' = service
<1>1. CASE Serves("handover", Next, <<replanVars, bankVars, evidenceVars, bookVars>>)
  BY <1>1 DEF Serves
<1>2. CASE Serves("replan", ReplanNext, <<vars, bankVars, evidenceVars, bookVars>>)
  BY <1>2 DEF Serves
<1>3. CASE Serves("bank", BankNext, <<vars, replanVars, evidenceVars, bookVars>>)
  BY <1>3 DEF Serves
<1>4. CASE Serves("evidence", EvidenceNext, <<vars, replanVars, bankVars, bookVars>>)
  BY <1>4 DEF Serves
<1>5. CASE Serves("readiness", BookNext, <<vars, replanVars, bankVars, evidenceVars>>)
  BY <1>5 DEF Serves
<1>6. CASE UNCHANGED serviceVars
  BY <1>6 DEF serviceVars
<1> QED
  BY <1>1, <1>2, <1>3, <1>4, <1>5, <1>6 DEF ServicesNext

\* What TLC explores side by side is, service by service, the service's own specification: each
\* theorem about one of them, here or in OwnershipProofs and ReplanProofs, is one about the run.
THEOREM EachServiceItself ==
  ServicesSpec => Spec /\ ReplanSpec /\ BankSpec /\ EvidenceSpec /\ BookSpec
<1>1. ServicesInit => Init /\ ReplanInit /\ BankInit /\ EvidenceInit /\ BookInit
  BY DEF ServicesInit
<1> QED
  BY <1>1, EachServiceSteps, PTL
     DEF ServicesSpec, Spec, ReplanSpec, BankSpec, EvidenceSpec, BookSpec

\* The services keep their types side by side.
THEOREM ServicesTyped == ServicesSpec => []TypesOK
<1> DEFINE Service == service \in {"handover", "replan", "bank", "evidence", "readiness"}
<1>1. ServicesInit => Service
  BY DEF ServicesInit
<1>2. Service /\ [ServicesNext]_serviceVars => Service'
  BY EachServiceSteps
<1>3. Service /\ TypeOK /\ ReplanTypeOK /\ BankTypeOK /\ EvidenceTypeOK /\ BookTypeOK => TypesOK
  BY DEF TypesOK
<1> HIDE DEF Service
<1> QED
  BY <1>1, <1>2, <1>3, EachServiceItself, TypeCorrect, ReplanTypeCorrect, BankTypeCorrect,
     EvidenceTypeCorrect, BookTypeCorrect, PTL DEF ServicesSpec
=================================================================================
