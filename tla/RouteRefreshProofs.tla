--------------------------- MODULE RouteRefreshProofs ---------------------------
(***************************************************************************)
(* The refresh chain never loses a change it heard, for any services,      *)
(* checks and number of changes.  Only the head of the chain can have      *)
(* started, and if it is also the last then it read the current routes or  *)
(* a change went unheard since: that is the inductive invariant.           *)
(***************************************************************************)
EXTENDS RouteRefresh, SequenceTheorems, TLAPS

Owners == Checks \cup {"boot", "change"}

Entries == [owner : Owners, started : BOOLEAN, names : SUBSET Services]

OnlyHeadStarted == \A i \in DOMAIN queue : i # 1 => ~ queue[i].started

\* A started refresh that nothing is queued behind.
LoneReadsCurrent ==
    Len(queue) = 1 /\ queue[1].started => missed \/ queue[1].names = wanted.names

QuietIsSubscribed ==
    queue = <<>> /\ lastOk /\ ~ missed /\ wanted.readable => wanted.names \subseteq subscribed

\* A health check waits for one refresh at a time.
OneEach ==
    \A i, j \in DOMAIN queue : queue[i].owner = queue[j].owner /\ queue[i].owner \in Checks => i = j

QInv == OnlyHeadStarted /\ LoneReadsCurrent /\ QuietIsSubscribed /\ OneEach

IInv == TypeOK /\ QInv

-----------------------------------------------------------------------------
(* The chain                                                                *)

\* What an entry of the chain is.
LEMMA EntryType ==
    ASSUME TypeOK, NEW i \in DOMAIN queue
    PROVE  /\ queue \in Seq(Entries) /\ queue[i] \in Entries
           /\ queue[i].owner \in Owners /\ queue[i].names \in SUBSET Services
<1>1. queue \in Seq(Entries)
  BY DEF TypeOK, Entries, Owners
<1>2. queue[i] \in Entries
  BY <1>1, ElementOfSeq, LenProperties
<1> QED
  BY <1>1, <1>2 DEF Entries

\* Settling the head shifts the chain.
LEMMA Shift ==
    ASSUME NEW S, queue \in Seq(S), NEW i \in DOMAIN queue, IsTurn(i)
    PROVE  /\ i = 1 /\ 1 \in DOMAIN queue
           /\ AfterSettling(i) \in Seq(S)
           /\ Len(AfterSettling(i)) = Len(queue) - 1
           /\ \A k \in DOMAIN AfterSettling(i) :
                 k + 1 \in DOMAIN queue /\ AfterSettling(i)[k] = queue[k + 1]
<1>1. i = 1 /\ Len(queue) \in Nat /\ 1 <= Len(queue) /\ DOMAIN queue = 1 .. Len(queue)
  BY LenProperties DEF IsTurn
<1>2. /\ SubSeq(queue, 1, 0) = <<>>
      /\ SubSeq(queue, 2, Len(queue)) \in Seq(S)
      /\ Len(SubSeq(queue, 2, Len(queue))) = Len(queue) - 1
      /\ \A k \in 1 .. Len(queue) - 1 : SubSeq(queue, 2, Len(queue))[k] = queue[k + 1]
  BY <1>1, SubSeqProperties
<1>3. AfterSettling(i) = SubSeq(queue, 2, Len(queue))
  BY <1>1, <1>2, ConcatEmptySeq DEF AfterSettling, Seqs!RemoveAt
<1>4. DOMAIN AfterSettling(i) = 1 .. Len(queue) - 1
  BY <1>2, <1>3, LenProperties
<1>5. ASSUME NEW k \in 1 .. Len(queue) - 1
      PROVE  k + 1 \in DOMAIN queue /\ AfterSettling(i)[k] = queue[k + 1]
  BY <1>1, <1>2, <1>3
<1> QED
  BY <1>1, <1>2, <1>3, <1>4, <1>5

\* What settling does to the shape of the chain.
LEMMA ShiftKeeps ==
    ASSUME IInv, NEW i \in DOMAIN queue, IsTurn(i), queue' = AfterSettling(i)
    PROVE  /\ queue' \in Seq(Entries) /\ Len(queue') \in Nat
           /\ OnlyHeadStarted' /\ OneEach'
           /\ \A k \in DOMAIN queue' : ~ queue'[k].started
           /\ queue' = <<>> => Len(queue) = 1
<1>1. queue \in Seq(Entries)
  BY DEF IInv, TypeOK, Entries, Owners
<1>2. /\ queue' \in Seq(Entries)
      /\ Len(queue') = Len(queue) - 1 /\ Len(queue) \in Nat
      /\ \A k \in DOMAIN queue' : k + 1 \in DOMAIN queue /\ queue'[k] = queue[k + 1]
      /\ \A k \in DOMAIN queue' : k \in Nat /\ k # 0
  BY <1>1, Shift, LenProperties
<1>3. \A k \in DOMAIN queue' : ~ queue'[k].started
  BY <1>2 DEF IInv, QInv, OnlyHeadStarted
<1>4. OneEach'
  <2> SUFFICES ASSUME NEW j \in DOMAIN queue', NEW k \in DOMAIN queue',
                      queue'[j].owner = queue'[k].owner, queue'[j].owner \in Checks
               PROVE  j = k
    BY DEF OneEach
  <2>1. j + 1 = k + 1
    BY <1>2 DEF IInv, QInv, OneEach
  <2> QED
    BY <1>2, <2>1
<1>5. queue' = <<>> => Len(queue) = 1
  BY <1>2, EmptySeq
<1> QED
  BY <1>2, <1>3, <1>4, <1>5, LenProperties DEF OnlyHeadStarted

-----------------------------------------------------------------------------
(* Types                                                                    *)

Reports == [status : {"UP", "ERROR"}, routes : SUBSET Services, counted : SUBSET Services]

LEMMA TableType ==
    ASSUME TypeOK
    PROVE  wanted.readable \in BOOLEAN /\ wanted.names \in SUBSET Services
BY RefreshAssumption DEF TypeOK

LEMMA ResumeType ==
    ASSUME TypeOK, NEW owner \in Owners, NEW ok \in BOOLEAN, NEW subs \in SUBSET Services,
           Resume(owner, ok, subs)
    PROVE  /\ phase' \in {"boot", "listening", "failed", "destroyed"}
           /\ report' \in [Checks -> {NoReport} \cup Reports]
<1>1. phase' \in {"boot", "listening", "failed", "destroyed"}
  BY DEF Resume, TypeOK
<1>2. /\ [status |-> "UP", routes |-> wanted.names, counted |-> subs] \in Reports
      /\ [status |-> "ERROR", routes |-> {}, counted |-> subs] \in Reports
  BY TableType DEF Reports
<1>3. report' \in [Checks -> {NoReport} \cup Reports]
  BY <1>2 DEF Resume, TypeOK, Reports
<1> QED
  BY <1>1, <1>3

LEMMA StartPreserves ==
    ASSUME IInv, NEW i \in DOMAIN queue, Start(i)
    PROVE  IInv'
<1>1. /\ TypeOK /\ queue \in Seq(Entries) /\ queue[i] \in Entries /\ queue[i].owner \in Owners
      /\ IsTurn(i) /\ i = 1 /\ missed' = FALSE /\ UNCHANGED <<wanted, subscribed, changes>>
  BY EntryType DEF IInv, Start, IsTurn
<1>2. CASE ~ wanted.readable
  <2>1. queue' = AfterSettling(i) /\ lastOk' = FALSE /\ Resume(queue[i].owner, FALSE, subscribed)
    BY <1>2 DEF Start
  <2>2. /\ queue' \in Seq(Entries) /\ Len(queue') \in Nat
        /\ OnlyHeadStarted' /\ OneEach'
        /\ \A k \in DOMAIN queue' : ~ queue'[k].started
    BY <1>1, <2>1, ShiftKeeps
  <2>3. /\ phase' \in {"boot", "listening", "failed", "destroyed"}
        /\ report' \in [Checks -> {NoReport} \cup Reports]
    BY <1>1, <2>1, ResumeType DEF TypeOK
  <2>4. TypeOK'
    BY <1>1, <2>1, <2>2, <2>3 DEF TypeOK, Entries, Owners, Reports
  <2>5. LoneReadsCurrent' /\ QuietIsSubscribed'
    BY <2>1, <2>2, LenProperties DEF LoneReadsCurrent, QuietIsSubscribed
  <2> QED
    BY <2>2, <2>4, <2>5 DEF IInv, QInv
<1>3. CASE wanted.readable
  <2> DEFINE e == [queue[i] EXCEPT !.started = TRUE, !.names = wanted.names]
  <2>1. queue' = [queue EXCEPT ![i] = e] /\ UNCHANGED <<phase, report, lastOk>>
    BY <1>3 DEF Start
  <2>2. e \in Entries /\ e.names = wanted.names /\ e.owner = queue[i].owner
    BY <1>1, TableType DEF Entries
  <2> HIDE DEF e
  <2>3. /\ queue' \in Seq(Entries) /\ DOMAIN queue' = DOMAIN queue
        /\ queue'[1] = e
        /\ \A k \in DOMAIN queue : k # 1 => queue'[k] = queue[k]
        /\ Len(queue') = Len(queue)
    BY <1>1, <2>1, <2>2, ExceptSeq, LenProperties
  <2>4. TypeOK'
    BY <1>1, <2>1, <2>3 DEF TypeOK, Entries, Owners
  <2>5. OnlyHeadStarted' /\ LoneReadsCurrent'
    BY <1>1, <2>2, <2>3 DEF IInv, QInv, OnlyHeadStarted, LoneReadsCurrent
  <2>6. \A k \in DOMAIN queue' : queue'[k].owner = queue[k].owner
    BY <1>1, <2>2, <2>3
  <2>7. OneEach'
    BY <2>3, <2>6 DEF IInv, QInv, OneEach
  <2>8. QuietIsSubscribed'
    <3>1. queue' # <<>>
      BY <1>1, <2>3, EmptySeq, LenProperties
    <3> QED
      BY <3>1 DEF QuietIsSubscribed
  <2> QED
    BY <2>4, <2>5, <2>7, <2>8 DEF IInv, QInv
<1> QED
  BY <1>2, <1>3

\* Settling, with success or not.
LEMMA SettlePreserves ==
    ASSUME IInv, NEW i \in DOMAIN queue, IsTurn(i), queue[i].started,
           NEW subs \in SUBSET Services, subscribed' = subs,
           NEW ok \in BOOLEAN, lastOk' = ok, ok => queue[i].names \subseteq subs,
           Resume(queue[i].owner, ok, subs),
           queue' = AfterSettling(i), UNCHANGED <<wanted, missed, changes>>
    PROVE  IInv'
<1>1. /\ TypeOK /\ queue \in Seq(Entries) /\ queue[i].owner \in Owners /\ i = 1
  BY EntryType DEF IInv, IsTurn
<1>2. /\ queue' \in Seq(Entries) /\ Len(queue') \in Nat
      /\ OnlyHeadStarted' /\ OneEach'
      /\ \A k \in DOMAIN queue' : ~ queue'[k].started
      /\ queue' = <<>> => Len(queue) = 1
  BY ShiftKeeps
<1>3. /\ phase' \in {"boot", "listening", "failed", "destroyed"}
      /\ report' \in [Checks -> {NoReport} \cup Reports]
  BY <1>1, ResumeType
<1>4. TypeOK'
  BY <1>1, <1>2, <1>3 DEF TypeOK, Entries, Owners, Reports
<1>5. LoneReadsCurrent'
  BY <1>2, LenProperties DEF LoneReadsCurrent
<1>6. QuietIsSubscribed'
  BY <1>1, <1>2 DEF IInv, QInv, LoneReadsCurrent, QuietIsSubscribed
<1> QED
  BY <1>2, <1>4, <1>5, <1>6 DEF IInv, QInv

LEMMA SucceedPreserves ==
    ASSUME IInv, NEW i \in DOMAIN queue, Succeed(i)
    PROVE  IInv'
<1>1. queue[i].names \in SUBSET Services /\ subscribed \in SUBSET Services
  BY EntryType DEF IInv, TypeOK
<1>2. PICK kept \in SUBSET subscribed :
         /\ subscribed' = kept \cup queue[i].names
         /\ Resume(queue[i].owner, TRUE, kept \cup queue[i].names)
  BY DEF Succeed
<1> DEFINE subs == kept \cup queue[i].names
<1>3. subs \in SUBSET Services /\ queue[i].names \subseteq subs
  BY <1>1
<1>4. /\ IsTurn(i) /\ queue[i].started /\ lastOk' = TRUE /\ queue' = AfterSettling(i)
      /\ UNCHANGED <<wanted, missed, changes>>
  BY DEF Succeed
<1> QED
  BY <1>2, <1>3, <1>4, SettlePreserves

LEMMA FailPreserves ==
    ASSUME IInv, NEW i \in DOMAIN queue, Fail(i)
    PROVE  IInv'
<1>1. queue[i].names \in SUBSET Services /\ subscribed \in SUBSET Services
  BY EntryType DEF IInv, TypeOK
<1>2. PICK kept \in SUBSET subscribed, added \in SUBSET queue[i].names :
         /\ subscribed' = kept \cup added
         /\ Resume(queue[i].owner, FALSE, kept \cup added)
  BY DEF Fail
<1> DEFINE subs == kept \cup added
<1>3. subs \in SUBSET Services
  BY <1>1
<1>4. /\ IsTurn(i) /\ queue[i].started /\ lastOk' = FALSE /\ queue' = AfterSettling(i)
      /\ UNCHANGED <<wanted, missed, changes>>
  BY DEF Fail
<1> QED
  BY <1>2, <1>3, <1>4, SettlePreserves

-----------------------------------------------------------------------------
(* Joining the chain                                                        *)

\* A refresh joins at the end, for a health check only if it waits for none.
LEMMA JoinKeeps ==
    ASSUME IInv, NEW owner \in Owners, queue' = Append(queue, Refresh(owner)),
           owner \in Checks => ~ Waiting(owner)
    PROVE  /\ queue' \in Seq(Entries) /\ queue' # <<>>
           /\ OnlyHeadStarted' /\ OneEach' /\ LoneReadsCurrent'
<1>1. queue \in Seq(Entries) /\ Refresh(owner) \in Entries
  BY DEF IInv, TypeOK, Entries, Owners, Refresh
<1>2. /\ queue' \in Seq(Entries) /\ Len(queue') = Len(queue) + 1 /\ Len(queue) \in Nat
      /\ DOMAIN queue = 1 .. Len(queue) /\ DOMAIN queue' = 1 .. Len(queue) + 1
      /\ \A k \in 1 .. Len(queue) : queue'[k] = queue[k]
      /\ queue'[Len(queue) + 1] = Refresh(owner)
  BY <1>1, AppendProperties, LenProperties
<1>3. ~ queue'[Len(queue) + 1].started /\ queue'[Len(queue) + 1].owner = owner
  BY <1>2 DEF Refresh
<1>4. OnlyHeadStarted' /\ LoneReadsCurrent'
  BY <1>2, <1>3 DEF IInv, QInv, OnlyHeadStarted, LoneReadsCurrent
<1>5. OneEach'
  BY <1>2, <1>3 DEF IInv, QInv, OneEach, Waiting
<1>6. queue' # <<>>
  BY <1>2, EmptySeq
<1> QED
  BY <1>2, <1>4, <1>5, <1>6

LEMMA ChangeConfigPreserves ==
    ASSUME IInv, ChangeConfig
    PROVE  IInv'
<1>1. /\ TypeOK /\ wanted' \in Tables /\ changes' \in 0 .. MaxChanges
      /\ UNCHANGED <<phase, subscribed, report, lastOk>>
  BY RefreshAssumption DEF IInv, TypeOK, ChangeConfig
<1>2. CASE phase = "listening"
  <2>1. queue' = Append(queue, Refresh("change")) /\ missed' = missed
    BY <1>2 DEF ChangeConfig
  <2>2. /\ queue' \in Seq(Entries) /\ queue' # <<>>
        /\ OnlyHeadStarted' /\ OneEach' /\ LoneReadsCurrent'
    BY <2>1, JoinKeeps, RefreshAssumption DEF Owners
  <2>3. TypeOK'
    BY <1>1, <2>1, <2>2 DEF TypeOK, Entries, Owners
  <2> QED
    BY <2>2, <2>3 DEF IInv, QInv, QuietIsSubscribed
<1>3. CASE phase # "listening"
  <2>1. queue' = queue /\ missed' = TRUE
    BY <1>3 DEF ChangeConfig
  <2>2. TypeOK'
    BY <1>1, <2>1 DEF TypeOK
  <2> QED
    BY <2>1, <2>2 DEF IInv, QInv, OnlyHeadStarted, LoneReadsCurrent, QuietIsSubscribed, OneEach
<1> QED
  BY <1>2, <1>3

LEMMA HealthPreserves ==
    ASSUME IInv, NEW h \in Checks, Health(h)
    PROVE  IInv'
<1>1. /\ TypeOK /\ queue' = Append(queue, Refresh(h)) /\ ~ Waiting(h)
      /\ UNCHANGED <<phase, wanted, subscribed, report, missed, lastOk, changes>>
  BY DEF IInv, Health
<1>2. /\ queue' \in Seq(Entries) /\ queue' # <<>>
      /\ OnlyHeadStarted' /\ OneEach' /\ LoneReadsCurrent'
  BY <1>1, JoinKeeps DEF Owners
<1>3. TypeOK'
  BY <1>1, <1>2 DEF TypeOK, Entries, Owners
<1> QED
  BY <1>2, <1>3 DEF IInv, QInv, QuietIsSubscribed

-----------------------------------------------------------------------------
(* The theorems                                                             *)

LEMMA InitIInv == Init => IInv
<1> SUFFICES ASSUME Init PROVE IInv
  OBVIOUS
<1>1. /\ Refresh("boot") \in Entries
      /\ queue = <<Refresh("boot")>> /\ ~ Refresh("boot").started
  BY DEF Init, Refresh, Entries, Owners
<1>2. queue \in Seq(Entries) /\ Len(queue) = 1 /\ DOMAIN queue = {1} /\ ~ queue[1].started
  BY <1>1
<1>3. TypeOK
  <2>1. report \in [Checks -> {NoReport} \cup Reports]
    BY DEF Init
  <2>2. changes \in 0 .. MaxChanges /\ wanted \in Tables
    BY RefreshAssumption DEF Init
  <2> QED
    BY <1>2, <2>1, <2>2 DEF Init, TypeOK, Entries, Owners, Reports
<1>4. QInv
  BY <1>2, EmptySeq DEF QInv, OnlyHeadStarted, LoneReadsCurrent, QuietIsSubscribed, OneEach
<1> QED
  BY <1>3, <1>4 DEF IInv

LEMMA NextIInv == IInv /\ [Next]_vars => IInv'
<1> SUFFICES ASSUME IInv, [Next]_vars PROVE IInv'
  OBVIOUS
<1>1. CASE Work
  BY <1>1, StartPreserves, SucceedPreserves, FailPreserves DEF Work
<1>2. CASE ChangeConfig
  BY <1>2, ChangeConfigPreserves
<1>3. CASE Destroy
  <2>1. TypeOK'
    BY <1>3 DEF IInv, Destroy, TypeOK
  <2> QED
    BY <1>3, <2>1
       DEF IInv, Destroy, QInv, OnlyHeadStarted, LoneReadsCurrent, QuietIsSubscribed, OneEach
<1>4. ASSUME NEW h \in Checks, Health(h) PROVE IInv'
  BY <1>4, HealthPreserves
<1>5. CASE UNCHANGED vars
  BY <1>5
     DEF vars, IInv, TypeOK, QInv, OnlyHeadStarted, LoneReadsCurrent, QuietIsSubscribed, OneEach
<1> QED
  BY <1>1, <1>2, <1>3, <1>4, <1>5 DEF Next

\* The invariant the theorems below rest on.
THEOREM Inductive == Spec => []IInv
BY InitIInv, NextIInv, PTL DEF Spec

\* Every variable keeps its type.
THEOREM TypeCorrect == Spec => []TypeOK
<1>1. IInv => TypeOK
  BY DEF IInv
<1> QED
  BY <1>1, Inductive, PTL

\* A change the listener heard is subscribed, or still has a refresh coming that
\* will read it, or the last refresh failed (refreshQueue).
THEOREM HeardChanges == Spec => []HeardChangesStayQueued
<1>1. IInv => HeardChangesStayQueued
  <2> SUFFICES ASSUME IInv, wanted.readable, ~ (wanted.names \subseteq subscribed), lastOk, ~ missed
               PROVE  \E i \in DOMAIN queue : queue[i].started => queue[i].names = wanted.names
    BY DEF HeardChangesStayQueued
  <2>1. queue \in Seq(Entries) /\ queue # <<>>
    BY DEF IInv, TypeOK, Entries, Owners, QInv, QuietIsSubscribed
  <2>2. Len(queue) \in Nat /\ DOMAIN queue = 1 .. Len(queue) /\ Len(queue) # 0
    BY <2>1, LenProperties, EmptySeq
  <2>3. CASE Len(queue) = 1
    BY <2>2, <2>3 DEF IInv, QInv, LoneReadsCurrent
  <2>4. CASE Len(queue) # 1
    <3>1. Len(queue) \in DOMAIN queue /\ ~ queue[Len(queue)].started
      BY <2>2, <2>4 DEF IInv, QInv, OnlyHeadStarted
    <3> QED
      BY <3>1
  <2> QED
    BY <2>3, <2>4
<1> QED
  BY <1>1, Inductive, PTL

\* A health check that answers UP from the routes its refresh read counts
\* subscribed services only (health and readiness in gateway.service.ts).
THEOREM HealthIsSubscribed == Spec => HealthCountsSubscribed
<1> DEFINE Honest(h) ==
             /\ report[h] = NoReport /\ report'[h] # NoReport /\ report'[h].status = "UP"
             /\ \E i \in DOMAIN queue : queue[i].owner = h /\ queue[i].names = wanted.names
             => report'[h].routes \subseteq report'[h].counted
<1>1. ASSUME IInv, [Next]_vars, NEW h \in Checks PROVE Honest(h)
  <2>1. TypeOK /\ OneEach
    BY <1>1 DEF IInv, QInv
  <2>2. ASSUME NEW owner, NEW subs, Resume(owner, FALSE, subs) PROVE Honest(h)
    <3>1. \/ report'[h] = [status |-> "ERROR", routes |-> {}, counted |-> subs]
          \/ report'[h] = report[h]
      BY <2>1, <2>2 DEF Resume, TypeOK
    <3> QED
      BY <3>1
  <2>3. CASE Work
    <3>1. PICK i \in DOMAIN queue : Start(i) \/ Succeed(i) \/ Fail(i)
      BY <2>3 DEF Work
    <3>2. CASE Start(i)
      BY <2>2, <3>2 DEF Start
    <3>3. CASE Fail(i)
      BY <2>2, <3>3 DEF Fail
    <3>4. CASE Succeed(i)
      <4>1. PICK kept \in SUBSET subscribed :
               Resume(queue[i].owner, TRUE, kept \cup queue[i].names)
        BY <3>4 DEF Succeed
      <4>2. CASE queue[i].owner # h
        BY <2>1, <4>1, <4>2 DEF Resume, TypeOK
      <4>3. CASE queue[i].owner = h
        <5>1. SUFFICES ASSUME NEW j \in DOMAIN queue, queue[j].owner = h, queue[j].names = wanted.names,
                              report'[h].status = "UP"
                       PROVE  report'[h].routes \subseteq report'[h].counted
          OBVIOUS
        <5>2. j = i
          BY <2>1, <4>3, <5>1 DEF OneEach
        <5>3. report'[h] = [status |-> "UP", routes |-> wanted.names,
                            counted |-> kept \cup queue[i].names]
          BY <2>1, <4>1, <4>3, <5>1 DEF Resume, TypeOK
        <5> QED
          BY <5>1, <5>2, <5>3
      <4> QED
        BY <4>2, <4>3
    <3> QED
      BY <3>1, <3>2, <3>3, <3>4
  <2>4. CASE ChangeConfig \/ Destroy \/ (\E g \in Checks : Health(g)) \/ UNCHANGED vars
    BY <2>4 DEF ChangeConfig, Destroy, Health, vars
  <2> QED
    BY <1>1, <2>3, <2>4 DEF Next
<1>2. IInv /\ [Next]_vars =>
        [\A h \in Checks :
           /\ report[h] = NoReport /\ report'[h] # NoReport /\ report'[h].status = "UP"
           /\ \E i \in DOMAIN queue : queue[i].owner = h /\ queue[i].names = wanted.names
           => report'[h].routes \subseteq report'[h].counted]_vars
  BY <1>1
<1> QED
  BY <1>2, Inductive, PTL DEF Spec, HealthCountsSubscribed

-----------------------------------------------------------------------------
(* Why every check is answered                                              *)

\* What is left to do in the chain until the i-th refresh has settled: each one
\* is begun and settled, and the first may have been begun.
Ahead(i) == 2 * i - (IF queue[1].started THEN 1 ELSE 0)

\* A check that waits has no answer yet.
NoneAnsweredTwice == \A i \in DOMAIN queue : queue[i].owner \in Checks => report[queue[i].owner] = NoReport

\* Whatever joins or fails, a check that waits gets its answer or comes closer to
\* it with every step of the chain, and no other step sends it back.
ChecksComeCloser ==
    [][\A i \in DOMAIN queue :
         LET h == queue[i].owner
         IN  h \in Checks =>
               \/ report[h] = NoReport /\ report'[h] \in Reports
               \/ \E j \in DOMAIN queue' :
                     /\ queue'[j].owner = h
                     /\ Ahead(j)' <= Ahead(i)
                     /\ Work => Ahead(j)' < Ahead(i)]_vars

\* Nobody is answered a second time, and nothing is answered that does not wait.
LEMMA AnswersAreFirst ==
    ASSUME IInv, NoneAnsweredTwice, [Next]_vars
    PROVE  NoneAnsweredTwice'
<1>1. CASE Work
  <2>1. PICK i \in DOMAIN queue : Start(i) \/ Succeed(i) \/ Fail(i)
    BY <1>1 DEF Work
  <2>2. CASE Start(i) /\ wanted.readable
    <3>1. queue' = [queue EXCEPT ![i].started = TRUE, ![i].names = wanted.names] /\ report' = report
      BY <2>2 DEF Start
    <3>2. /\ DOMAIN queue' = DOMAIN queue /\ queue[i] \in Entries
          /\ \A k \in DOMAIN queue : queue'[k].owner = queue[k].owner
      BY <3>1, EntryType DEF IInv, Entries
    <3> QED
      BY <3>1, <3>2 DEF NoneAnsweredTwice
  <2>3. CASE ~ (Start(i) /\ wanted.readable)
    <3>1. /\ queue' = AfterSettling(i) /\ IsTurn(i) /\ queue \in Seq(Entries)
          /\ \E ok, subs : Resume(queue[i].owner, ok, subs)
      BY <2>1, <2>3, EntryType DEF IInv, Start, Succeed, Fail
    <3>2. /\ i = 1 /\ \A k \in DOMAIN queue' : k + 1 \in DOMAIN queue /\ queue'[k] = queue[k + 1]
          /\ \A k \in DOMAIN queue' : k \in Nat /\ k + 1 # 1
      BY <3>1, Shift, LenProperties
    <3>3. \A h \in Checks : h # queue[i].owner => report'[h] = report[h]
      BY <3>1 DEF Resume, IInv, TypeOK
    <3>4. ASSUME NEW k \in DOMAIN queue', queue'[k].owner \in Checks
          PROVE  report'[queue'[k].owner] = NoReport
      <4>1. k + 1 \in DOMAIN queue /\ queue'[k].owner = queue[k + 1].owner /\ k + 1 # i
        BY <3>2
      <4>2. queue[k + 1].owner # queue[i].owner
        BY <3>4, <4>1 DEF IInv, QInv, OneEach
      <4> QED
        BY <3>3, <3>4, <4>1, <4>2 DEF NoneAnsweredTwice
    <3> QED
      BY <3>4 DEF NoneAnsweredTwice
  <2> QED
    BY <2>2, <2>3
<1>2. ASSUME NEW owner \in Owners, queue' = Append(queue, Refresh(owner)), report' = report,
             owner \in Checks => report[owner] = NoReport
      PROVE  NoneAnsweredTwice'
  <2>1. queue \in Seq(Entries) /\ Refresh(owner) \in Entries
    BY DEF IInv, TypeOK, Entries, Owners, Refresh
  <2>2. /\ DOMAIN queue = 1 .. Len(queue) /\ DOMAIN queue' = 1 .. Len(queue) + 1 /\ Len(queue) \in Nat
        /\ \A k \in 1 .. Len(queue) : queue'[k] = queue[k]
        /\ queue'[Len(queue) + 1].owner = owner
    BY <1>2, <2>1, AppendProperties, LenProperties DEF Refresh
  <2> QED
    BY <1>2, <2>2 DEF NoneAnsweredTwice
<1>3. CASE ChangeConfig \/ Destroy \/ \E h \in Checks : Health(h)
  <2>1. CASE queue' = queue /\ report' = report
    BY <2>1 DEF NoneAnsweredTwice
  <2>2. CASE ~ (queue' = queue /\ report' = report)
    BY <1>2, <1>3, <2>2, RefreshAssumption DEF ChangeConfig, Destroy, Health, Owners
  <2> QED
    BY <2>1, <2>2
<1>4. CASE UNCHANGED vars
  BY <1>4 DEF vars, NoneAnsweredTwice
<1> QED
  BY <1>1, <1>3, <1>4 DEF Next

\* A refresh of the chain is begun or settled: whoever waits comes closer.
LEMMA WorkBringsCloser ==
    ASSUME IInv, NoneAnsweredTwice, Work, NEW i \in DOMAIN queue, queue[i].owner \in Checks
    PROVE  \/ report[queue[i].owner] = NoReport /\ report'[queue[i].owner] \in Reports
           \/ \E j \in DOMAIN queue' : queue'[j].owner = queue[i].owner /\ Ahead(j)' < Ahead(i)
<1>1. PICK n \in DOMAIN queue : Start(n) \/ Succeed(n) \/ Fail(n)
  BY DEF Work
<1>2. /\ TypeOK /\ queue \in Seq(Entries) /\ queue[n] \in Entries /\ i \in Nat /\ i >= 1
      /\ DOMAIN queue = 1 .. Len(queue) /\ Len(queue) \in Nat /\ n = 1 /\ IsTurn(n)
  <2>1. TypeOK /\ queue \in Seq(Entries) /\ queue[n] \in Entries
    BY EntryType DEF IInv
  <2>2. IsTurn(n) /\ n = 1
    BY <1>1 DEF Start, Succeed, Fail, IsTurn
  <2> QED
    BY <2>1, <2>2, LenProperties
<1>3. CASE Start(n) /\ wanted.readable
  <2>1. /\ queue' = [queue EXCEPT ![n].started = TRUE, ![n].names = wanted.names]
        /\ ~ queue[1].started
    BY <1>2, <1>3 DEF Start
  <2>2. /\ DOMAIN queue' = DOMAIN queue /\ queue'[1].started
        /\ queue'[i].owner = queue[i].owner
    BY <1>2, <2>1 DEF Entries
  <2>3. Ahead(i)' < Ahead(i)
    BY <1>2, <2>1, <2>2 DEF Ahead
  <2> QED
    BY <2>2, <2>3
<1>4. CASE ~ (Start(n) /\ wanted.readable)
  <2>1. /\ queue' = AfterSettling(n)
        /\ \E ok \in BOOLEAN, subs \in SUBSET Services : Resume(queue[n].owner, ok, subs)
    <3>1. queue[n].names \in SUBSET Services /\ subscribed \in SUBSET Services
      BY <1>2, EntryType DEF TypeOK
    <3>2. CASE Start(n)
      BY <1>4, <3>1, <3>2 DEF Start
    <3>3. CASE Succeed(n)
      <4>1. PICK kept \in SUBSET subscribed : Resume(queue[n].owner, TRUE, kept \cup queue[n].names)
        BY <3>3 DEF Succeed
      <4>2. kept \cup queue[n].names \in SUBSET Services
        BY <3>1
      <4> QED
        BY <3>3, <4>1, <4>2 DEF Succeed
    <3>4. CASE Fail(n)
      <4>1. PICK kept \in SUBSET subscribed, added \in SUBSET queue[n].names :
               Resume(queue[n].owner, FALSE, kept \cup added)
        BY <3>4 DEF Fail
      <4>2. kept \cup added \in SUBSET Services
        BY <3>1
      <4> QED
        BY <3>4, <4>1, <4>2 DEF Fail
    <3> QED
      BY <1>1, <3>2, <3>3, <3>4
  <2>2. CASE i = n
    <3>1. PICK ok \in BOOLEAN, subs \in SUBSET Services : Resume(queue[n].owner, ok, subs)
      BY <2>1
    <3>2. /\ [status |-> "UP", routes |-> wanted.names, counted |-> subs] \in Reports
          /\ [status |-> "ERROR", routes |-> {}, counted |-> subs] \in Reports
      BY <1>2, TableType DEF Reports
    <3>3. report'[queue[i].owner] \in Reports
      BY <1>2, <2>2, <3>1, <3>2 DEF Resume, TypeOK
    <3> QED
      BY <3>3 DEF NoneAnsweredTwice
  <2>3. CASE i # n
    <3>1. /\ queue' \in Seq(Entries) /\ Len(queue') = Len(queue) - 1
          /\ DOMAIN queue' = 1 .. Len(queue) - 1
          /\ \A k \in DOMAIN queue' : queue'[k] = queue[k + 1]
      BY <1>2, <2>1, Shift, LenProperties
    <3>2. i - 1 \in DOMAIN queue' /\ 1 \in DOMAIN queue' /\ queue'[i - 1].owner = queue[i].owner
      BY <1>2, <2>3, <3>1
    <3>3. ~ queue'[1].started
      BY <2>1, <1>2, <3>2, ShiftKeeps
    <3>4. (Ahead(i - 1))' < Ahead(i)
      BY <1>2, <3>3 DEF Ahead
    <3> QED
      BY <3>2, <3>4
  <2> QED
    BY <2>2, <2>3
<1> QED
  BY <1>3, <1>4

\* The other steps only add behind those that wait.
LEMMA OthersStandBehind ==
    ASSUME IInv, [Next]_vars, ~ Work, NEW i \in DOMAIN queue
    PROVE  i \in DOMAIN queue' /\ queue'[i].owner = queue[i].owner /\ Ahead(i)' = Ahead(i)
<1>1. /\ queue \in Seq(Entries) /\ i \in Nat /\ i >= 1
      /\ DOMAIN queue = 1 .. Len(queue) /\ Len(queue) \in Nat
  BY EntryType, LenProperties DEF IInv
<1>2. CASE queue' = queue
  BY <1>2 DEF Ahead
<1>3. ASSUME NEW owner \in Owners, queue' = Append(queue, Refresh(owner))
      PROVE  i \in DOMAIN queue' /\ queue'[i].owner = queue[i].owner /\ Ahead(i)' = Ahead(i)
  <2>1. Refresh(owner) \in Entries
    BY DEF Entries, Owners, Refresh
  <2>2. /\ DOMAIN queue' = 1 .. Len(queue) + 1
        /\ \A k \in 1 .. Len(queue) : queue'[k] = queue[k]
    BY <1>1, <1>3, <2>1, AppendProperties, LenProperties
  <2>3. i \in DOMAIN queue' /\ queue'[i] = queue[i] /\ queue'[1] = queue[1]
    BY <1>1, <2>2
  <2> QED
    BY <2>3 DEF Ahead
<1>4. queue' = queue \/ \E owner \in Owners : queue' = Append(queue, Refresh(owner))
  BY DEF Next, ChangeConfig, Destroy, Health, Owners, vars
<1> QED
  BY <1>2, <1>3, <1>4

\* The safety half of EveryCheckAnswered: what a fair chain does about a check
\* that waits is never undone (refreshQueue, health, readiness).
THEOREM ChecksAdvance == Spec => ChecksComeCloser
<1> DEFINE Closer(i) ==
             LET h == queue[i].owner
             IN  h \in Checks =>
                   \/ report[h] = NoReport /\ report'[h] \in Reports
                   \/ \E j \in DOMAIN queue' :
                         /\ queue'[j].owner = h
                         /\ Ahead(j)' <= Ahead(i)
                         /\ Work => Ahead(j)' < Ahead(i)
<1>1. ASSUME IInv, NoneAnsweredTwice, [Next]_vars, NEW i \in DOMAIN queue PROVE Closer(i)
  <2>1. SUFFICES ASSUME queue[i].owner \in Checks PROVE Closer(i)
    OBVIOUS
  <2>2. i \in Int /\ \A j \in DOMAIN queue' : j \in Int
    <3>1. queue \in Seq(Entries)
      BY <1>1 DEF IInv, TypeOK, Entries, Owners
    <3>2. queue' \in Seq(Entries)
      BY <1>1, NextIInv DEF IInv, TypeOK, Entries, Owners
    <3> QED
      BY <3>1, <3>2, LenProperties
  <2>3. Ahead(i) \in Int /\ \A j \in DOMAIN queue' : Ahead(j)' \in Int
    BY <2>2 DEF Ahead
  <2>4. CASE Work
    BY <1>1, <2>1, <2>3, <2>4, WorkBringsCloser
  <2>5. CASE ~ Work
    BY <1>1, <2>1, <2>3, <2>5, OthersStandBehind
  <2> QED
    BY <2>4, <2>5
<1>2. Init => NoneAnsweredTwice
  BY DEF Init, NoneAnsweredTwice, Refresh
<1>3. IInv /\ NoneAnsweredTwice /\ [Next]_vars => NoneAnsweredTwice'
  BY AnswersAreFirst
<1>4. Spec => []NoneAnsweredTwice
  BY <1>2, <1>3, Inductive, PTL DEF Spec
<1>5. IInv /\ NoneAnsweredTwice /\ [Next]_vars => [\A i \in DOMAIN queue : Closer(i)]_vars
  BY <1>1
<1> QED
  BY <1>4, <1>5, Inductive, PTL DEF Spec, ChecksComeCloser
=============================================================================
