-------------------------- MODULE NacosMigrationProofs --------------------------
(***************************************************************************)
(* The migration of gateway.routes for any number of runs, edits and       *)
(* entries.                                                                *)
(*                                                                         *)
(* First the rewriting of one text: what an Ensure call leaves and adds    *)
(* (Grown), that a second rewriting finds nothing to do (MigrateTwice) and *)
(* that it keeps a usable list usable (MigrateKeepsUsable).  Then the      *)
(* runs: what is published is the rewriting of what was read, and a copy   *)
(* that no edit has outdated has what the operator wrote (IInv).           *)
(***************************************************************************)
EXTENDS NacosMigration, FiniteSetTheorems, SequenceTheorems, TLAPS

-----------------------------------------------------------------------------
(* Sequences of entries                                                     *)

\* The set of a sequence, by places.
LEMMA InToSet ==
    ASSUME NEW s, NEW e
    PROVE  e \in Seqs!ToSet(s) <=> \E i \in DOMAIN s : s[i] = e
BY DEF Seqs!ToSet

\* Which places of a sequence are left when one is removed.
LEMMA RemoveAtPlaces ==
    ASSUME NEW S, NEW s \in Seq(S), NEW k \in 1 .. Len(s)
    PROVE  /\ Seqs!RemoveAt(s, k) \in Seq(S)
           /\ Len(Seqs!RemoveAt(s, k)) = Len(s) - 1
           /\ \A i \in 1 .. Len(s) - 1 :
                 Seqs!RemoveAt(s, k)[i] = IF i < k THEN s[i] ELSE s[i + 1]
<1> DEFINE a == SubSeq(s, 1, k - 1)
           b == SubSeq(s, k + 1, Len(s))
<1>1. Len(s) \in Nat /\ k \in Nat /\ k >= 1 /\ k <= Len(s)
  BY LenProperties
<1>2. /\ a \in Seq(S) /\ Len(a) = k - 1
      /\ \A i \in 1 .. k - 1 : a[i] = s[i]
  <2>1. \A i \in 1 .. k - 1 : s[i] \in S
    BY <1>1, ElementOfSeq
  <2> QED
    BY <1>1, <2>1, SubSeqProperties
<1>3. /\ b \in Seq(S) /\ Len(b) = Len(s) - k
      /\ \A i \in 1 .. Len(s) - k : b[i] = s[k + i]
  <2>1. \A i \in k + 1 .. Len(s) : s[i] \in S
    BY <1>1, ElementOfSeq
  <2> QED
    BY <1>1, <2>1, SubSeqProperties
<1> HIDE DEF a, b
<1>4. /\ a \o b \in Seq(S) /\ Len(a \o b) = Len(s) - 1
      /\ \A i \in 1 .. Len(s) - 1 : (a \o b)[i] = IF i <= k - 1 THEN a[i] ELSE b[i - (k - 1)]
  <2>1. /\ a \o b \in Seq(S)
        /\ Len(a \o b) = Len(a) + Len(b)
        /\ \A i \in 1 .. Len(a) + Len(b) : (a \o b)[i] = IF i <= Len(a) THEN a[i] ELSE b[i - Len(a)]
    BY <1>2, <1>3, ConcatProperties
  <2>2. Len(a) + Len(b) = Len(s) - 1 /\ Len(a) = k - 1
    BY <1>1, <1>2, <1>3
  <2> QED
    BY <2>1, <2>2
<1>5. ASSUME NEW i \in 1 .. Len(s) - 1
      PROVE  (a \o b)[i] = IF i < k THEN s[i] ELSE s[i + 1]
  <2>1. CASE i < k
    BY <1>1, <1>2, <1>4, <2>1
  <2>2. CASE ~ (i < k)
    <3>1. /\ i - (k - 1) \in 1 .. Len(s) - k
          /\ k + (i - (k - 1)) = i + 1
          /\ ~ (i < k) /\ ~ (i <= k - 1)
      BY <1>1, <2>2
    <3>2. (a \o b)[i] = b[i - (k - 1)]
      BY <1>4, <3>1
    <3>3. b[i - (k - 1)] = s[i + 1]
      BY <1>3, <3>1, Zenon
    <3> QED
      BY <3>1, <3>2, <3>3
  <2> QED
    BY <2>1, <2>2
<1> QED
  BY <1>4, <1>5 DEF a, b, Seqs!RemoveAt

\* Removing one place keeps the entries of the others.
LEMMA RemoveAtKeepsOthers ==
    ASSUME NEW S, NEW s \in Seq(S), NEW k \in DOMAIN s, NEW j \in DOMAIN s, j # k
    PROVE  s[j] \in Seqs!ToSet(Seqs!RemoveAt(s, k))
<1>1. Len(s) \in Nat /\ DOMAIN s = 1 .. Len(s)
  BY LenProperties
<1> DEFINE t == Seqs!RemoveAt(s, k)
<1>2. /\ t \in Seq(S) /\ Len(t) = Len(s) - 1
      /\ \A i \in 1 .. Len(s) - 1 : t[i] = IF i < k THEN s[i] ELSE s[i + 1]
  BY <1>1, RemoveAtPlaces
<1>3. DOMAIN t = 1 .. Len(s) - 1
  BY <1>2, LenProperties
<1> HIDE DEF t
<1>4. CASE j < k
  <2>1. j \in DOMAIN t /\ t[j] = s[j]
    BY <1>1, <1>2, <1>3, <1>4
  <2> QED
    BY <2>1, InToSet DEF t
<1>5. CASE j > k
  <2>1. j - 1 \in DOMAIN t /\ t[j - 1] = s[j]
    BY <1>1, <1>2, <1>3, <1>5
  <2> QED
    BY <2>1, InToSet DEF t
<1> QED
  BY <1>1, <1>4, <1>5

-----------------------------------------------------------------------------
(* The routes of the script                                                 *)

\* The nine routes have ids of their own and prefixes the gateway accepts,
\* none of which is the old finance prefix.
LEMMA RequiredFacts ==
    /\ DOMAIN RequiredRoutes = 1 .. 9
    /\ \A p, q \in 1 .. 9 : p # q => RequiredRoutes[p].id # RequiredRoutes[q].id
    /\ \A p \in 1 .. 9 : /\ IsRoutePrefix(RequiredRoutes[p].prefix)
                         /\ RequiredRoutes[p].prefix # OldFinance
                         /\ Inserted(RequiredRoutes[p]) \in Entry
<1>1. DOMAIN RequiredRoutes = 1 .. 9
  BY DEF RequiredRoutes
<1>2. \A p, q \in 1 .. 9 : p # q => RequiredRoutes[p].id # RequiredRoutes[q].id
  BY DEF RequiredRoutes
<1>3. \A p \in 1 .. 9 : RequiredRoutes[p].prefix \in
                           {"api", "feign"} \X {"crm", "skyline", "auth", "finance", "srm", "task"}
  BY DEF RequiredRoutes
<1>4. ASSUME NEW p \in {"api", "feign"} \X {"crm", "skyline", "auth", "finance", "srm", "task"}
      PROVE  IsRoutePrefix(p) /\ p # OldFinance
  <2>1. Len(p) = 2 /\ p[1] \in {"api", "feign"} /\ p[2] # ""
    OBVIOUS
  <2>2. p # OldFinance
    BY DEF OldFinance
  <2>3. \A n : n = 2 => n >= 2
    OBVIOUS
  <2>4. Len(p) >= 2 /\ p[Len(p)] # ""
    BY <2>1, <2>3, Zenon
  <2> QED
    BY <2>1, <2>2, <2>4, Zenon DEF IsRoutePrefix
<1>5. ASSUME NEW p \in 1 .. 9 PROVE Inserted(RequiredRoutes[p]) \in Entry
  BY <1>1, <1>5, MigrationAssumption DEF Inserted, Entry
<1> QED
  BY <1>1, <1>2, <1>3, <1>4, <1>5

-----------------------------------------------------------------------------
(* Renaming, and dropping the old block                                     *)

\* An entry that shows the old finance prefix is the one that is renamed.
ShowsOld(e) == e.form # "flow" /\ e.prefix = OldFinance

\* Renaming keeps the id and the form, and is done once.
LEMMA RenameFacts ==
    ASSUME NEW e \in Entry
    PROVE  /\ RenameFinance(e) \in Entry
           /\ RenameFinance(e).id = e.id /\ RenameFinance(e).form = e.form
           /\ ~ ShowsOld(RenameFinance(e))
           /\ RenameFinance(e).prefix = IF ShowsOld(e) THEN Finance ELSE e.prefix
           /\ ~ ShowsOld(e) => RenameFinance(e) = e
           /\ RenameFinance(RenameFinance(e)) = RenameFinance(e)
<1>1. Finance # OldFinance
  <2>1. Len(Finance) = 2 /\ Len(OldFinance) = 3
    BY DEF Finance, OldFinance
  <2> QED
    BY <2>1
<1>2. Finance \in Paths
  BY MigrationAssumption
<1>3. CASE ShowsOld(e)
  <2> DEFINE f == [e EXCEPT !.prefix = Finance]
  <2>1. f \in Entry /\ f.id = e.id /\ f.form = e.form /\ f.prefix = Finance
    BY <1>2 DEF Entry
  <2>2. RenameFinance(e) = f
    BY <1>3 DEF RenameFinance, ShowsOld
  <2> HIDE DEF f
  <2>3. RenameFinance(f) = f
    BY <1>1, <2>1 DEF RenameFinance
  <2> QED
    BY <1>1, <1>3, <2>1, <2>2, <2>3 DEF ShowsOld
<1>4. CASE ~ ShowsOld(e)
  <2>1. RenameFinance(e) = e
    BY <1>4 DEF RenameFinance, ShowsOld
  <2> QED
    BY <1>4, <2>1
<1> QED
  BY <1>3, <1>4

\* Renaming goes entry by entry.
LEMMA RenamedFacts ==
    ASSUME NEW s \in Seq(Entry)
    PROVE  /\ Renamed(s) \in Seq(Entry) /\ DOMAIN Renamed(s) = DOMAIN s /\ Len(Renamed(s)) = Len(s)
           /\ \A i \in DOMAIN s : s[i] \in Entry /\ Renamed(s)[i] = RenameFinance(s[i])
           /\ LegacySkylines(Renamed(s)) = LegacySkylines(s)
<1>1. Len(s) \in Nat /\ DOMAIN s = 1 .. Len(s) /\ \A i \in DOMAIN s : s[i] \in Entry
  BY LenProperties, ElementOfSeq
<1>2. DOMAIN Renamed(s) = DOMAIN s /\ \A i \in DOMAIN s : Renamed(s)[i] = RenameFinance(s[i])
  BY DEF Renamed
<1>3. Renamed(s) \in [1 .. Len(s) -> Entry]
  BY <1>1, RenameFacts DEF Renamed
<1>4. Renamed(s) \in Seq(Entry)
  BY <1>1, <1>3, SeqDef
<1>5. Len(Renamed(s)) = Len(s)
  BY <1>1, <1>3
<1>6. \A i \in DOMAIN s : Renamed(s)[i].form = s[i].form
  BY <1>1, <1>2, RenameFacts
<1> QED
  BY <1>1, <1>2, <1>4, <1>5, <1>6 DEF LegacySkylines

\* Of a list with one old block at most, nothing else is dropped.
LEMMA DropFacts ==
    ASSUME NEW s \in Seq(Entry), AtMostOneLegacy(s)
    PROVE  LET d == DropLegacySkyline(s)
           IN  /\ d \in Seq(Entry)
               /\ \A i \in DOMAIN d : d[i].form # "legacy" /\ \E j \in DOMAIN s : d[i] = s[j]
               /\ \A j \in DOMAIN s : s[j].form # "legacy" => s[j] \in Seqs!ToSet(d)
               /\ LegacySkylines(s) = {} => d = s
<1>1. Len(s) \in Nat /\ DOMAIN s = 1 .. Len(s)
  BY LenProperties
<1>2. CASE LegacySkylines(s) = {}
  BY <1>2, InToSet DEF DropLegacySkyline, LegacySkylines
<1>3. CASE LegacySkylines(s) # {}
  <2> DEFINE k == CHOOSE i \in LegacySkylines(s) : TRUE
             d == Seqs!RemoveAt(s, k)
  <2>1. k \in LegacySkylines(s)
    BY <1>3
  <2>2. DropLegacySkyline(s) = d
    BY <1>3 DEF DropLegacySkyline
  <2> HIDE DEF k
  <2>3. k \in DOMAIN s /\ s[k].form = "legacy"
    BY <2>1 DEF LegacySkylines
  <2>4. \A j \in DOMAIN s : j # k => s[j].form # "legacy"
    BY <2>1 DEF AtMostOneLegacy, LegacySkylines
  <2>5. /\ d \in Seq(Entry) /\ Len(d) = Len(s) - 1
        /\ \A i \in 1 .. Len(s) - 1 : d[i] = IF i < k THEN s[i] ELSE s[i + 1]
    BY <1>1, <2>3, RemoveAtPlaces
  <2>6. \A j \in DOMAIN s : j # k => s[j] \in Seqs!ToSet(d)
    BY <2>3, RemoveAtKeepsOthers
  <2>7. DOMAIN d = 1 .. Len(s) - 1
    BY <2>5, LenProperties
  <2> HIDE DEF d
  <2>8. ASSUME NEW i \in DOMAIN d
        PROVE  d[i].form # "legacy" /\ \E j \in DOMAIN s : d[i] = s[j]
    <3>1. CASE i < k
      <4>1. i \in DOMAIN s /\ i # k /\ d[i] = s[i]
        BY <1>1, <2>3, <2>5, <2>7, <3>1
      <4> QED
        BY <2>4, <4>1
    <3>2. CASE ~ (i < k)
      <4>1. i + 1 \in DOMAIN s /\ i + 1 # k /\ d[i] = s[i + 1]
        BY <1>1, <2>3, <2>5, <2>7, <3>2
      <4> QED
        BY <2>4, <4>1
    <3> QED
      BY <3>1, <3>2
  <2> QED
    BY <1>3, <2>2, <2>3, <2>5, <2>6, <2>8
<1> QED
  BY <1>2, <1>3

-----------------------------------------------------------------------------
(* What the Ensure calls add                                                *)

\* r is kept, followed by some of the first n required routes, each for a prefix
\* that nothing before it shows; all n prefixes are shown.
Grown(kept, r, n) ==
    /\ r \in Seq(Entry) /\ Len(kept) <= Len(r)
    /\ \A i \in 1 .. Len(kept) : r[i] = kept[i]
    /\ \A i \in Len(kept) + 1 .. Len(r) : \E q \in 1 .. n :
          /\ r[i] = Inserted(RequiredRoutes[q])
          /\ \A j \in 1 .. i - 1 : r[j].form # "flow" => r[j].prefix # RequiredRoutes[q].prefix
    /\ \A q \in 1 .. n : Shows(r, RequiredRoutes[q].prefix)

\* One call goes one route further.
LEMMA EnsureGrows ==
    ASSUME NEW kept \in Seq(Entry), NEW r, NEW n \in 0 .. 8, Grown(kept, r, n)
    PROVE  Grown(kept, Ensure(r, n + 1), n + 1)
<1> DEFINE route == RequiredRoutes[n + 1]
           t == Ensure(r, n + 1)
<1>1. /\ r \in Seq(Entry) /\ Len(kept) <= Len(r)
      /\ Len(kept) \in Nat /\ Len(r) \in Nat /\ DOMAIN r = 1 .. Len(r)
  BY LenProperties DEF Grown
<1>2. Inserted(route) \in Entry /\ n + 1 \in 1 .. 9
  BY RequiredFacts
<1>3. CASE Shows(r, route.prefix)
  <2>1. t = r
    BY <1>3 DEF Ensure, EnsureRoute
  <2>2. \A q \in 1 .. n + 1 : q \in 1 .. n \/ q = n + 1
    OBVIOUS
  <2>3. \A q \in 1 .. n : q \in 1 .. n + 1
    OBVIOUS
  <2> HIDE DEF t
  <2>4. Grown(kept, r, n + 1)
    BY <1>3, <2>2, <2>3, Zenon DEF Grown
  <2> QED
    BY <2>1, <2>4, Zenon DEF t
<1>4. CASE ~ Shows(r, route.prefix)
  <2>1. t = Append(r, Inserted(route))
    BY <1>4 DEF Ensure, EnsureRoute
  <2> HIDE DEF t
  <2>2. /\ t \in Seq(Entry) /\ Len(t) = Len(r) + 1
        /\ \A i \in 1 .. Len(r) : t[i] = r[i]
        /\ t[Len(r) + 1] = Inserted(route)
    BY <1>1, <1>2, <2>1, AppendProperties
  <2>3. DOMAIN t = 1 .. Len(r) + 1
    BY <2>2, LenProperties
  <2>4. \A i \in 1 .. Len(kept) : t[i] = kept[i]
    BY <1>1, <2>2 DEF Grown
  <2>5. ASSUME NEW i \in Len(kept) + 1 .. Len(t)
        PROVE  \E q \in 1 .. n + 1 :
                  /\ t[i] = Inserted(RequiredRoutes[q])
                  /\ \A j \in 1 .. i - 1 : t[j].form # "flow" => t[j].prefix # RequiredRoutes[q].prefix
    <3>1. CASE i \in 1 .. Len(r)
      <4>1. PICK q \in 1 .. n :
               /\ r[i] = Inserted(RequiredRoutes[q])
               /\ \A j \in 1 .. i - 1 : r[j].form # "flow" => r[j].prefix # RequiredRoutes[q].prefix
        BY <1>1, <3>1 DEF Grown
      <4>2. /\ q \in 1 .. n + 1 /\ t[i] = r[i]
            /\ \A j \in 1 .. i - 1 : j \in 1 .. Len(r) /\ t[j] = r[j]
        BY <1>1, <2>2, <3>1
      <4> QED
        BY <4>1, <4>2, Zenon
    <3>2. CASE i = Len(r) + 1
      <4>1. \A j \in 1 .. i - 1 : j \in DOMAIN r /\ t[j] = r[j]
        BY <1>1, <2>2, <3>2
      <4>2. \A j \in 1 .. i - 1 : t[j].form # "flow" => t[j].prefix # route.prefix
        BY <1>4, <4>1, Zenon DEF Shows
      <4>3. t[i] = Inserted(route) /\ n + 1 \in 1 .. n + 1
        BY <2>2, <3>2
      <4> QED
        BY <4>2, <4>3
    <3> QED
      BY <1>1, <2>2, <3>1, <3>2
  <2>6. ASSUME NEW q \in 1 .. n + 1 PROVE Shows(t, RequiredRoutes[q].prefix)
    <3>1. CASE q = n + 1
      <4>1. Len(r) + 1 \in DOMAIN t /\ t[Len(r) + 1] = Inserted(route)
        BY <1>1, <2>2, <2>3
      <4>2. Inserted(route).form # "flow" /\ Inserted(route).prefix = route.prefix
        BY DEF Inserted
      <4> QED
        BY <3>1, <4>1, <4>2 DEF Shows
    <3>2. CASE q \in 1 .. n
      <4>1. PICK i \in DOMAIN r : r[i].form # "flow" /\ r[i].prefix = RequiredRoutes[q].prefix
        BY <3>2 DEF Grown, Shows
      <4>2. i \in DOMAIN t /\ t[i] = r[i]
        BY <1>1, <2>2, <2>3
      <4> QED
        BY <4>1, <4>2, Zenon DEF Shows
    <3> QED
      BY <3>1, <3>2
  <2>7. Len(kept) <= Len(t)
    BY <1>1, <2>2
  <2>8. Grown(kept, t, n + 1)
    BY <2>2, <2>4, <2>5, <2>6, <2>7 DEF Grown
  <2> QED
    BY <2>8 DEF t
<1> QED
  BY <1>3, <1>4

\* The nine calls.
LEMMA EnsureAllGrows ==
    ASSUME NEW kept \in Seq(Entry)
    PROVE  Grown(kept, EnsureAll(kept), 9)
<1> DEFINE r1 == Ensure(kept, 1)
           r2 == Ensure(r1, 2)
           r3 == Ensure(r2, 3)
           r4 == Ensure(r3, 4)
           r5 == Ensure(r4, 5)
           r6 == Ensure(r5, 6)
           r7 == Ensure(r6, 7)
           r8 == Ensure(r7, 8)
           r9 == Ensure(r8, 9)
<1>0. EnsureAll(kept) = r9
  BY DEF EnsureAll
<1> HIDE DEF r1, r2, r3, r4, r5, r6, r7, r8, r9
<1>1. Grown(kept, kept, 0)
  BY LenProperties DEF Grown
<1>2. ASSUME NEW r, NEW n \in 0 .. 8, NEW k, k = n + 1, Grown(kept, r, n)
      PROVE  Grown(kept, Ensure(r, k), k)
  BY <1>2, EnsureGrows
<1>3. Grown(kept, r1, 1)
  BY <1>1, <1>2 DEF r1
<1>4. Grown(kept, r2, 2)
  BY <1>3, <1>2 DEF r2
<1>5. Grown(kept, r3, 3)
  BY <1>4, <1>2 DEF r3
<1>6. Grown(kept, r4, 4)
  BY <1>5, <1>2 DEF r4
<1>7. Grown(kept, r5, 5)
  BY <1>6, <1>2 DEF r5
<1>8. Grown(kept, r6, 6)
  BY <1>7, <1>2 DEF r6
<1>9. Grown(kept, r7, 7)
  BY <1>8, <1>2 DEF r7
<1>10. Grown(kept, r8, 8)
  BY <1>9, <1>2 DEF r8
<1>11. Grown(kept, r9, 9)
  BY <1>10, <1>2 DEF r9
<1> QED
  BY <1>0, <1>11

-----------------------------------------------------------------------------
(* Rewriting one text                                                       *)

Kept(s) == DropLegacySkyline(Renamed(s))

\* What is left of the entries of a list before routes are added.
LEMMA KeptFacts ==
    ASSUME NEW s \in Seq(Entry), AtMostOneLegacy(s)
    PROVE  /\ Kept(s) \in Seq(Entry)
           /\ \A i \in DOMAIN Kept(s) :
                 Kept(s)[i].form # "legacy" /\ \E j \in DOMAIN s : Kept(s)[i] = RenameFinance(s[j])
           /\ \A j \in DOMAIN s : s[j].form # "legacy" => RenameFinance(s[j]) \in Seqs!ToSet(Kept(s))
           /\ LegacySkylines(s) = {} => Kept(s) = Renamed(s)
<1>1. /\ Renamed(s) \in Seq(Entry) /\ DOMAIN Renamed(s) = DOMAIN s
      /\ \A i \in DOMAIN s : s[i] \in Entry /\ Renamed(s)[i] = RenameFinance(s[i])
      /\ LegacySkylines(Renamed(s)) = LegacySkylines(s)
  BY RenamedFacts
<1>2. AtMostOneLegacy(Renamed(s))
  BY <1>1 DEF AtMostOneLegacy
<1>3. /\ Kept(s) \in Seq(Entry)
      /\ \A i \in DOMAIN Kept(s) :
            Kept(s)[i].form # "legacy" /\ \E j \in DOMAIN Renamed(s) : Kept(s)[i] = Renamed(s)[j]
      /\ \A j \in DOMAIN Renamed(s) :
            Renamed(s)[j].form # "legacy" => Renamed(s)[j] \in Seqs!ToSet(Kept(s))
      /\ LegacySkylines(Renamed(s)) = {} => Kept(s) = Renamed(s)
  BY <1>1, <1>2, DropFacts DEF Kept
<1>4. \A j \in DOMAIN s : RenameFinance(s[j]).form = s[j].form
  BY <1>1, RenameFacts
<1> QED
  BY <1>1, <1>3, <1>4

\* The routes of a rewritten text: no old block and no old prefix is left, and
\* every required prefix is shown.
LEMMA MigrateRoutesFacts ==
    ASSUME NEW s \in Seq(Entry), AtMostOneLegacy(s)
    PROVE  /\ Grown(Kept(s), MigrateRoutes(s), 9)
           /\ MigrateRoutes(s) \in Seq(Entry)
           /\ \A i \in DOMAIN MigrateRoutes(s) :
                 MigrateRoutes(s)[i].form # "legacy" /\ ~ ShowsOld(MigrateRoutes(s)[i])
           /\ \A q \in 1 .. 9 : Shows(MigrateRoutes(s), RequiredRoutes[q].prefix)
<1> DEFINE t == MigrateRoutes(s)
           k == Kept(s)
<1>1. /\ k \in Seq(Entry)
      /\ \A i \in DOMAIN k : k[i].form # "legacy" /\ \E j \in DOMAIN s : k[i] = RenameFinance(s[j])
  BY KeptFacts
<1>2. Grown(k, t, 9)
  BY <1>1, EnsureAllGrows DEF MigrateRoutes, Kept
<1> HIDE DEF t, k
<1>3. /\ t \in Seq(Entry) /\ Len(k) <= Len(t)
      /\ Len(t) \in Nat /\ DOMAIN t = 1 .. Len(t) /\ Len(k) \in Nat /\ DOMAIN k = 1 .. Len(k)
      /\ \A q \in 1 .. 9 : Shows(t, RequiredRoutes[q].prefix)
  BY <1>1, <1>2, LenProperties DEF Grown
<1>4. ASSUME NEW i \in DOMAIN t PROVE t[i].form # "legacy" /\ ~ ShowsOld(t[i])
  <2>1. CASE i \in 1 .. Len(k)
    <3>1. i \in DOMAIN k /\ t[i] = k[i]
      BY <1>2, <1>3, <2>1 DEF Grown
    <3>2. PICK j \in DOMAIN s : k[i] = RenameFinance(s[j])
      BY <1>1, <3>1
    <3>3. s[j] \in Entry
      BY LenProperties, ElementOfSeq
    <3> QED
      BY <1>1, <3>1, <3>2, <3>3, RenameFacts
  <2>2. CASE i \in Len(k) + 1 .. Len(t)
    <3>1. PICK q \in 1 .. 9 : t[i] = Inserted(RequiredRoutes[q])
      BY <1>2, <2>2 DEF Grown
    <3>2. RequiredRoutes[q].prefix # OldFinance
      BY RequiredFacts
    <3> QED
      BY <3>1, <3>2 DEF Inserted, ShowsOld
  <2> QED
    BY <1>3, <2>1, <2>2
<1> QED
  BY <1>2, <1>3, <1>4 DEF t, k

\* In such routes the script finds nothing to do.
LEMMA NothingToMigrate ==
    ASSUME NEW t \in Seq(Entry),
           \A i \in DOMAIN t : t[i].form # "legacy" /\ ~ ShowsOld(t[i]),
           \A q \in 1 .. 9 : Shows(t, RequiredRoutes[q].prefix)
    PROVE  /\ MigrateRoutes(t) = t
           /\ \A i \in DOMAIN t : RenameFinance(t[i]) = t[i]
<1>1. \A i \in DOMAIN t : RenameFinance(t[i]) = t[i]
  BY LenProperties, ElementOfSeq, RenameFacts
<1>2. Renamed(t) = t
  <2>1. /\ Renamed(t) \in Seq(Entry) /\ Len(Renamed(t)) = Len(t)
        /\ \A i \in DOMAIN t : Renamed(t)[i] = t[i]
    BY <1>1, RenamedFacts
  <2> QED
    BY <2>1, SeqEqual, LenProperties
<1>3. DropLegacySkyline(t) = t
  BY DEF DropLegacySkyline, LegacySkylines
<1>4. \A n \in 1 .. 9 : Ensure(t, n) = t
  BY DEF Ensure, EnsureRoute
<1>5. EnsureAll(t) = t
  BY <1>4 DEF EnsureAll
<1> QED
  BY <1>1, <1>2, <1>3, <1>5 DEF MigrateRoutes

\* The origins of a rewritten text are the ones the script would write.
LEMMA MigrateCorsTwice ==
    ASSUME NEW cors \in Cors \cup {Unset}
    PROVE  /\ MigrateManagerCors(cors) \in Cors
           /\ MigrateManagerCors(cors) # Unset
           /\ "*" \notin MigrateManagerCors(cors).origins
           /\ MigrateManagerCors(MigrateManagerCors(cors)) = MigrateManagerCors(cors)
<1> DEFINE others == IF cors = Unset THEN {} ELSE cors.origins \ {"*"}
           new == [origins |-> {Manager} \cup others, credentials |-> TRUE]
<1>1. MigrateManagerCors(cors) = new
  BY DEF MigrateManagerCors
<1>2. others \subseteq Origins /\ "*" \notin others
  BY DEF Cors
<1> HIDE DEF others
<1>3. Manager # "*"
  BY DEF Manager
<1>4. new \in Cors
  BY <1>2, MigrationAssumption DEF Cors
<1>5. new # Unset
  BY <1>4, MigrationAssumption
<1>6. {Manager} \cup (new.origins \ {"*"}) = {Manager} \cup others
  BY <1>2, <1>3
<1>7. MigrateManagerCors(new) = new
  BY <1>5, <1>6 DEF MigrateManagerCors
<1> QED
  BY <1>1, <1>2, <1>3, <1>4, <1>5, <1>7

GoodYaml(c) == c \in Yaml /\ AtMostOneLegacy(c.routes)

\* The script is idempotent on any text it does not throw for.
LEMMA MigrateTwice ==
    ASSUME NEW c, GoodYaml(c)
    PROVE  /\ GoodYaml(Migrate(c))
           /\ Migrate(Migrate(c)) = Migrate(c)
           /\ Migratable(c) => Migratable(Migrate(c))
           /\ Migrate(c).routes = MigrateRoutes(c.routes)
           /\ Migrate(c).cors = MigrateManagerCors(c.cors)
<1> DEFINE d == Migrate(c)
           t == MigrateRoutes(c.routes)
<1>1. c \in Yaml /\ c.routes \in Seq(Entry) /\ AtMostOneLegacy(c.routes) /\ c.cors \in Cors \cup {Unset}
  BY DEF GoodYaml, Yaml
<1>2. /\ t \in Seq(Entry)
      /\ \A i \in DOMAIN t : t[i].form # "legacy" /\ ~ ShowsOld(t[i])
      /\ \A q \in 1 .. 9 : Shows(t, RequiredRoutes[q].prefix)
  BY <1>1, MigrateRoutesFacts
<1>3. MigrateRoutes(t) = t /\ \A i \in DOMAIN t : RenameFinance(t[i]) = t[i]
  BY <1>2, NothingToMigrate
<1>4. /\ MigrateManagerCors(c.cors) \in Cors
      /\ MigrateManagerCors(MigrateManagerCors(c.cors)) = MigrateManagerCors(c.cors)
  BY <1>1, MigrateCorsTwice
<1>5. AtMostOneLegacy(t)
  BY <1>2 DEF AtMostOneLegacy, LegacySkylines
<1> HIDE DEF t
<1>6. /\ d \in Yaml /\ d.routes = t /\ d.nacos = c.nacos /\ d.cors = MigrateManagerCors(c.cors)
  BY <1>1, <1>2, <1>4 DEF Migrate, Yaml, t
<1> HIDE DEF d
<1>7. Migrate(d) = d
  BY <1>3, <1>4, <1>6 DEF Migrate, Yaml
<1>8. ASSUME Migratable(c) PROVE Migratable(d)
  <2>1. \A r \in Seqs!ToSet(t) : r \in {RenameFinance(e) : e \in Seqs!ToSet(t)}
    BY <1>3, InToSet
  <2>2. /\ Shows(t, Finance)
        /\ ~ \E i \in DOMAIN t : t[i].form # "flow" /\ Under(t[i].prefix, <<"api", "task">>)
        /\ ~ Shows(t, <<"api">>)
    BY <1>8 DEF Migratable, t
  <2> QED
    BY <1>3, <1>6, <2>1, <2>2, Zenon DEF Migratable
<1>9. GoodYaml(d)
  BY <1>5, <1>6 DEF GoodYaml
<1> QED
  BY <1>6, <1>7, <1>8, <1>9 DEF d, t

\* An entry stands in a list, possibly at its new prefix.
Stands(e, routes) == {e, RenameFinance(e)} \cap Seqs!ToSet(routes) # {}

\* A rewriting keeps every entry but the old block.
LEMMA MigrateKeepsEntries ==
    ASSUME NEW c, GoodYaml(c), NEW e \in Entry, e.form # "legacy", Stands(e, c.routes)
    PROVE  Stands(e, Migrate(c).routes)
<1> DEFINE s == c.routes
           t == MigrateRoutes(s)
           k == Kept(s)
<1>1. s \in Seq(Entry) /\ AtMostOneLegacy(s) /\ DOMAIN s = 1 .. Len(s)
  BY LenProperties DEF GoodYaml, Yaml
<1>2. /\ k \in Seq(Entry)
      /\ \A j \in DOMAIN s : s[j].form # "legacy" => RenameFinance(s[j]) \in Seqs!ToSet(k)
  BY <1>1, KeptFacts
<1>3. Grown(k, t, 9)
  BY <1>1, MigrateRoutesFacts
<1>4. Migrate(c).routes = t
  BY MigrateTwice
<1>5. PICK j \in DOMAIN s : s[j] \in {e, RenameFinance(e)}
  BY InToSet DEF Stands
<1> HIDE DEF k, t
<1>6. s[j].form # "legacy" /\ RenameFinance(s[j]) = RenameFinance(e)
  BY <1>5, RenameFacts
<1>7. RenameFinance(e) \in Seqs!ToSet(k)
  BY <1>2, <1>6
<1>8. PICK i \in DOMAIN k : k[i] = RenameFinance(e)
  BY <1>7, InToSet
<1>9. i \in DOMAIN t /\ t[i] = k[i]
  BY <1>2, <1>3, LenProperties DEF Grown
<1>10. RenameFinance(e) \in Seqs!ToSet(t)
  BY <1>8, <1>9, InToSet
<1> QED
  BY <1>4, <1>10 DEF Stands

AllFour(routes) == \A i \in DOMAIN routes : routes[i].form = "four"

\* Renaming keeps a list of routes one, unless both finance prefixes stand in it.
LEMMA RenamedIsRouteList ==
    ASSUME NEW s \in Seq(Entry), AllFour(s), IsRouteList(s), Unclaimed(s)
    PROVE  /\ IsRouteList(Renamed(s)) /\ AllFour(Renamed(s))
           /\ \A i \in DOMAIN Renamed(s), n \in 1 .. 9 :
                 Renamed(s)[i].id = RequiredRoutes[n].id => Renamed(s)[i].prefix = RequiredRoutes[n].prefix
<1> DEFINE k == Renamed(s)
<1>1. DOMAIN k = DOMAIN s /\ \A i \in DOMAIN s : s[i] \in Entry /\ k[i] = RenameFinance(s[i])
  BY RenamedFacts
<1> HIDE DEF k
<1>2. \A i \in DOMAIN s : /\ k[i].id = s[i].id /\ k[i].form = "four"
                          /\ k[i].prefix = IF s[i].prefix = OldFinance THEN Finance ELSE s[i].prefix
  BY <1>1, RenameFacts DEF AllFour, ShowsOld
<1>3. IsRoutePrefix(Finance)
  <2>1. /\ Len(Finance) = 2 /\ Finance[1] = "api" /\ Finance[2] = "finance"
        /\ "api" # "" /\ "finance" # ""
    BY DEF Finance
  <2> QED
    BY <2>1 DEF IsRoutePrefix
<1>4. \A i \in DOMAIN s : IsRoutePrefix(k[i].prefix)
  BY <1>2, <1>3 DEF IsRouteList
<1>5. ASSUME NEW i \in DOMAIN s, NEW j \in DOMAIN s, i # j
      PROVE  k[i].id # k[j].id /\ k[i].prefix # k[j].prefix
  <2>1. s[i].id # s[j].id /\ s[i].prefix # s[j].prefix
    BY <1>5 DEF IsRouteList
  <2>2. ~ (s[i].prefix = OldFinance /\ s[j].prefix = Finance)
    BY DEF Unclaimed
  <2>3. ~ (s[j].prefix = OldFinance /\ s[i].prefix = Finance)
    BY DEF Unclaimed
  <2> QED
    BY <1>2, <2>1, <2>2, <2>3
<1>6. ASSUME NEW i \in DOMAIN s, NEW n \in 1 .. 9, k[i].id = RequiredRoutes[n].id
      PROVE  k[i].prefix = RequiredRoutes[n].prefix
  <2>1. s[i].prefix = RequiredRoutes[n].prefix
    BY <1>2, <1>6, RequiredFacts DEF Unclaimed
  <2>2. RequiredRoutes[n].prefix # OldFinance
    BY RequiredFacts
  <2> QED
    BY <1>2, <2>1, <2>2
<1>7. IsRouteList(k) /\ AllFour(k)
  BY <1>1, <1>2, <1>4, <1>5 DEF IsRouteList, AllFour
<1> QED
  BY <1>1, <1>6, <1>7 DEF k

\* Adding routes under ids and prefixes that are free keeps a list of routes one.
LEMMA GrownIsRouteList ==
    ASSUME NEW k \in Seq(Entry), NEW t, Grown(k, t, 9), IsRouteList(k), AllFour(k),
           \A i \in DOMAIN k, n \in 1 .. 9 :
              k[i].id = RequiredRoutes[n].id => k[i].prefix = RequiredRoutes[n].prefix
    PROVE  IsRouteList(t) /\ AllFour(t)
<1>1. /\ t \in Seq(Entry) /\ DOMAIN t = 1 .. Len(t) /\ Len(t) \in Nat
      /\ DOMAIN k = 1 .. Len(k) /\ Len(k) \in Nat /\ Len(k) <= Len(t)
      /\ \A i \in 1 .. Len(k) : t[i] = k[i]
  BY LenProperties DEF Grown
<1>2. ASSUME NEW i \in DOMAIN t, i \notin DOMAIN k
      PROVE  \E q \in 1 .. 9 :
                /\ t[i] = Inserted(RequiredRoutes[q])
                /\ \A j \in 1 .. i - 1 : t[j].form # "flow" => t[j].prefix # RequiredRoutes[q].prefix
  <2>1. i \in Len(k) + 1 .. Len(t)
    BY <1>1, <1>2
  <2> QED
    BY <2>1 DEF Grown
<1>3. AllFour(t)
  <2>1. ASSUME NEW i \in DOMAIN t, i \in DOMAIN k PROVE t[i].form = "four"
    BY <1>1, <2>1 DEF AllFour
  <2>2. ASSUME NEW i \in DOMAIN t, i \notin DOMAIN k PROVE t[i].form = "four"
    BY <1>2, <2>2 DEF Inserted
  <2> QED
    BY <2>1, <2>2 DEF AllFour
<1>4. \A i \in DOMAIN t : IsRoutePrefix(t[i].prefix)
  <2>1. ASSUME NEW i \in DOMAIN t, i \in DOMAIN k PROVE IsRoutePrefix(t[i].prefix)
    BY <1>1, <2>1 DEF IsRouteList
  <2>2. ASSUME NEW i \in DOMAIN t, i \notin DOMAIN k PROVE IsRoutePrefix(t[i].prefix)
    BY <1>2, <2>2, RequiredFacts DEF Inserted
  <2> QED
    BY <2>1, <2>2
<1>5. ASSUME NEW i \in DOMAIN t, NEW n \in 1 .. 9, t[i].id = RequiredRoutes[n].id
      PROVE  t[i].prefix = RequiredRoutes[n].prefix
  <2>1. CASE i \in DOMAIN k
    BY <1>1, <1>5, <2>1
  <2>2. CASE i \notin DOMAIN k
    <3>1. PICK q \in 1 .. 9 : t[i] = Inserted(RequiredRoutes[q])
      BY <1>2, <2>2
    <3>2. t[i].id = RequiredRoutes[q].id /\ t[i].prefix = RequiredRoutes[q].prefix
      BY <3>1 DEF Inserted
    <3>3. q = n
      BY <1>5, <3>2, RequiredFacts
    <3> QED
      BY <3>2, <3>3
  <2> QED
    BY <2>1, <2>2
<1>6. ASSUME NEW i \in DOMAIN t, NEW j \in DOMAIN t, j < i
      PROVE  t[i].id # t[j].id /\ t[i].prefix # t[j].prefix
  <2>1. CASE i \in DOMAIN k
    <3>1. j \in DOMAIN k /\ i # j
      BY <1>1, <1>6, <2>1
    <3>2. k[i].id # k[j].id /\ k[i].prefix # k[j].prefix
      BY <2>1, <3>1 DEF IsRouteList
    <3> QED
      BY <1>1, <2>1, <3>1, <3>2
  <2>2. CASE i \notin DOMAIN k
    <3>1. PICK q \in 1 .. 9 :
             /\ t[i] = Inserted(RequiredRoutes[q])
             /\ \A x \in 1 .. i - 1 : t[x].form # "flow" => t[x].prefix # RequiredRoutes[q].prefix
      BY <1>2, <2>2
    <3>2. j \in 1 .. i - 1
      BY <1>1, <1>6
    <3>3. t[j].form = "four"
      BY <1>3 DEF AllFour
    <3>4. t[j].prefix # RequiredRoutes[q].prefix
      BY <3>1, <3>2, <3>3
    <3>5. t[i].id = RequiredRoutes[q].id /\ t[i].prefix = RequiredRoutes[q].prefix
      BY <3>1 DEF Inserted
    <3>6. t[j].id # RequiredRoutes[q].id
      BY <1>5, <3>4
    <3> QED
      BY <3>4, <3>5, <3>6
  <2> QED
    BY <2>1, <2>2
<1>7. ASSUME NEW i \in DOMAIN t, NEW j \in DOMAIN t, i # j
      PROVE  t[i].id # t[j].id /\ t[i].prefix # t[j].prefix
  <2>1. i < j \/ j < i
    BY <1>1, <1>7
  <2> QED
    BY <1>6, <2>1
<1> QED
  BY <1>3, <1>4, <1>7 DEF IsRouteList

\* A text the gateway reads is one it reads after the rewriting.
LEMMA MigrateKeepsUsable ==
    ASSUME NEW c, GoodYaml(c), GatewayReads(c), Unclaimed(c.routes), AllFour(c.routes)
    PROVE  GatewayReads(Migrate(c))
<1>1. c.routes \in Seq(Entry) /\ AtMostOneLegacy(c.routes) /\ c.cors \in Cors \cup {Unset}
  BY DEF GoodYaml, Yaml
<1>2. LegacySkylines(c.routes) = {}
  BY DEF LegacySkylines, AllFour
<1>3. Kept(c.routes) = Renamed(c.routes)
  BY <1>1, <1>2, KeptFacts
<1>4. Renamed(c.routes) \in Seq(Entry)
  BY <1>1, RenamedFacts
<1>5. Grown(Renamed(c.routes), MigrateRoutes(c.routes), 9)
  BY <1>1, <1>3, MigrateRoutesFacts
<1>6. IsRouteList(c.routes)
  BY DEF GatewayReads
<1>7. IsRouteList(MigrateRoutes(c.routes)) /\ AllFour(MigrateRoutes(c.routes))
  BY <1>1, <1>4, <1>5, <1>6, RenamedIsRouteList, GrownIsRouteList
<1>8. IsYaml(MigrateRoutes(c.routes))
  BY <1>7 DEF IsYaml, AllFour
<1>9. HasCorsOptions(MigrateManagerCors(c.cors))
  BY <1>1, MigrateCorsTwice DEF HasCorsOptions
<1> QED
  BY <1>7, <1>8, <1>9, MigrateTwice DEF GatewayReads

-----------------------------------------------------------------------------
(* The runs                                                                 *)

Publishing == {m \in Runs : stage[m] = "publishing"}

TypeOK ==
    /\ GoodYaml(content)
    /\ stage \in [Runs -> {"idle", "publishing", "current", "migrated", "failed"}]
    /\ copy \in [Runs -> Yaml \cup {NoContent}]
    /\ stale \subseteq Publishing
    /\ before \in Yaml \cup {NoContent}
    /\ mine \subseteq Entry /\ \A e \in mine : e.form # "legacy"
    /\ overwritten \in BOOLEAN
    /\ edits \in 0 .. MaxEdits

\* A run publishes only what it could rewrite.
CopiesAreMigratable == \A m \in Publishing : GoodYaml(copy[m]) /\ Migratable(copy[m])

\* What stands in Nacos after a publication is the rewriting of what was read.
PublishedIsMigrated ==
    Published => GoodYaml(before) /\ Migratable(before) /\ content = Migrate(before)

\* The published text has what the operator wrote, and so has every copy that no
\* edit has outdated: ManualEntriesSurvive alone says nothing of the copies that
\* will be published.
CopiesKeepEntries ==
    ~ overwritten => \A e \in mine : /\ Stands(e, content.routes)
                                     /\ \A m \in Publishing \ stale : Stands(e, copy[m].routes)

IInv == TypeOK /\ CopiesAreMigratable /\ PublishedIsMigrated /\ CopiesKeepEntries

\* Initially no run has read anything and the operator's entries are those there.
LEMMA InitInductive == Init => IInv
<1> SUFFICES ASSUME Init PROVE IInv
  OBVIOUS
<1>1. GoodYaml(content) /\ content.routes \in Seq(Entry)
  BY MigrationAssumption DEF Init, GoodYaml, Yaml
<1>2. \A e \in Seqs!ToSet(content.routes) : e \in Entry
  BY <1>1, InToSet, LenProperties, ElementOfSeq
<1>3. Publishing = {}
  BY DEF Init, Publishing
<1>4. /\ stage \in [Runs -> {"idle", "publishing", "current", "migrated", "failed"}]
      /\ copy \in [Runs -> Yaml \cup {NoContent}]
      /\ stale \subseteq Publishing /\ before \in Yaml \cup {NoContent} /\ overwritten \in BOOLEAN
  BY DEF Init
<1>5. mine \subseteq Entry /\ \A e \in mine : e.form # "legacy"
  BY <1>2 DEF Init
<1>6. edits \in 0 .. MaxEdits
  BY MigrationAssumption DEF Init
<1>7. TypeOK
  BY <1>1, <1>4, <1>5, <1>6 DEF TypeOK
<1> QED
  BY <1>3, <1>7 DEF Init, IInv, CopiesAreMigratable, PublishedIsMigrated, CopiesKeepEntries, Published,
                    Stands

\* A run reads the text as it stands; only then is it one that publishes.
LEMMA ReadInductive ==
    ASSUME IInv, NEW m \in Runs, Read(m)
    PROVE  IInv'
<1>1. UNCHANGED <<content, stale, before, mine, overwritten, edits>>
  BY DEF Read
<1>2. GoodYaml(content) /\ content \in Yaml
  BY DEF IInv, TypeOK, GoodYaml
<1>3. CASE ~ Migratable(content) \/ Migrate(content) = content
  <2>1. PICK end \in {"current", "failed"} : stage' = [stage EXCEPT ![m] = end] /\ copy' = copy
    BY <1>3 DEF Read
  <2>2. Publishing' = Publishing /\ stage[m] = "idle"
    BY <2>1 DEF Publishing, Read, IInv, TypeOK
  <2>3. TypeOK'
    BY <1>1, <2>1, <2>2 DEF IInv, TypeOK
  <2> QED
    BY <1>1, <2>1, <2>2, <2>3 DEF IInv, CopiesAreMigratable, PublishedIsMigrated, CopiesKeepEntries,
                                  Published
<1>4. CASE ~ (~ Migratable(content) \/ Migrate(content) = content)
  <2>1. /\ stage' = [stage EXCEPT ![m] = "publishing"]
        /\ copy' = [copy EXCEPT ![m] = content]
    BY <1>4 DEF Read
  <2>2. Publishing' = Publishing \cup {m} /\ Publishing \subseteq Runs
    BY <2>1 DEF Publishing, IInv, TypeOK
  <2>3. TypeOK'
    BY <1>1, <1>2, <2>1, <2>2 DEF IInv, TypeOK
  <2>4. copy'[m] = content /\ \A n \in Runs : n # m => copy'[n] = copy[n]
    BY <2>1 DEF IInv, TypeOK
  <2>5. CopiesAreMigratable'
    BY <1>2, <1>4, <2>2, <2>4 DEF IInv, CopiesAreMigratable
  <2>6. CopiesKeepEntries'
    BY <1>1, <2>2, <2>4 DEF IInv, CopiesKeepEntries
  <2> QED
    BY <1>1, <2>3, <2>5, <2>6 DEF IInv, PublishedIsMigrated, Published
<1> QED
  BY <1>3, <1>4

\* Where a run stops publishing, the other copies are as they were.
LEMMA StopsPublishing ==
    ASSUME IInv, NEW m \in Runs, NEW end \in {"idle", "current", "migrated", "failed"},
           stage' = [stage EXCEPT ![m] = end],
           copy' = [copy EXCEPT ![m] = NoContent], stale' = stale \ {m}
    PROVE  /\ Publishing' = Publishing \ {m}
           /\ stage' \in [Runs -> {"idle", "publishing", "current", "migrated", "failed"}]
           /\ copy' \in [Runs -> Yaml \cup {NoContent}]
           /\ stale' \subseteq Publishing'
           /\ CopiesAreMigratable'
           /\ \A n \in Publishing' \ stale' : n \in Publishing \ stale /\ copy'[n] = copy[n]
<1>1. Publishing' = Publishing \ {m}
  BY DEF Publishing, IInv, TypeOK
<1>2. \A n \in Runs : n # m => copy'[n] = copy[n]
  BY DEF IInv, TypeOK
<1>3. Publishing \subseteq Runs
  BY DEF Publishing
<1> QED
  BY <1>1, <1>2, <1>3 DEF IInv, TypeOK, CopiesAreMigratable

\* A publication rewrites the copy, whatever stood there; only an outdated copy
\* can take out what the operator wrote.
LEMMA PublishInductive ==
    ASSUME IInv, NEW m \in Runs, Publish(m)
    PROVE  IInv'
<1>1. m \in Publishing /\ content' = Migrate(copy[m]) /\ before' = copy[m]
  BY DEF Publish, Publishing
<1>2. mine' = mine /\ edits' = edits /\ overwritten' = (overwritten \/ m \in stale)
  BY DEF Publish
<1>3. PICK end \in {"migrated", "failed"} : stage' = [stage EXCEPT ![m] = end]
  BY DEF Publish
<1>4. copy' = [copy EXCEPT ![m] = NoContent] /\ stale' = stale \ {m}
  BY DEF Publish
<1>5. /\ Publishing' = Publishing \ {m}
      /\ stage' \in [Runs -> {"idle", "publishing", "current", "migrated", "failed"}]
      /\ copy' \in [Runs -> Yaml \cup {NoContent}]
      /\ stale' \subseteq Publishing'
      /\ CopiesAreMigratable'
      /\ \A n \in Publishing' \ stale' : n \in Publishing \ stale /\ copy'[n] = copy[n]
  BY <1>3, <1>4, StopsPublishing
<1>6. GoodYaml(copy[m]) /\ Migratable(copy[m])
  BY <1>1 DEF IInv, CopiesAreMigratable
<1>7. GoodYaml(content')
  BY <1>1, <1>6, MigrateTwice
<1>8. TypeOK'
  <2>1. before' \in Yaml
    BY <1>1, <1>6 DEF GoodYaml
  <2>2. overwritten' \in BOOLEAN
    BY <1>2
  <2> QED
    BY <1>2, <1>5, <1>7, <2>1, <2>2 DEF IInv, TypeOK
<1>9. PublishedIsMigrated'
  BY <1>1, <1>6 DEF PublishedIsMigrated
<1>10. CopiesKeepEntries'
  <2> SUFFICES ASSUME ~ overwritten', NEW e \in mine'
               PROVE  /\ Stands(e, content'.routes)
                      /\ \A n \in Publishing' \ stale' : Stands(e, copy'[n].routes)
    BY DEF CopiesKeepEntries
  <2>1. ~ overwritten /\ m \in Publishing \ stale /\ e \in mine
    BY <1>1, <1>2
  <2>2. Stands(e, copy[m].routes) /\ \A n \in Publishing \ stale : Stands(e, copy[n].routes)
    BY <2>1 DEF IInv, CopiesKeepEntries
  <2>3. e \in Entry /\ e.form # "legacy"
    BY <2>1 DEF IInv, TypeOK
  <2>4. Stands(e, content'.routes)
    BY <1>1, <1>6, <2>2, <2>3, MigrateKeepsEntries
  <2> QED
    BY <1>5, <2>2, <2>4
<1> QED
  BY <1>5, <1>8, <1>9, <1>10 DEF IInv

\* A run that is aborted leaves the published text alone.
LEMMA AbortInductive ==
    ASSUME IInv, NEW m \in Runs, Abort(m)
    PROVE  IInv'
<1>1. UNCHANGED <<content, before, mine, overwritten, edits>>
  BY DEF Abort
<1>2. /\ stage' = [stage EXCEPT ![m] = "failed"]
      /\ copy' = [copy EXCEPT ![m] = NoContent] /\ stale' = stale \ {m}
  BY DEF Abort
<1>3. /\ stage' \in [Runs -> {"idle", "publishing", "current", "migrated", "failed"}]
      /\ copy' \in [Runs -> Yaml \cup {NoContent}]
      /\ stale' \subseteq Publishing'
      /\ CopiesAreMigratable'
      /\ \A n \in Publishing' \ stale' : n \in Publishing \ stale /\ copy'[n] = copy[n]
  BY <1>2, StopsPublishing
<1>4. TypeOK'
  BY <1>1, <1>3 DEF IInv, TypeOK
<1>5. PublishedIsMigrated'
  BY <1>1 DEF IInv, PublishedIsMigrated, Published
<1>6. CopiesKeepEntries'
  BY <1>1, <1>3 DEF IInv, CopiesKeepEntries
<1> QED
  BY <1>3, <1>4, <1>5, <1>6 DEF IInv

\* The next deployment starts anew.
LEMMA RerunInductive ==
    ASSUME IInv, NEW m \in Runs, Rerun(m)
    PROVE  IInv'
<1>1. UNCHANGED <<content, copy, stale, before, mine, overwritten, edits>>
  BY DEF Rerun
<1>2. Publishing' = Publishing
  BY DEF Rerun, Publishing, IInv, TypeOK
<1>3. TypeOK'
  BY <1>1, <1>2 DEF Rerun, IInv, TypeOK
<1> QED
  BY <1>1, <1>2, <1>3 DEF IInv, CopiesAreMigratable, PublishedIsMigrated, Published, CopiesKeepEntries

\* An edit outdates every copy, and nothing is the rewriting of what was read.
LEMMA EditInductive ==
    ASSUME IInv, Edited, NEW text \in Yaml, content' = text, AtMostOneLegacy(text.routes),
           mine' \subseteq Entry, \A e \in mine' : e.form # "legacy",
           ~ overwritten => \A e \in mine' : Stands(e, text.routes)
    PROVE  IInv'
<1>1. UNCHANGED <<stage, copy, overwritten>> /\ before' = NoContent /\ stale' = Publishing
  BY DEF Edited, Publishing
<1>2. Publishing' = Publishing
  BY <1>1 DEF Publishing
<1>3. edits' \in 0 .. MaxEdits
  BY MigrationAssumption DEF Edited, IInv, TypeOK
<1>4. GoodYaml(content')
  BY DEF GoodYaml
<1>5. TypeOK'
  BY <1>1, <1>2, <1>3, <1>4 DEF IInv, TypeOK
<1>6. CopiesAreMigratable'
  BY <1>1, <1>2 DEF IInv, CopiesAreMigratable
<1>7. PublishedIsMigrated'
  BY <1>1 DEF PublishedIsMigrated, Published
<1>8. CopiesKeepEntries'
  BY <1>1, <1>2 DEF CopiesKeepEntries
<1> QED
  BY <1>5, <1>6, <1>7, <1>8 DEF IInv

\* The operator adds an entry; it is the operator's from then on.
LEMMA AddInductive ==
    ASSUME IInv, AddEntry
    PROVE  IInv'
<1>1. PICK e \in Pool : /\ content' = [content EXCEPT !.routes = Append(content.routes, e)]
                        /\ mine' = mine \cup {e}
  BY DEF AddEntry
<1> DEFINE s == content.routes
           t == Append(s, e)
           text == [content EXCEPT !.routes = t]
<1>2. e \in Entry /\ e.form # "legacy"
  BY MigrationAssumption
<1>3. content \in Yaml /\ s \in Seq(Entry) /\ AtMostOneLegacy(s) /\ DOMAIN s = 1 .. Len(s) /\ Len(s) \in Nat
  BY LenProperties DEF IInv, TypeOK, GoodYaml, Yaml
<1>4. /\ t \in Seq(Entry) /\ Len(t) = Len(s) + 1 /\ \A i \in 1 .. Len(s) : t[i] = s[i]
      /\ t[Len(s) + 1] = e
  BY <1>2, <1>3, AppendProperties
<1>5. DOMAIN t = 1 .. Len(s) + 1
  BY <1>4, LenProperties
<1> HIDE DEF t
<1>6. text \in Yaml /\ text.routes = t
  BY <1>3, <1>4 DEF Yaml
<1>7. LegacySkylines(t) \subseteq LegacySkylines(s)
  <2> SUFFICES ASSUME NEW i \in DOMAIN t, t[i].form = "legacy" PROVE i \in LegacySkylines(s)
    BY DEF LegacySkylines
  <2>1. i # Len(s) + 1
    BY <1>2, <1>4
  <2>2. i \in DOMAIN s /\ t[i] = s[i]
    BY <1>3, <1>4, <1>5, <2>1
  <2> QED
    BY <2>2 DEF LegacySkylines
<1>8. AtMostOneLegacy(t)
  BY <1>3, <1>7 DEF AtMostOneLegacy
<1>9. \A x : x \in Seqs!ToSet(s) \/ x = e => x \in Seqs!ToSet(t)
  <2>1. \A i \in DOMAIN s : i \in DOMAIN t /\ t[i] = s[i]
    BY <1>3, <1>4, <1>5
  <2>2. Len(s) + 1 \in DOMAIN t
    BY <1>3, <1>5
  <2> QED
    BY <1>4, <2>1, <2>2, InToSet
<1>10. mine' \subseteq Entry /\ \A x \in mine' : x.form # "legacy"
  BY <1>1, <1>2 DEF IInv, TypeOK
<1>11. ~ overwritten => \A x \in mine' : Stands(x, t)
  BY <1>1, <1>9 DEF IInv, CopiesKeepEntries, Stands
<1>12. Edited /\ content' = text
  BY <1>1 DEF AddEntry, t
<1> HIDE DEF text
<1> QED
  BY <1>6, <1>8, <1>10, <1>11, <1>12, EditInductive

\* The operator deletes an entry; the others stay.
LEMMA DeleteInductive ==
    ASSUME IInv, DeleteEntry
    PROVE  IInv'
<1>1. PICK k \in DOMAIN content.routes :
         /\ content' = [content EXCEPT !.routes = Seqs!RemoveAt(content.routes, k)]
         /\ mine' = {e \in mine : content.routes[k] \notin {e, RenameFinance(e)}}
  BY DEF DeleteEntry
<1> DEFINE s == content.routes
           t == Seqs!RemoveAt(s, k)
           text == [content EXCEPT !.routes = t]
<1>2. content \in Yaml /\ s \in Seq(Entry) /\ AtMostOneLegacy(s) /\ DOMAIN s = 1 .. Len(s) /\ Len(s) \in Nat
  BY LenProperties DEF IInv, TypeOK, GoodYaml, Yaml
<1>3. /\ t \in Seq(Entry) /\ Len(t) = Len(s) - 1
      /\ \A i \in 1 .. Len(s) - 1 : t[i] = IF i < k THEN s[i] ELSE s[i + 1]
  BY <1>1, <1>2, RemoveAtPlaces
<1>4. \A j \in DOMAIN s : j # k => s[j] \in Seqs!ToSet(t)
  BY <1>1, <1>2, RemoveAtKeepsOthers
<1>5. DOMAIN t = 1 .. Len(s) - 1
  BY <1>3, LenProperties
<1> HIDE DEF t
<1>6. text \in Yaml /\ text.routes = t
  BY <1>2, <1>3 DEF Yaml
<1> DEFINE from(i) == IF i < k THEN i ELSE i + 1
<1>7. \A i \in DOMAIN t : from(i) \in DOMAIN s /\ t[i] = s[from(i)]
  BY <1>1, <1>2, <1>3, <1>5
<1>8. \A i, j \in DOMAIN t : from(i) = from(j) => i = j
  BY <1>1, <1>2, <1>5
<1> HIDE DEF from
<1>9. \A i \in LegacySkylines(t) : i \in DOMAIN t /\ from(i) \in LegacySkylines(s)
  BY <1>7 DEF LegacySkylines
<1>10. AtMostOneLegacy(t)
  BY <1>2, <1>8, <1>9 DEF AtMostOneLegacy
<1>11. mine' \subseteq Entry /\ \A x \in mine' : x.form # "legacy"
  BY <1>1 DEF IInv, TypeOK
<1>12. ASSUME ~ overwritten, NEW x \in mine' PROVE Stands(x, t)
  <2>1. x \in mine /\ s[k] \notin {x, RenameFinance(x)}
    BY <1>1
  <2>2. Stands(x, s)
    BY <1>12, <2>1 DEF IInv, CopiesKeepEntries
  <2>3. PICK j \in DOMAIN s : s[j] \in {x, RenameFinance(x)}
    BY <2>2, InToSet DEF Stands
  <2>4. j # k
    BY <2>1, <2>3
  <2> QED
    BY <1>4, <2>3, <2>4 DEF Stands
<1>13. Edited /\ content' = text
  BY <1>1 DEF DeleteEntry, t
<1> HIDE DEF text
<1> QED
  BY <1>6, <1>10, <1>11, <1>12, <1>13, EditInductive

\* The invariant of the runs holds whatever they and the operator do.
THEOREM Inductive == Spec => []IInv
<1>1. ASSUME IInv, [Next]_vars PROVE IInv'
  <2>1. CASE AddEntry
    BY <1>1, <2>1, AddInductive
  <2>2. CASE DeleteEntry
    BY <1>1, <2>2, DeleteInductive
  <2>3. ASSUME NEW m \in Runs, Read(m) PROVE IInv'
    BY <1>1, <2>3, ReadInductive
  <2>4. ASSUME NEW m \in Runs, Publish(m) PROVE IInv'
    BY <1>1, <2>4, PublishInductive
  <2>5. ASSUME NEW m \in Runs, Abort(m) PROVE IInv'
    BY <1>1, <2>5, AbortInductive
  <2>6. ASSUME NEW m \in Runs, Rerun(m) PROVE IInv'
    BY <1>1, <2>6, RerunInductive
  <2>7. CASE UNCHANGED vars
    BY <1>1, <2>7 DEF vars, IInv, TypeOK, Publishing, CopiesAreMigratable, PublishedIsMigrated, Published,
                      CopiesKeepEntries
  <2> QED
    BY <1>1, <2>1, <2>2, <2>3, <2>4, <2>5, <2>6, <2>7 DEF Next
<1> QED
  BY <1>1, InitInductive, PTL DEF Spec

\* The published YAML is one, runs hold a copy only while they publish, and an
\* outdated copy is one of those.
THEOREM TypeCorrect == Spec => []TypeOK
<1>1. IInv => TypeOK
  BY DEF IInv
<1> QED
  BY <1>1, Inductive, PTL

\* The script is idempotent: after a publication, and any failed or repeated runs
\* that follow, it finds nothing to do until somebody edits the YAML.
THEOREM NothingLeft == Spec => []NothingLeftToDo
<1>1. IInv => NothingLeftToDo
  <2> SUFFICES ASSUME IInv, Published PROVE Migratable(content) /\ Migrate(content) = content
    BY DEF NothingLeftToDo
  <2>1. GoodYaml(before) /\ Migratable(before) /\ content = Migrate(before)
    BY DEF IInv, PublishedIsMigrated
  <2> QED
    BY <2>1, MigrateTwice
<1> QED
  BY <1>1, Inductive, PTL

\* Only the publication of a copy that an edit has outdated takes out an entry
\* the operator wrote.
THEOREM ManualSurvive == Spec => []ManualEntriesSurvive
<1>1. IInv => ManualEntriesSurvive
  BY DEF IInv, CopiesKeepEntries, ManualEntriesSurvive, Stands
<1> QED
  BY <1>1, Inductive, PTL

\* A YAML of the script's own form that the gateway reads stays one it reads.
THEOREM UsableStays == Spec => []UsableStaysUsable
<1>1. IInv => UsableStaysUsable
  <2> SUFFICES ASSUME IInv, Published, GatewayReads(before), Unclaimed(before.routes),
                      AllFour(before.routes)
               PROVE  GatewayReads(content)
    BY DEF UsableStaysUsable, AllFour
  <2>1. GoodYaml(before) /\ content = Migrate(before)
    BY DEF IInv, PublishedIsMigrated
  <2> QED
    BY <2>1, MigrateKeepsUsable
<1> QED
  BY <1>1, Inductive, PTL

-----------------------------------------------------------------------------
(* Overlapping runs                                                         *)

\* A copy that nothing has outdated is the published text, or what the published
\* text is the rewriting of: another run was faster.
CopiesAreCurrent ==
    ~ overwritten => \A m \in Publishing \ stale : content \in {copy[m], Migrate(copy[m])}

\* A publication turns the text into the rewriting of every copy that is current.
LEMMA PublishKeepsCurrent ==
    ASSUME IInv, CopiesAreCurrent, NEW m \in Runs, Publish(m), ~ overwritten'
    PROVE  /\ m \in Publishing \ stale /\ ~ overwritten
           /\ Migratable(copy[m]) /\ content' = Migrate(copy[m])
           /\ \A n \in Publishing \ stale : content' = Migrate(copy[n])
<1>1. m \in Publishing /\ content' = Migrate(copy[m]) /\ ~ overwritten /\ m \notin stale
  BY DEF Publish, Publishing
<1>2. \A n \in Publishing \ stale : content \in {copy[n], Migrate(copy[n])} /\ GoodYaml(copy[n])
  BY <1>1 DEF IInv, CopiesAreCurrent, CopiesAreMigratable
<1>3. Migrate(copy[m]) = Migrate(content)
  BY <1>1, <1>2, MigrateTwice
<1>4. \A n \in Publishing \ stale : Migrate(copy[n]) = Migrate(content)
  BY <1>2, MigrateTwice
<1>5. Migratable(copy[m])
  BY <1>1 DEF IInv, CopiesAreMigratable
<1> QED
  BY <1>1, <1>3, <1>4, <1>5

\* No step makes a current copy anything else.
LEMMA CurrentInductive ==
    ASSUME IInv, CopiesAreCurrent, [Next]_vars
    PROVE  CopiesAreCurrent'
<1>1. ASSUME stale' = Publishing, stage' = stage PROVE CopiesAreCurrent'
  BY <1>1 DEF CopiesAreCurrent, Publishing
<1>2. CASE AddEntry \/ DeleteEntry
  BY <1>1, <1>2 DEF AddEntry, DeleteEntry, Edited, Publishing
<1>3. ASSUME NEW m \in Runs, Read(m) PROVE CopiesAreCurrent'
  <2>1. content' = content /\ stale' = stale /\ overwritten' = overwritten /\ Publishing \subseteq Runs
    BY <1>3 DEF Read, Publishing
  <2>2. CASE copy' = copy /\ Publishing' = Publishing
    BY <2>1, <2>2 DEF CopiesAreCurrent
  <2>3. CASE copy' = [copy EXCEPT ![m] = content] /\ Publishing' = Publishing \cup {m}
    <3>1. copy'[m] = content /\ \A n \in Runs : n # m => copy'[n] = copy[n]
      BY <2>3 DEF IInv, TypeOK
    <3> QED
      BY <2>1, <2>3, <3>1 DEF CopiesAreCurrent
  <2>4. \/ copy' = copy /\ \E end \in {"current", "failed"} : stage' = [stage EXCEPT ![m] = end]
        \/ copy' = [copy EXCEPT ![m] = content] /\ stage' = [stage EXCEPT ![m] = "publishing"]
    BY <1>3 DEF Read
  <2>5. stage \in [Runs -> {"idle", "publishing", "current", "migrated", "failed"}] /\ stage[m] = "idle"
    BY <1>3 DEF Read, IInv, TypeOK
  <2>6. \/ copy' = copy /\ Publishing' = Publishing
        \/ copy' = [copy EXCEPT ![m] = content] /\ Publishing' = Publishing \cup {m}
    BY <2>4, <2>5 DEF Publishing
  <2> QED
    BY <2>2, <2>3, <2>6
<1>4. ASSUME NEW m \in Runs, Publish(m) PROVE CopiesAreCurrent'
  <2> SUFFICES ASSUME ~ overwritten', NEW n \in Publishing' \ stale'
               PROVE  content' \in {copy'[n], Migrate(copy'[n])}
    BY DEF CopiesAreCurrent
  <2>1. n \in Publishing \ stale /\ copy'[n] = copy[n]
    <3>1. \A x \in Publishing' \ stale' : x \in Publishing \ stale /\ copy'[x] = copy[x]
      BY <1>4, StopsPublishing DEF Publish
    <3> QED
      BY <3>1
  <2>2. content' = Migrate(copy[n])
    BY <1>4, <2>1, PublishKeepsCurrent
  <2> QED
    BY <2>1, <2>2
<1>5. ASSUME NEW m \in Runs, Abort(m) PROVE CopiesAreCurrent'
  <2>1. \A x \in Publishing' \ stale' : x \in Publishing \ stale /\ copy'[x] = copy[x]
    BY <1>5, StopsPublishing DEF Abort
  <2>2. content' = content /\ overwritten' = overwritten
    BY <1>5 DEF Abort
  <2> QED
    BY <2>1, <2>2 DEF CopiesAreCurrent
<1>6. ASSUME NEW m \in Runs, Rerun(m) PROVE CopiesAreCurrent'
  <2>1. Publishing' = Publishing
    BY <1>6 DEF Rerun, Publishing, IInv, TypeOK
  <2> QED
    BY <1>6, <2>1 DEF Rerun, CopiesAreCurrent
<1>7. CASE UNCHANGED vars
  BY <1>7 DEF vars, CopiesAreCurrent, Publishing
<1> QED
  BY <1>2, <1>3, <1>4, <1>5, <1>6, <1>7 DEF Next

\* Runs that overlap act like runs in a row: a step of theirs leaves the text or
\* rewrites the very text it replaces, unless an outdated copy is published.
THEOREM Atomic == Spec => RunsAreAtomic
<1>1. Init => CopiesAreCurrent
  BY DEF Init, CopiesAreCurrent, Publishing
<1>2. ASSUME IInv, CopiesAreCurrent, [Next]_vars, ~ overwritten', edits' = edits
      PROVE  content' = content \/ (Migratable(content) /\ content' = Migrate(content))
  <2>1. CASE AddEntry \/ DeleteEntry
    <3>1. edits' = edits + 1
      BY <2>1 DEF AddEntry, DeleteEntry, Edited
    <3>2. edits \in 0 .. MaxEdits
      BY <1>2 DEF IInv, TypeOK
    <3> QED
      BY <1>2, <3>1, <3>2
  <2>2. ASSUME NEW m \in Runs, Read(m) \/ Abort(m) \/ Rerun(m) PROVE content' = content
    BY <2>2 DEF Read, Abort, Rerun
  <2>3. ASSUME NEW m \in Runs, Publish(m)
        PROVE  content' = content \/ (Migratable(content) /\ content' = Migrate(content))
    <3>1. /\ m \in Publishing \ stale /\ ~ overwritten
          /\ Migratable(copy[m]) /\ content' = Migrate(copy[m])
      BY <1>2, <2>3, PublishKeepsCurrent
    <3>2. content \in {copy[m], Migrate(copy[m])}
      BY <1>2, <3>1 DEF CopiesAreCurrent
    <3> QED
      BY <3>1, <3>2
  <2>4. CASE UNCHANGED vars
    BY <2>4 DEF vars
  <2> QED
    BY <1>2, <2>1, <2>2, <2>3, <2>4 DEF Next
<1>3. IInv /\ CopiesAreCurrent /\ [Next]_vars => CopiesAreCurrent'
  BY CurrentInductive
<1>4. IInv /\ CopiesAreCurrent /\ [Next]_vars
         => [~ overwritten' /\ edits' = edits
               => \/ content' = content
                  \/ Migratable(content) /\ content' = Migrate(content)]_vars
  BY <1>2
<1> QED
  BY <1>1, <1>3, <1>4, Inductive, PTL DEF Spec, RunsAreAtomic
=================================================================================
