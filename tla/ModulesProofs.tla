--------------------------- MODULE ModulesProofs ---------------------------
(***************************************************************************)
(* What the nginx and the fail2ban module promise, for any sites, jails and *)
(* values, any number of calls, edits and faults.  The two have nothing in *)
(* common but that they are modules of suctl.                              *)
(*                                                                         *)
(* Nginx.  That a success is served holds on any disk.  The others depend  *)
(* on what the operator keeps there: ManyHomes, ManyNames, ManyPorts.      *)
(*                                                                         *)
(* Fail2ban.  That a drop-in has its filter holds whatever the operator's  *)
(* files say.  That a switch stands and a restart changes nothing needs    *)
(* PlainFiles.                                                             *)
(***************************************************************************)
EXTENDS Nginx, Fail2ban, SequenceTheorems, WellFoundedInduction, TLAPS

------------------------------------------------------------------------------
\* Nginx.

\* Any block; one of a site file; one of an override file.
AnyBlock  == Blocks(Id \cup {"suctl", "added"}, {"site"} \cup Kind)
SiteBlock == Blocks(Id \cup {"added"}, {"site"})
OverBlock == Blocks({"suctl"}, {"site"} \cup Kind)

\* What is laid over the sites.
Overs(over) == UNION {ToSet(over["maintenance"][f]) \cup ToSet(over["suspended"][f]) : f \in File}

\* Sequence t has the elements of L first, then those of M.
Parted(t, L, M) ==
    \E m \in 0 .. Len(t) :
        /\ \A i \in 1 .. m : t[i] \in L
        /\ \A i \in m + 1 .. Len(t) : t[i] \in M
        /\ \A x \in L : \E i \in 1 .. m : t[i] = x
        /\ \A x \in M : \E i \in m + 1 .. Len(t) : t[i] = x

\* What the theorems assume of the disks suctl may find.
ManyHomes == \A d \in Disks : OneHome(d.available, d.enabled)
ManyNames == \A d \in Disks : NamesAgree(d.available, d.enabled)
ManyPorts == \A d \in Disks : OnEighty(d.available)

\* What the operator had live is live.
OwnInv == own \subseteq Id /\ \A x \in own : \E f \in enabled : \E b \in ToSet(available[f]) : b.id = x

\* The sites: their types, and one home for each.
SitesInv ==
    /\ available \in [File -> Seq(SiteBlock)] /\ enabled \subseteq File
    /\ \A f \in File : \A b \in ToSet(available[f]) : Primary(b) \in File \cup {NoDomain}
    /\ OneHome(available, enabled)
    /\ OwnInv

Told == {"none", "ok", "partial", "refused", "failed", "nothing", "rolledback", "provisioned"}
Step == [step : {"idle", "cert", "reload"}, domain : Domain \cup {NoDomain}]

\* The types of everything else.
RestInv ==
    /\ overrides \in [Kind -> [File -> Seq(OverBlock)]]
    /\ certs \subseteq Domain /\ certbot \subseteq Domain
    /\ broken \in BOOLEAN /\ jobs \in 0 .. MaxJobs
    /\ provision \in Step /\ result \in Told

\* A site that provision has added is suctl's own until provision has ended.
AddedInv ==
    ~Free => /\ provision.domain \in Domain
             /\ \A b \in ToSet(available[provision.domain]) : b.id = "added"

HomeInv == SitesInv /\ RestInv /\ AddedInv

\* Site f is linked, and no rollback takes it away.
Stays(f) == f \in enabled /\ (Free \/ f # provision.domain)

\* What is laid over a site has the names of a site that stays, and on port 80 too.
OverInv ==
    /\ \A o \in Overs(overrides) : \E f \in File : Stays(f) /\ \E b \in ToSet(available[f]) : SameNames(b, o)
    /\ \A k \in Kind, f \in File : \A o \in ToSet(overrides[k][f]) :
           \E c \in ToSet(overrides[k][f]) : 80 \in c.ports /\ SameNames(c, o)

NamesInv == NamesAgree(available, enabled) /\ OverInv

\* Every block that is served and has a name has the port 80.
PortInv == OnEighty(available) /\ \A b \in Overs(overrides) : ~IsOverride(b) => 80 \in b.ports

\* Block b is what certbot makes of block c; the step in which it does.
Like(b, c) == b.names = c.names /\ b.id = c.id /\ b.root = c.root /\ c.ports \subseteq b.ports
Renewed(f, at, d) == available' = [available EXCEPT ![f][at] = Secured(@, d)]

\* A step that writes overrides: each file is left, emptied, or written for a block that
\* is served.
Overlaid ==
    /\ overrides' = [k \in Kind |-> overrides'[k]]
    /\ \A k \in Kind : overrides'[k] = [f \in File |-> overrides'[k][f]]
    /\ \A k \in Kind, f \in File :
           \/ overrides'[k][f] \in {overrides[k][f], <<>>}
           \/ \E i \in Serving : overrides'[k][f] = OverrideOf(k, Tree[i])

\* What a step does to the names of the sites: it brings no new ones, or it loses none
\* of a site that stays.
NoNewNames == Default \in enabled' /\ \A b \in Sites(available', enabled') : \E c \in Sites(available, enabled) : SameNames(b, c)
NoNameLost ==
    \A f \in File : Stays(f) =>
        \A b \in ToSet(available[f]) : \E g \in File : Stays(g)' /\ \E c \in ToSet(available'[g]) : SameNames(c, b)

------------------------------------------------------------------------------
\* Sequences.

LEMMA Smallest == ASSUME NEW I \in SUBSET Nat, I # {} PROVE Min(I) \in I /\ \A j \in I : Min(I) <= j
<1>1. PICK n \in I : \A k \in I : ~ (<<k, n>> \in OpToRel(<, Nat))
  BY NatLessThanWellFounded, WFMin
<1>2. \A k \in I : ~(k < n)
  BY <1>1, Zenon DEF OpToRel
<1>3. \E m \in I : \A k \in I : m <= k
  BY <1>2
<1> QED BY <1>3 DEF Min

LEMMA Largest == ASSUME NEW n \in Nat, NEW I \in SUBSET (1 .. n), I # {} PROVE Max(I) \in I
<1> DEFINE J == {j \in 0 .. n : n - j \in I}
           m == Min(J)
<1>1. J \in SUBSET Nat /\ J # {}
  <2>1. PICK i \in I : TRUE
    OBVIOUS
  <2>2. n - i \in 0 .. n /\ n - (n - i) = i
    BY <2>1
  <2>3. n - i \in J
    BY <2>1, <2>2
  <2>4. \A j \in 0 .. n : j \in Nat
    OBVIOUS
  <2> QED BY <2>3, <2>4
<1>2. m \in J /\ \A j \in J : m <= j
  <2> HIDE DEF J
  <2> QED BY <1>1, Smallest
<1> HIDE DEF m
<1>3. n - m \in I /\ \A i \in I : i <= n - m
  <2> SUFFICES ASSUME NEW i \in I PROVE n - m \in I /\ i <= n - m
    BY <1>2
  <2>1. n - i \in J
    <3>1. n - i \in 0 .. n /\ n - (n - i) = i
      OBVIOUS
    <3> QED BY <3>1
  <2> QED BY <1>2, <2>1
<1> QED BY <1>3 DEF Max

LEMMA JoinedIs ==
    ASSUME NEW S, NEW s \in Seq(S), NEW t \in Seq(S)
    PROVE  s \o t \in Seq(S) /\ ToSet(s \o t) = ToSet(s) \cup ToSet(t)
<1>1. /\ s \o t \in Seq(S) /\ Len(s \o t) = Len(s) + Len(t)
      /\ \A i \in 1 .. Len(s) + Len(t) : (s \o t)[i] = IF i <= Len(s) THEN s[i] ELSE t[i - Len(s)]
  BY ConcatProperties
<1> DEFINE r == s \o t
<1>2. DOMAIN s = 1 .. Len(s) /\ DOMAIN t = 1 .. Len(t) /\ Len(s) \in Nat /\ Len(t) \in Nat /\ DOMAIN r = 1 .. Len(s) + Len(t)
  BY <1>1
<1> HIDE DEF r
<1>3. \A i \in DOMAIN s : i \in DOMAIN r /\ r[i] = s[i]
  BY <1>1, <1>2 DEF r
<1>4. \A i \in DOMAIN t : Len(s) + i \in DOMAIN r /\ r[Len(s) + i] = t[i]
  <2> SUFFICES ASSUME NEW i \in DOMAIN t PROVE Len(s) + i \in DOMAIN r /\ r[Len(s) + i] = t[i]
    OBVIOUS
  <2>1. Len(s) + i \in 1 .. Len(s) + Len(t) /\ ~(Len(s) + i <= Len(s)) /\ Len(s) + i - Len(s) = i
    BY <1>2
  <2> QED BY <1>1, <1>2, <2>1 DEF r
<1>5. \A i \in DOMAIN r : (i \in DOMAIN s /\ r[i] = s[i]) \/ (i - Len(s) \in DOMAIN t /\ r[i] = t[i - Len(s)])
  BY <1>1, <1>2 DEF r
<1>6. ToSet(r) = ToSet(s) \cup ToSet(t)
  BY <1>3, <1>4, <1>5 DEF ToSet
<1> QED BY <1>1, <1>6 DEF r

\* What flattening gives: every element of every sequence, and nothing else.
LEMMA FlattenIs ==
    ASSUME NEW S, NEW n \in Nat, NEW ss \in [1 .. n -> Seq(S)]
    PROVE  /\ FlattenSeq(ss) \in Seq(S)
           /\ ToSet(FlattenSeq(ss)) = UNION {ToSet(ss[i]) : i \in 1 .. n}
<1> DEFINE Upto(k) == UNION {ToSet(ss[i]) : i \in 1 .. k}
           Fits(k) == {s \in Seq(S) : ToSet(s) = Upto(k)}
           Flat(f, k) == \A i \in 1 .. k : f[i] = IF i = 1 THEN ss[i] ELSE f[i - 1] \o ss[i]
           Has(k) == \E f \in [1 .. k -> Seq(S)] : Flat(f, k) /\ \A i \in 1 .. k : ToSet(f[i]) = Upto(i)
           Bad == {k \in 0 .. n : ~Has(k)}
<1>1. Len(ss) = n /\ ss \in Seq(Seq(S))
  OBVIOUS
<1>2. CASE n = 0
  <2>1. ss = <<>>
    BY <1>1, <1>2, EmptySeq
  <2>2. FlattenSeq(ss) = <<>>
    BY <1>1, <1>2, <2>1 DEF FlattenSeq
  <2>3. ToSet(<<>>) = {}
    BY DEF ToSet
  <2> QED BY <1>2, <2>2, <2>3
<1>3. CASE n # 0
  <2>1. Upto(1) = ToSet(ss[1]) /\ \A k \in 2 .. n : Upto(k) = Upto(k - 1) \cup ToSet(ss[k])
    <3>1. 1 .. 1 = {1} /\ \A k \in 2 .. n : 1 .. k = (1 .. k - 1) \cup {k}
      BY <1>3
    <3> QED BY <3>1
  <2>2. \A i \in 1 .. n : ss[i] \in Seq(S)
    OBVIOUS
  <2> HIDE DEF Upto
  <2>3. Bad = {}
    <3> SUFFICES ASSUME NEW x \in Bad PROVE FALSE
      OBVIOUS
    <3>1. Bad \in SUBSET Nat /\ Bad # {}
      <4> HIDE DEF Has
      <4> QED OBVIOUS
    <3> DEFINE k == Min(Bad)
    <3>2. k \in Bad /\ \A j \in Bad : k <= j
      <4> HIDE DEF Bad
      <4> QED BY <3>1, Smallest
    <3> HIDE DEF k
    <3>3. k \in 0 .. n /\ ~Has(k)
      BY <3>2
    <3>4. CASE k = 0
      <4>1. [i \in 1 .. 0 |-> <<>>] \in [1 .. 0 -> Seq(S)] /\ 1 .. 0 = {}
        OBVIOUS
      <4> QED BY <3>3, <3>4, <4>1
    <3>5. CASE k # 0
      <4>1. k - 1 \in 0 .. n /\ k - 1 \notin Bad
        <5>1. k - 1 \in 0 .. n /\ ~(k <= k - 1)
          BY <3>3, <3>5
        <5> HIDE DEF Bad
        <5> QED BY <3>2, <5>1
      <4>2. PICK f \in [1 .. k - 1 -> Seq(S)] : Flat(f, k - 1) /\ \A i \in 1 .. k - 1 : ToSet(f[i]) = Upto(i)
        BY <4>1
      <4> DEFINE e == IF k = 1 THEN ss[k] ELSE f[k - 1] \o ss[k]
                 g == [i \in 1 .. k |-> IF i = k THEN e ELSE f[i]]
      <4>3. e \in Seq(S) /\ ToSet(e) = Upto(k)
        <5>1. CASE k = 1
          BY <2>1, <2>2, <3>3, <5>1
        <5>2. CASE k # 1
          <6>1. k - 1 \in 1 .. k - 1 /\ k \in 2 .. n /\ k \in 1 .. n
            BY <3>3, <3>5, <5>2
          <6>2. f[k - 1] \in Seq(S) /\ ss[k] \in Seq(S) /\ ToSet(f[k - 1]) = Upto(k - 1)
            BY <2>2, <4>2, <6>1
          <6>3. e = f[k - 1] \o ss[k]
            BY <5>2
          <6> HIDE DEF e
          <6>4. f[k - 1] \o ss[k] \in Seq(S) /\ ToSet(f[k - 1] \o ss[k]) = ToSet(f[k - 1]) \cup ToSet(ss[k])
            BY <6>2, JoinedIs
          <6>5. Upto(k) = Upto(k - 1) \cup ToSet(ss[k])
            BY <2>1, <6>1
          <6> QED BY <6>2, <6>3, <6>4, <6>5
        <5> QED BY <5>1, <5>2
      <4>4. \A i \in 1 .. k : i # k => i \in 1 .. k - 1 /\ (i # 1 => i - 1 \in 1 .. k - 1 /\ i - 1 # k)
        BY <3>3, <3>5
      <4>5. k # 1 => k - 1 \in 1 .. k /\ k - 1 # k
        BY <3>3, <3>5
      <4>6. g \in [1 .. k -> Seq(S)]
        <5> HIDE DEF e
        <5> QED BY <4>2, <4>3, <4>4
      <4>7. Flat(g, k)
        <5> SUFFICES ASSUME NEW i \in 1 .. k PROVE g[i] = IF i = 1 THEN ss[i] ELSE g[i - 1] \o ss[i]
          OBVIOUS
        <5>1. CASE i = k
          BY <4>5, <5>1
        <5>2. CASE i # k
          <6>1. f[i] = IF i = 1 THEN ss[i] ELSE f[i - 1] \o ss[i]
            BY <4>2, <4>4, <5>2
          <6>2. g[i] = f[i]
            BY <5>2
          <6>3. i # 1 => g[i - 1] = f[i - 1]
            <7>1. i # 1 => i - 1 \in 1 .. k /\ i - 1 # k
              BY <3>3, <3>5, <4>4, <5>2
            <7> QED BY <7>1
          <6> HIDE DEF g
          <6> QED BY <6>1, <6>2, <6>3
        <5> QED BY <5>1, <5>2
      <4>8. \A i \in 1 .. k : ToSet(g[i]) = Upto(i)
        <5> HIDE DEF e
        <5> QED BY <4>2, <4>3, <4>4
      <4> QED BY <3>3, <4>6, <4>7, <4>8
    <3> QED BY <3>4, <3>5
  <2>4. PICK f \in [1 .. n -> Seq(S)] : Flat(f, n) /\ \A i \in 1 .. n : ToSet(f[i]) = Upto(i)
    <3>1. n \in 0 .. n
      OBVIOUS
    <3>2. Has(n)
      <4> HIDE DEF Has
      <4> QED BY <2>3, <3>1
    <3> QED BY <3>2
  <2> DEFINE Rec(h) == h = [i \in 1 .. n |-> IF i = 1 THEN ss[i] ELSE h[i - 1] \o ss[i]]
             flatten == CHOOSE h : Rec(h)
  <2>5. Rec(f)
    BY <2>4
  <2>6. Rec(flatten)
    BY <2>5
  <2>7. FlattenSeq(ss) = flatten[n]
    BY <1>1, <1>3 DEF FlattenSeq
  <2> HIDE DEF flatten
  <2> DEFINE Off == {k \in 1 .. n : flatten[k] # f[k]}
  <2>8. \A i \in 1 .. n : flatten[i] = IF i = 1 THEN ss[i] ELSE flatten[i - 1] \o ss[i]
    BY <2>6
  <2>9. Off = {}
    <3> SUFFICES ASSUME NEW x \in Off PROVE FALSE
      OBVIOUS
    <3>1. Off \in SUBSET Nat /\ Off # {}
      <4>1. \A k \in 1 .. n : k \in Nat
        OBVIOUS
      <4> QED BY <4>1
    <3> DEFINE k == Min(Off)
    <3>2. k \in Off /\ \A j \in Off : k <= j
      <4> HIDE DEF Off
      <4> QED BY <3>1, Smallest
    <3> HIDE DEF k
    <3>3. k \in 1 .. n /\ flatten[k] # f[k]
      BY <3>2
    <3>4. k # 1
      BY <2>4, <2>8, <3>3
    <3>5. k - 1 \in 1 .. n /\ k - 1 \notin Off
      <4>1. k - 1 \in 1 .. n /\ ~(k <= k - 1)
        BY <3>3, <3>4
      <4> HIDE DEF Off
      <4> QED BY <3>2, <4>1
    <3>6. flatten[k - 1] = f[k - 1]
      BY <3>5
    <3>7. flatten[k] = flatten[k - 1] \o ss[k]
      BY <2>8, <3>3, <3>4
    <3>8. f[k] = f[k - 1] \o ss[k]
      BY <2>4, <3>3, <3>4
    <3> QED BY <3>3, <3>6, <3>7, <3>8
  <2>10. n \in 1 .. n
    BY <1>3
  <2>11. flatten[n] = f[n] /\ f[n] \in Seq(S) /\ ToSet(f[n]) = Upto(n)
    BY <2>4, <2>9, <2>10
  <2> QED BY <2>7, <2>11 DEF Upto
<1> QED BY <1>2, <1>3


LEMMA PartedIs == ASSUME NEW S, NEW s \in Seq(S), NEW t \in Seq(S) PROVE Parted(s \o t, ToSet(s), ToSet(t))
<1> DEFINE r == s \o t
           m == Len(s)
<1>1. /\ Len(r) = m + Len(t)
      /\ \A i \in 1 .. m + Len(t) : r[i] = IF i <= m THEN s[i] ELSE t[i - m]
  BY ConcatProperties
<1>2. DOMAIN s = 1 .. m /\ DOMAIN t = 1 .. Len(t) /\ m \in Nat /\ Len(t) \in Nat
  OBVIOUS
<1> HIDE DEF r, m
<1>3. m \in 0 .. Len(r)
  BY <1>1, <1>2
<1>4. \A i \in 1 .. m : i \in 1 .. m + Len(t) /\ r[i] = s[i]
  BY <1>1, <1>2
<1>5. \A i \in 1 .. Len(t) : m + i \in m + 1 .. Len(r) /\ r[m + i] = t[i]
  <2> SUFFICES ASSUME NEW i \in 1 .. Len(t) PROVE m + i \in m + 1 .. Len(r) /\ r[m + i] = t[i]
    OBVIOUS
  <2>1. m + i \in 1 .. m + Len(t) /\ ~(m + i <= m) /\ m + i - m = i /\ m + i \in m + 1 .. m + Len(t)
    BY <1>2
  <2>2. m + i \in m + 1 .. Len(r)
    BY <1>1, <2>1
  <2>3. r[m + i] = t[i]
    <3> DEFINE j == m + i
    <3>1. j \in 1 .. m + Len(t) /\ ~(j <= m) /\ j - m = i
      BY <1>2, <2>1
    <3> HIDE DEF j
    <3>2. r[j] = t[i]
      BY <1>1, <3>1
    <3> QED BY <3>2 DEF j
  <2> QED BY <2>2, <2>3
<1>6. \A i \in m + 1 .. Len(r) : i - m \in 1 .. Len(t) /\ r[i] = t[i - m]
  BY <1>1, <1>2
<1>7. \A i \in 1 .. m : r[i] \in ToSet(s)
  BY <1>2, <1>4 DEF ToSet
<1>8. \A i \in m + 1 .. Len(r) : r[i] \in ToSet(t)
  BY <1>2, <1>6 DEF ToSet
<1>9. \A x \in ToSet(s) : \E i \in 1 .. m : r[i] = x
  BY <1>2, <1>4 DEF ToSet
<1>10. \A x \in ToSet(t) : \E i \in m + 1 .. Len(r) : r[i] = x
  BY <1>2, <1>5 DEF ToSet
<1>11. Parted(r, ToSet(s), ToSet(t))
  BY <1>3, <1>7, <1>8, <1>9, <1>10 DEF Parted
<1> QED BY <1>11 DEF r

LEMMA ByFile ==
    ASSUME NEW S, NEW h \in [File -> Seq(S)],
           NEW ss \in [DOMAIN Files -> Seq(S)], \A i \in DOMAIN Files : ss[i] = h[Files[i]]
    PROVE  /\ FlattenSeq(ss) \in Seq(S)
           /\ \A x : x \in ToSet(FlattenSeq(ss)) <=> \E f \in File : x \in ToSet(h[f])
<1> DEFINE n == Len(Files)
<1>1. n \in Nat /\ DOMAIN Files = 1 .. n /\ File = {Files[i] : i \in 1 .. n}
  <2>1. Files \in Seq(File)
    BY NginxAssumption
  <2>2. n \in Nat /\ DOMAIN Files = 1 .. n
    BY <2>1
  <2> HIDE DEF n
  <2> QED BY <2>2 DEF File, ToSet
<1>2. ss \in [1 .. n -> Seq(S)] /\ \A i \in 1 .. n : ss[i] = h[Files[i]]
  BY <1>1
<1> HIDE DEF n
<1>3. FlattenSeq(ss) \in Seq(S) /\ ToSet(FlattenSeq(ss)) = UNION {ToSet(ss[i]) : i \in 1 .. n}
  BY <1>1, <1>2, FlattenIs
<1>4. \A x : x \in UNION {ToSet(ss[i]) : i \in 1 .. n} <=> \E f \in File : x \in ToSet(h[f])
  <2>1. \A i \in 1 .. n : Files[i] \in File /\ ss[i] = h[Files[i]]
    BY <1>1, <1>2
  <2>2. \A f \in File : \E i \in 1 .. n : ss[i] = h[f]
    BY <1>1, <1>2
  <2> QED BY <2>1, <2>2
<1> QED BY <1>3, <1>4

\* nginx reads conf.d first, so what lies over the sites comes before them.
LEMMA TreeIs ==
    ASSUME NEW S, NEW avail \in [File -> Seq(S)], NEW over \in [Kind -> [File -> Seq(S)]], NEW links \in SUBSET File
    PROVE  TreeOf(avail, links, over) \in Seq(S) /\ Parted(TreeOf(avail, links, over), Overs(over), Sites(avail, links))
<1> DEFINE here == [f \in File |-> IF f \in links THEN avail[f] ELSE <<>>]
           aa == [i \in DOMAIN Files |-> over["maintenance"][Files[i]]]
           a == FlattenSeq(aa)
           bb == [i \in DOMAIN Files |-> over["suspended"][Files[i]]]
           b == FlattenSeq(bb)
           cc == [i \in DOMAIN Files |-> here[Files[i]]]
           c == FlattenSeq(cc)
<1>0. \A i \in DOMAIN Files : Files[i] \in File
  BY DEF File, ToSet
<1>1. /\ here \in [File -> Seq(S)] /\ over["maintenance"] \in [File -> Seq(S)]
      /\ over["suspended"] \in [File -> Seq(S)]
  BY DEF Kind
<1>2. [i \in DOMAIN Files |-> IF Files[i] \in links THEN avail[Files[i]] ELSE <<>>] = [i \in DOMAIN Files |-> here[Files[i]]]
  BY <1>0
<1>3. TreeOf(avail, links, over) = a \o b \o c
  BY <1>2 DEF TreeOf
<1>4. a \in Seq(S) /\ \A x : x \in ToSet(a) <=> \E f \in File : x \in ToSet(over["maintenance"][f])
  <2>1. aa \in [DOMAIN Files -> Seq(S)] /\ \A i \in DOMAIN Files : aa[i] = over["maintenance"][Files[i]]
    BY <1>0, <1>1
  <2> HIDE DEF aa
  <2> QED BY <1>1, <2>1, ByFile
<1>5. b \in Seq(S) /\ \A x : x \in ToSet(b) <=> \E f \in File : x \in ToSet(over["suspended"][f])
  <2>1. bb \in [DOMAIN Files -> Seq(S)] /\ \A i \in DOMAIN Files : bb[i] = over["suspended"][Files[i]]
    BY <1>0, <1>1
  <2> HIDE DEF bb
  <2> QED BY <1>1, <2>1, ByFile
<1>6. c \in Seq(S) /\ \A x : x \in ToSet(c) <=> \E f \in File : x \in ToSet(here[f])
  <2> HIDE DEF here
  <2>1. cc \in [DOMAIN Files -> Seq(S)] /\ \A i \in DOMAIN Files : cc[i] = here[Files[i]]
    BY <1>0, <1>1
  <2> HIDE DEF cc
  <2> QED BY <1>1, <2>1, ByFile
<1>7. ToSet(c) = Sites(avail, links)
  <2>1. \A x : x \notin ToSet(<<>>)
    BY DEF ToSet
  <2>2. \A f \in File : here[f] = IF f \in links THEN avail[f] ELSE <<>>
    OBVIOUS
  <2> HIDE DEF here, c
  <2>3. \A x : x \in ToSet(c) <=> \E f \in links : x \in ToSet(avail[f])
    BY <1>6, <2>1, <2>2
  <2> QED BY <2>3 DEF Sites
<1> HIDE DEF a, b, c, aa, bb, cc, here
<1>8. a \o b \in Seq(S) /\ ToSet(a \o b) = Overs(over)
  <2>1. a \o b \in Seq(S) /\ ToSet(a \o b) = ToSet(a) \cup ToSet(b)
    BY <1>4, <1>5, JoinedIs
  <2>2. \A x : x \in Overs(over) <=> \E f \in File : x \in ToSet(over["maintenance"][f]) \/ x \in ToSet(over["suspended"][f])
    BY DEF Overs
  <2>3. \A x : x \in ToSet(a \o b) <=> x \in Overs(over)
    BY <1>4, <1>5, <2>1, <2>2
  <2> QED BY <2>1, <2>3
<1>9. (a \o b) \o c \in Seq(S) /\ Parted((a \o b) \o c, ToSet(a \o b), ToSet(c))
  BY <1>6, <1>8, JoinedIs, PartedIs
<1> QED BY <1>3, <1>7, <1>8, <1>9

------------------------------------------------------------------------------
\* What returned success is served.

LEMMA ReloadSound ==
    ASSUME OkIsServed, NEW avail, NEW links, NEW over, ReloadOrPartial(TreeOf(avail, links, over)),
           available' = avail, enabled' = links, overrides' = over
    PROVE  OkIsServed'
<1>1. Tree' = TreeOf(avail, links, over)
  BY DEF Tree
<1> QED BY <1>1 DEF ReloadOrPartial, Reload, OkIsServed

LEMMA RefusedSound == ASSUME NEW why \in {"refused", "failed", "nothing"}, Refused(why) PROVE OkIsServed'
  BY DEF Refused, OkIsServed

LEMMA AddSound == ASSUME OkIsServed, NEW d, NEW www, DomainAdd(d, www) PROVE OkIsServed'
<1>1. CASE Refused("refused") \/ Refused("failed")
  BY <1>1, RefusedSound
<1>2. CASE result' = "failed"
  BY <1>2 DEF OkIsServed
<1>3. CASE UNCHANGED overrides /\ ReloadOrPartial(TreeOf(available', enabled', overrides))
  BY <1>3, ReloadSound
<1> QED BY <1>1, <1>2, <1>3 DEF DomainAdd

LEMMA OverrideSound == ASSUME OkIsServed, NEW kind, NEW files, Override(kind, files) PROVE OkIsServed'
  BY ReloadSound DEF Override

LEMMA OkStep == ASSUME OkIsServed, [NginxNext]_nginxVars PROVE OkIsServed'
<1>1. ASSUME NEW d \in Domain, NEW www \in BOOLEAN, Add(d, www) \/ ProvisionAdd(d, www) PROVE OkIsServed'
  BY <1>1, AddSound DEF Add, ProvisionAdd
<1>2. ASSUME NEW n \in File \ {Default}, NEW k \in Kind, Enable(k, n) \/ Disable(k, n) PROVE OkIsServed'
  BY <1>2, RefusedSound, OverrideSound DEF Enable, Disable
<1>3. ASSUME NEW on \in BOOLEAN, MaintenanceAll(on) PROVE OkIsServed'
  <2>1. Refused("nothing") \/ \E files : Override("maintenance", files)
    BY <1>3 DEF MaintenanceAll
  <2> QED BY <2>1, RefusedSound, OverrideSound
<1>4. ASSUME NEW n \in Domain \cup {NoDomain}, Migrate(n) PROVE OkIsServed'
  <2>1. CASE Refused("refused") \/ Refused("nothing")
    BY <2>1, RefusedSound
  <2>2. CASE UNCHANGED overrides /\ ReloadOrPartial(TreeOf(available', enabled', overrides))
    BY <2>2, ReloadSound
  <2> QED BY <1>4, <2>1, <2>2 DEF Migrate
<1>5. ASSUME NEW n \in Domain \cup {NoDomain}, MigrateFails(n) PROVE OkIsServed'
  BY <1>5 DEF MigrateFails, OkIsServed
<1>6. CASE ReloadOnly
  <2>1. ReloadOrPartial(TreeOf(available, enabled, overrides)) /\ UNCHANGED disk
    BY <1>6 DEF ReloadOnly, Tree
  <2> QED BY <2>1, ReloadSound DEF disk
<1>7. CASE ProvisionCert
  BY <1>7 DEF ProvisionCert, OkIsServed, Tree, disk
<1>8. CASE ProvisionReload
  <2>1. CASE result' = "rolledback"
    BY <2>1 DEF OkIsServed
  <2>2. CASE Valid(Tree, certs) /\ Reload(Tree, certs) /\ UNCHANGED disk
    BY <2>2 DEF OkIsServed, Tree, disk, Reload
  <2> QED BY <1>8, <2>1, <2>2 DEF ProvisionReload
<1>9. CASE ModuleDies \/ OperatorEdits
  BY <1>9 DEF ModuleDies, OperatorEdits, OkIsServed
<1>10. ASSUME NEW d \in Domain, Certify(d) \/ CertRemove(d) PROVE OkIsServed'
  BY <1>10 DEF Certify, CertRemove, OkIsServed
<1>11. CASE UNCHANGED nginxVars
  BY <1>11 DEF nginxVars, disk, OkIsServed, Tree
<1> QED
  BY <1>1, <1>2, <1>3, <1>4, <1>5, <1>6, <1>7, <1>8, <1>9, <1>10, <1>11 DEF NginxNext, Operation

\* Whatever certbot, the operator and a death of the module do in between, a capability
\* that returned success (reloadOrPartial, cmdProvision) leaves nginx with what is on
\* the disk.
THEOREM SuccessIsServed == NginxSpec => []OkIsServed
<1>1. NginxInit => OkIsServed
  BY DEF NginxInit, OkIsServed
<1> QED BY <1>1, OkStep, PTL DEF NginxSpec

------------------------------------------------------------------------------
\* Blocks and trees.

LEMMA SeqInto == ASSUME NEW A, NEW B, A \subseteq B, NEW s \in Seq(A) PROVE s \in Seq(B)
  OBVIOUS

\* The first of a block's own names, one without www. if it has one.
LEMMA PrimaryIs ==
    ASSUME NEW b, b.names \in Seq(Host)
    PROVE  /\ b.names = <<>> <=> Primary(b) = NoDomain
           /\ b.names # <<>> => Primary(b) \in ToSet(b.names) /\ Primary(b) \in Host
<1> DEFINE I == {i \in 1 .. Len(b.names) : b.names[i] \in Domain}
<1>1. SelectInSeq(b.names, LAMBDA n : n \in Domain) = IF I # {} THEN Min(I) ELSE 0
  BY DEF SelectInSeq
<1>2. I \in SUBSET Nat
  OBVIOUS
<1>3. I # {} => Min(I) \in I
  <2> HIDE DEF I
  <2> QED BY <1>2, Smallest
<1>4. \A i \in 1 .. Len(b.names) : i # 0 /\ b.names[i] \in Host /\ b.names[i] \in ToSet(b.names)
  BY DEF ToSet
<1>5. b.names # <<>> => 1 \in 1 .. Len(b.names)
  BY EmptySeq
<1>6. b.names = <<>> => I = {}
  OBVIOUS
<1>7. CASE I # {}
  <2>1. Min(I) \in 1 .. Len(b.names) /\ b.names # <<>>
    BY <1>3, <1>6, <1>7
  <2>2. Primary(b) = b.names[Min(I)]
    <3> DEFINE m == Min(I)
    <3>1. m # 0
      BY <1>4, <2>1
    <3>2. SelectInSeq(b.names, LAMBDA n : n \in Domain) = m
      BY <1>1, <1>7
    <3> HIDE DEF m, I
    <3>3. Primary(b) = b.names[m]
      BY <3>1, <3>2 DEF Primary
    <3> QED BY <3>3 DEF m
  <2> HIDE DEF I
  <2> QED BY <1>4, <2>1, <2>2, NginxAssumption
<1>8. CASE I = {}
  <2>1. Primary(b) = IF b.names # <<>> THEN b.names[1] ELSE NoDomain
    <3> HIDE DEF I
    <3> QED BY <1>1, <1>8 DEF Primary
  <2> HIDE DEF I
  <2> QED BY <1>4, <1>5, <2>1, NginxAssumption
<1> QED BY <1>7, <1>8

LEMMA SiteIs ==
    ASSUME SitesInv, NEW f \in File, NEW b \in ToSet(available[f])
    PROVE  b \in SiteBlock /\ ~IsOverride(b)
<1>1. available[f] \in Seq(SiteBlock)
  BY DEF SitesInv
<1>2. b \in SiteBlock
  BY <1>1 DEF ToSet
<1> QED BY <1>2 DEF SiteBlock, Blocks, IsOverride, Kind

LEMMA OverIs ==
    ASSUME RestInv, NEW b \in Overs(overrides)
    PROVE  b \in OverBlock /\ \E k \in Kind, f \in File : b \in ToSet(overrides[k][f])
<1>1. \E k \in Kind, f \in File : b \in ToSet(overrides[k][f])
  BY DEF Overs, Kind
<1>2. \A k \in Kind, f \in File : overrides[k][f] \in Seq(OverBlock)
  BY DEF RestInv
<1> QED BY <1>1, <1>2 DEF ToSet

LEMMA OverHas == \A k \in Kind, f \in File : \A b \in ToSet(overrides[k][f]) : b \in Overs(overrides)
  BY DEF Overs, Kind

LEMMA BlocksAre == SiteBlock \subseteq AnyBlock /\ OverBlock \subseteq AnyBlock
  BY DEF SiteBlock, OverBlock, AnyBlock, Blocks

LEMMA TreeTyped ==
    ASSUME available \in [File -> Seq(SiteBlock)], enabled \subseteq File, RestInv
    PROVE  Tree \in Seq(AnyBlock) /\ Parted(Tree, Overs(overrides), Sites(available, enabled))
<1>1. available \in [File -> Seq(AnyBlock)]
  <2>1. \A f \in File : available[f] \in Seq(AnyBlock)
    BY BlocksAre, SeqInto
  <2> QED BY <2>1
<1>2. overrides \in [Kind -> [File -> Seq(AnyBlock)]]
  <2>1. \A k \in Kind, f \in File : overrides[k][f] \in Seq(AnyBlock)
    BY BlocksAre, SeqInto DEF RestInv
  <2> QED BY <2>1 DEF RestInv
<1> QED BY <1>1, <1>2, TreeIs DEF Tree

LEMMA TreeHas ==
    ASSUME available \in [File -> Seq(SiteBlock)], enabled \subseteq File, RestInv
    PROVE  /\ DOMAIN Tree = 1 .. Len(Tree) /\ Len(Tree) \in Nat
           /\ \A i \in DOMAIN Tree : Tree[i] \in AnyBlock
           /\ \A i \in DOMAIN Tree : Tree[i] \in Overs(overrides) \cup Sites(available, enabled)
           /\ \A b \in Overs(overrides) \cup Sites(available, enabled) : \E i \in DOMAIN Tree : Tree[i] = b
<1> DEFINE t == Tree
           L == Overs(overrides)
           M == Sites(available, enabled)
<1>1. t \in Seq(AnyBlock) /\ Parted(t, L, M)
  BY TreeTyped
<1> HIDE DEF t, L, M
<1>2. DOMAIN t = 1 .. Len(t) /\ Len(t) \in Nat /\ \A i \in DOMAIN t : t[i] \in AnyBlock
  BY <1>1
<1>3. PICK m \in 0 .. Len(t) :
          /\ \A i \in 1 .. m : t[i] \in L
          /\ \A i \in m + 1 .. Len(t) : t[i] \in M
          /\ \A x \in L : \E i \in 1 .. m : t[i] = x
          /\ \A x \in M : \E i \in m + 1 .. Len(t) : t[i] = x
  BY <1>1 DEF Parted
<1>4. \A i \in 1 .. Len(t) : i \in 1 .. m \/ i \in m + 1 .. Len(t)
  BY <1>2
<1>5. 1 .. m \subseteq 1 .. Len(t) /\ m + 1 .. Len(t) \subseteq 1 .. Len(t)
  BY <1>2
<1>6. \A i \in DOMAIN t : t[i] \in L \cup M
  BY <1>2, <1>3, <1>4
<1>7. \A b \in L \cup M : \E i \in DOMAIN t : t[i] = b
  BY <1>2, <1>3, <1>5
<1> QED BY <1>2, <1>6, <1>7 DEF t, L, M

\* A domain that no block of the tree names has no site that is linked.
LEMMA NotConfigured ==
    ASSUME SitesInv, RestInv, NEW d \in Domain, ~Configured(d)
    PROVE  d \notin enabled /\ \A b \in Sites(available, enabled) : ~Mentions(b, d)
<1>1. ASSUME NEW f \in enabled, NEW b \in ToSet(available[f]) PROVE ~Mentions(b, d)
  <2>1. ~IsOverride(b) /\ b \in Sites(available, enabled)
    BY <1>1, SiteIs DEF SitesInv, Sites
  <2>2. \E i \in DOMAIN Tree : Tree[i] = b
    BY <2>1, TreeHas DEF SitesInv
  <2> QED BY <2>1, <2>2 DEF Configured
<1>2. d # Default
  BY NginxAssumption DEF Host
<1>3. d \notin enabled
  BY <1>1, <1>2 DEF SitesInv, OneHome
<1> QED BY <1>1, <1>3 DEF Sites

------------------------------------------------------------------------------
\* What an operation leaves of the operator's sites.

LEMMA PrimaryNamed ==
    ASSUME NEW b \in SiteBlock
    PROVE  Primary(b) # NoDomain => Primary(b) \in ToSet(b.names) /\ Mentions(b, Primary(b))
<1>1. b.names \in Seq(Host)
  BY DEF SiteBlock, Blocks
<1> QED BY <1>1, PrimaryIs DEF Mentions

LEMMA AddedIs ==
    ASSUME NEW d \in Domain, NEW www \in BOOLEAN
    PROVE  \E b \in SiteBlock :
               /\ AddedFile(d, www) = <<b>> /\ ToSet(AddedFile(d, www)) = {b}
               /\ b.id = "added" /\ Primary(b) = d /\ Mentions(b, d)
               /\ ToSet(b.names) \subseteq {d, Www(d)} /\ 80 \in b.ports /\ b.root = "site"
<1> DEFINE names == IF www THEN <<d, Www(d)>> ELSE <<d>>
           b == Block("added", names, {80})
           I == {i \in 1 .. Len(names) : names[i] \in Domain}
<1>1. names \in Seq(Host) /\ names # <<>> /\ names[1] = d /\ 1 \in 1 .. Len(names) /\ ToSet(names) \subseteq {d, Www(d)} /\ d \in ToSet(names)
  <2>1. d \in Host /\ Www(d) \in Host
    BY DEF Host
  <2>2. CASE www
    <3>1. names = <<d, Www(d)>>
      BY <2>2
    <3>2. names \in Seq(Host) /\ names # <<>> /\ Len(names) = 2 /\ names[1] = d /\ names[2] = Www(d) /\ DOMAIN names = 1 .. 2
      BY <2>1, <3>1
    <3> HIDE DEF names
    <3> QED BY <3>2 DEF ToSet
  <2>3. CASE ~www
    <3>1. names = <<d>>
      BY <2>3
    <3>2. names \in Seq(Host) /\ names # <<>> /\ Len(names) = 1 /\ names[1] = d /\ DOMAIN names = 1 .. 1
      BY <2>1, <3>1
    <3> HIDE DEF names
    <3> QED BY <3>2 DEF ToSet
  <2> QED BY <2>2, <2>3
<1> HIDE DEF names
<1>2. /\ b.names = names /\ b.id = "added" /\ b.ports = {80} /\ b.root = "site" /\ b.cert = NoDomain /\ b.redirect = FALSE
      /\ b \in SiteBlock
  BY <1>1 DEF Block, SiteBlock, Blocks
<1>3. Primary(b) = d
  <2>1. SelectInSeq(names, LAMBDA n : n \in Domain) = IF I # {} THEN Min(I) ELSE 0
    BY DEF SelectInSeq
  <2>2. 1 \in I
    BY <1>1
  <2>3. I \in SUBSET Nat /\ I # {} /\ \A i \in I : i >= 1
    BY <2>2
  <2>4. Min(I) = 1
    <3> DEFINE m == Min(I)
    <3> HIDE DEF I
    <3>1. m \in I /\ \A j \in I : m <= j
      BY <2>3, Smallest
    <3> HIDE DEF m
    <3>2. m \in Nat /\ m <= 1 /\ m >= 1
      BY <2>2, <2>3, <3>1
    <3>3. m = 1
      BY <3>2
    <3> QED BY <3>3 DEF m
  <2>5. SelectInSeq(names, LAMBDA n : n \in Domain) = 1
    BY <2>1, <2>3, <2>4
  <2>6. SelectInSeq(b.names, LAMBDA n : n \in Domain) = 1
    BY <1>2, <2>5
  <2>7. Primary(b) = b.names[1]
    <3> HIDE DEF b
    <3> QED BY <2>6 DEF Primary
  <2> QED BY <1>1, <1>2, <2>7
<1>4. AddedFile(d, www) = <<b>>
  BY DEF AddedFile, names
<1> HIDE DEF b
<1>5. ToSet(<<b>>) = {b}
  BY DEF ToSet
<1>6. Mentions(b, d)
  BY <1>1, <1>2 DEF Mentions
<1>7. ToSet(AddedFile(d, www)) = {b}
  BY <1>4, <1>5
<1> QED BY <1>1, <1>2, <1>3, <1>4, <1>6, <1>7

\* A file that the operation adds, and links or not.
LEMMA AddKeeps ==
    ASSUME SitesInv, RestInv, NEW d \in Domain, NEW www \in BOOLEAN, ~Configured(d),
           available' = [available EXCEPT ![d] = AddedFile(d, www)],
           enabled' \in {enabled \ {d}, enabled \cup {d}}, own' = own
    PROVE  SitesInv' /\ \A b \in ToSet(available'[d]) : b.id = "added"
<1>1. PICK b \in SiteBlock :
          /\ AddedFile(d, www) = <<b>> /\ ToSet(AddedFile(d, www)) = {b}
          /\ b.id = "added" /\ Primary(b) = d /\ Mentions(b, d)
  BY AddedIs
<1>2. d \in File /\ d # Default
  BY NginxAssumption DEF Host
<1>3. d \notin enabled
  BY NotConfigured
<1>4. available \in [File -> Seq(SiteBlock)]
  BY DEF SitesInv
<1>5. available'[d] = <<b>> /\ ToSet(available'[d]) = {b} /\ \A f \in File : f # d => available'[f] = available[f]
  BY <1>1, <1>2, <1>4
<1>6. available' \in [File -> Seq(SiteBlock)]
  <2>1. AddedFile(d, www) \in Seq(SiteBlock)
    BY <1>1
  <2> QED BY <1>2, <1>4, <2>1
<1>7. \A f \in File : \A c \in ToSet(available'[f]) : Primary(c) \in File \cup {NoDomain}
  BY <1>1, <1>2, <1>5 DEF SitesInv
<1>8. OneHome(available', enabled')
  <2>1. available'[Default] = available[Default]
    BY <1>2, <1>5, NginxAssumption
  <2>2. \A f \in enabled' \ {Default} : \E c \in ToSet(available'[f]) : Mentions(c, f)
    <3> SUFFICES ASSUME NEW f \in enabled' \ {Default} PROVE \E c \in ToSet(available'[f]) : Mentions(c, f)
      OBVIOUS
    <3>1. CASE f = d
      BY <3>1, <1>1, <1>5
    <3>2. CASE f # d
      BY <3>2, <1>5 DEF SitesInv, OneHome
    <3> QED BY <3>1, <3>2
  <2> QED BY <2>1, <2>2 DEF SitesInv, OneHome
<1>9. OwnInv'
  BY <1>3, <1>5 DEF SitesInv, OwnInv
<1> QED BY <1>1, <1>2, <1>5, <1>6, <1>7, <1>8, <1>9 DEF SitesInv

\* A site of suctl's own that is taken away.
LEMMA RollKeeps ==
    ASSUME SitesInv, NEW d \in Domain, \A b \in ToSet(available[d]) : b.id = "added",
           available' = [available EXCEPT ![d] = <<>>], enabled' = enabled \ {d}, own' = own
    PROVE  SitesInv'
<1>1. d \in File /\ d # Default
  BY NginxAssumption DEF Host
<1>2. available \in [File -> Seq(SiteBlock)]
  BY DEF SitesInv
<1>3. available'[d] = <<>> /\ \A f \in File : f # d => available'[f] = available[f]
  BY <1>1, <1>2
<1>4. available' \in [File -> Seq(SiteBlock)]
  <2>1. <<>> \in Seq(SiteBlock)
    OBVIOUS
  <2> QED BY <1>1, <1>2, <2>1
<1>5. \A b : b \notin ToSet(<<>>)
  BY DEF ToSet
<1>6. \A f \in File : \A c \in ToSet(available'[f]) : Primary(c) \in File \cup {NoDomain}
  BY <1>3, <1>5 DEF SitesInv
<1>7. OneHome(available', enabled')
  BY <1>1, <1>3, NginxAssumption DEF SitesInv, OneHome
<1>8. OwnInv'
  <2>1. \A x \in own : x # "added"
    BY NginxAssumption DEF SitesInv, OwnInv
  <2>2. ASSUME NEW x \in own PROVE \E f \in enabled \ {d} : \E b \in ToSet(available'[f]) : b.id = x
    <3>1. PICK f \in enabled : \E b \in ToSet(available[f]) : b.id = x
      BY DEF SitesInv, OwnInv
    <3>2. f # d
      BY <2>1, <3>1
    <3> QED BY <1>3, <3>1, <3>2 DEF SitesInv
  <2> QED BY <2>2 DEF SitesInv, OwnInv
<1> QED BY <1>4, <1>6, <1>7, <1>8 DEF SitesInv

\* Where the sites of the default file are moved to: files that are empty.
LEMMA MovedIs ==
    ASSUME SitesInv, NEW only, NEW moving \in SUBSET Movable(only)
    PROVE  /\ Moved(moving) \in [File -> Seq(SiteBlock)]
           /\ \A f \in File :
                  \/ Moved(moving)[f] = available[f] /\ ~\E i \in moving : Primary(Site(i)) = f
                  \/ /\ f # Default /\ ToSet(available[f]) = {}
                     /\ \E i \in moving : /\ Moved(moving)[f] = <<Site(i)>> /\ ToSet(Moved(moving)[f]) = {Site(i)}
                                        /\ Primary(Site(i)) = f
           /\ \A i \in moving : Site(i) \in ToSet(available[Default]) /\ Primary(Site(i)) \in File
           /\ moving \subseteq 1 .. Len(available[Default])
<1> DEFINE s == available[Default]
           n == Len(s)
<1>1. Default \in File /\ s \in Seq(SiteBlock) /\ n \in Nat /\ DOMAIN s = 1 .. n
  BY NginxAssumption DEF SitesInv
<1>2. \A i \in DOMAIN s : Site(i) = s[i] /\ s[i] \in SiteBlock /\ s[i] \in ToSet(s)
  BY <1>1 DEF ToSet, Site
<1>3. \A i \in moving : i \in DOMAIN s /\ Primary(Site(i)) # NoDomain /\ available[Primary(Site(i))] = <<>>
  BY DEF Movable, Targets
<1>4. \A i \in moving : Primary(Site(i)) \in File
  BY <1>1, <1>2, <1>3 DEF SitesInv
<1>5. \A i \in moving : Primary(Site(i)) # Default
  <2>1. DOMAIN <<>> = {}
    OBVIOUS
  <2> QED BY <1>3, <2>1
<1>6. ASSUME NEW f \in File
      PROVE  \/ Moved(moving)[f] = available[f] /\ ~\E i \in moving : Primary(Site(i)) = f
             \/ /\ f # Default /\ available[f] = <<>>
                /\ \E i \in moving : Moved(moving)[f] = <<Site(i)>> /\ Primary(Site(i)) = f
  <2> DEFINE here == {i \in moving : Primary(Site(i)) = f}
  <2>1. Moved(moving)[f] = IF here = {} THEN available[f] ELSE <<Site(Max(here))>>
    BY DEF Moved
  <2>2. CASE here = {}
    BY <2>1, <2>2
  <2>3. CASE here # {}
    <3>1. here \in SUBSET (1 .. n)
      BY <1>1, <1>3
    <3>2. Max(here) \in here
      <4> HIDE DEF here, n
      <4> QED BY <1>1, <2>3, <3>1, Largest
    <3> QED BY <1>3, <1>5, <2>1, <2>3, <3>2
  <2> QED BY <2>2, <2>3
<1>7. \A c : ToSet(<<c>>) = {c}
  BY DEF ToSet
<1>8. ToSet(<<>>) = {}
  BY DEF ToSet
<1>9. \A f \in File : Moved(moving)[f] \in Seq(SiteBlock)
  <2> SUFFICES ASSUME NEW f \in File PROVE Moved(moving)[f] \in Seq(SiteBlock)
    OBVIOUS
  <2>1. available[f] \in Seq(SiteBlock) /\ \A c \in SiteBlock : <<c>> \in Seq(SiteBlock)
    BY DEF SitesInv
  <2>2. \A i \in moving : Site(i) \in SiteBlock
    BY <1>2, <1>3
  <2> QED BY <1>6, <2>1, <2>2
<1>10. Moved(moving) \in [File -> Seq(SiteBlock)]
  BY <1>9 DEF Moved
<1>11. \A i \in moving : Site(i) \in ToSet(s) /\ i \in 1 .. n
  BY <1>1, <1>2, <1>3
<1> QED BY <1>4, <1>6, <1>7, <1>8, <1>10, <1>11

LEMMA KeptIs ==
    ASSUME SitesInv, NEW moving
    PROVE  /\ Kept(moving) \in Seq(SiteBlock)
           /\ \A b : b \in ToSet(Kept(moving)) <=> \E i \in DOMAIN available[Default] \ moving : Site(i) = b
<1> DEFINE s == available[Default]
           n == Len(s)
           ss == [i \in DOMAIN s |-> IF i \in moving THEN <<>> ELSE <<Site(i)>>]
<1>1. s \in Seq(SiteBlock) /\ n \in Nat /\ DOMAIN s = 1 .. n
  BY NginxAssumption DEF SitesInv
<1>2. \A i \in 1 .. n : Site(i) = s[i] /\ s[i] \in SiteBlock
  BY <1>1 DEF Site
<1>3. Kept(moving) = FlattenSeq(ss)
  BY DEF Kept
<1> HIDE DEF n
<1>4. ss \in [1 .. n -> Seq(SiteBlock)]
  <2>1. <<>> \in Seq(SiteBlock) /\ \A c \in SiteBlock : <<c>> \in Seq(SiteBlock)
    OBVIOUS
  <2> QED BY <1>1, <1>2, <2>1
<1>5. \A c : ToSet(<<c>>) = {c}
  BY DEF ToSet
<1>6. ToSet(<<>>) = {}
  BY DEF ToSet
<1>7. \A i \in 1 .. n : ToSet(ss[i]) = IF i \in moving THEN {} ELSE {Site(i)}
  BY <1>1, <1>5, <1>6
<1> HIDE DEF ss
<1>8. FlattenSeq(ss) \in Seq(SiteBlock) /\ ToSet(FlattenSeq(ss)) = UNION {ToSet(ss[i]) : i \in 1 .. n}
  BY <1>1, <1>4, FlattenIs
<1>9. \A b : b \in UNION {ToSet(ss[i]) : i \in 1 .. n} <=> \E i \in 1 .. n : i \notin moving /\ Site(i) = b
  BY <1>7
<1> QED BY <1>1, <1>3, <1>8, <1>9

\* A migration, whole or cut short: what is not kept in the default file has been moved.
LEMMA MoveKeeps ==
    ASSUME SitesInv, NEW only, NEW moving \in SUBSET Movable(only), NEW linked \in SUBSET moving,
           enabled' = Linked(linked), own' = own,
           \/ available' = Moved(moving)
           \/ linked = moving /\ available' = [Moved(moving) EXCEPT ![Default] = Kept(moving)]
    PROVE  SitesInv'
<1> DEFINE a == Moved(moving)
           k == Kept(moving)
<1>1. /\ a \in [File -> Seq(SiteBlock)]
      /\ \A f \in File :
             \/ a[f] = available[f] /\ ~\E i \in moving : Primary(Site(i)) = f
             \/ /\ f # Default /\ ToSet(available[f]) = {}
                /\ \E i \in moving : a[f] = <<Site(i)>> /\ ToSet(a[f]) = {Site(i)} /\ Primary(Site(i)) = f
      /\ \A i \in moving : Site(i) \in ToSet(available[Default]) /\ Primary(Site(i)) \in File
  BY MovedIs
<1>2. k \in Seq(SiteBlock) /\ \A b : b \in ToSet(k) <=> \E i \in DOMAIN available[Default] \ moving : Site(i) = b
  BY KeptIs
<1>3. \A b : b \in ToSet(available[Default]) <=> \E i \in DOMAIN available[Default] : Site(i) = b
  BY DEF ToSet, Site
<1>4. Default \in File
  BY NginxAssumption
<1>5. a[Default] = available[Default]
  BY <1>1, <1>4
<1>6. enabled' = enabled \cup {Primary(Site(i)) : i \in linked}
  BY DEF Linked
<1> HIDE DEF a, k
<1>7. available' = a \/ (linked = moving /\ available' = [a EXCEPT ![Default] = k])
  BY DEF a, k
<1>8. \A f \in File : f # Default => available'[f] = a[f]
  BY <1>1, <1>4, <1>7
<1>9. available' \in [File -> Seq(SiteBlock)] /\ enabled' \subseteq File
  <2>1. [a EXCEPT ![Default] = k] \in [File -> Seq(SiteBlock)]
    BY <1>1, <1>2, <1>4
  <2>2. enabled' \subseteq File
    BY <1>1, <1>6 DEF SitesInv
  <2> QED BY <1>1, <1>7, <2>1, <2>2
<1>10. \A b \in ToSet(available'[Default]) : b \in ToSet(available[Default])
  <2>1. CASE available'[Default] = a[Default]
    BY <1>5, <2>1
  <2>2. CASE available'[Default] = k
    BY <1>2, <1>3, <2>2
  <2> QED BY <1>1, <1>4, <1>7, <2>1, <2>2
<1>11. \A f \in File : \A c \in ToSet(available'[f]) : Primary(c) \in File \cup {NoDomain}
  <2> SUFFICES ASSUME NEW f \in File, NEW c \in ToSet(available'[f]) PROVE Primary(c) \in File \cup {NoDomain}
    OBVIOUS
  <2>1. CASE f = Default
    BY <1>4, <1>10, <2>1 DEF SitesInv
  <2>2. CASE f # Default
    BY <1>1, <1>8, <2>2 DEF SitesInv
  <2> QED BY <2>1, <2>2
<1>12. OneHome(available', enabled')
  <2>1. ASSUME NEW f \in enabled' \ {Default} PROVE \E b \in ToSet(available'[f]) : Mentions(b, f)
    <3>1. f \in File /\ f # Default /\ available'[f] = a[f]
      BY <1>8, <1>9
    <3>2. CASE \E i \in moving : a[f] = <<Site(i)>> /\ ToSet(a[f]) = {Site(i)} /\ Primary(Site(i)) = f
      <4>1. PICK i \in moving : ToSet(a[f]) = {Site(i)} /\ Primary(Site(i)) = f
        BY <3>2
      <4>2. Site(i) \in SiteBlock /\ f # NoDomain
        <5>1. Site(i) \in ToSet(available[Default])
          BY <1>1
        <5>2. f # NoDomain
          BY <3>1, NginxAssumption
        <5> QED BY <1>4, <5>1, <5>2, SiteIs
      <4> QED BY <3>1, <4>1, <4>2, PrimaryNamed
    <3>3. CASE a[f] = available[f] /\ ~\E i \in moving : Primary(Site(i)) = f
      <4>1. f \in enabled
        BY <1>6, <3>3
      <4> QED BY <3>1, <3>3, <4>1 DEF SitesInv, OneHome
    <3> QED BY <1>1, <3>1, <3>2, <3>3
  <2> QED BY <1>10, <2>1 DEF SitesInv, OneHome
<1>13. OwnInv'
  <2>1. ASSUME NEW x \in own PROVE \E f \in enabled' : \E b \in ToSet(available'[f]) : b.id = x
    <3>1. PICK f \in enabled : \E b \in ToSet(available[f]) : b.id = x
      BY DEF SitesInv, OwnInv
    <3>0. PICK b \in ToSet(available[f]) : b.id = x
      BY <3>1
    <3>2. CASE f # Default
      <4>1. f \in File /\ f \in enabled'
        BY <1>6 DEF SitesInv
      <4>2. available'[f] = available[f]
        BY <1>1, <1>8, <3>0, <3>2, <4>1
      <4> QED BY <3>0, <4>1, <4>2
    <3>3. CASE f = Default /\ available'[Default] = a[Default]
      BY <1>5, <1>6, <3>0, <3>3
    <3>4. CASE f = Default /\ linked = moving /\ available'[Default] = k
      <4>1. PICK i \in DOMAIN available[Default] : Site(i) = b
        BY <1>3, <3>0, <3>4
      <4>2. CASE i \notin moving
        BY <1>2, <1>6, <3>0, <3>4, <4>1, <4>2
      <4>3. CASE i \in moving
        <5> DEFINE g == Primary(Site(i))
        <5>1. g \in File /\ g \in enabled' /\ (g # Default => g # NoDomain)
          <6>1. g \in File /\ g \in {Primary(Site(j)) : j \in linked}
            BY <1>1, <3>4, <4>3
          <6> HIDE DEF g
          <6> QED BY <1>6, <6>1, NginxAssumption
        <5>2. PICK j \in moving : ToSet(a[g]) = {Site(j)} /\ Primary(Site(j)) = g /\ g # Default
          BY <1>1, <4>3
        <5>3. Site(j) \in ToSet(available[Default]) /\ Site(i) \in ToSet(available[Default])
          BY <1>1, <4>3
        <5>4. Site(j).id = Site(i).id
          BY <5>1, <5>2, <5>3 DEF SitesInv, OneHome
        <5>5. Site(j) \in ToSet(available'[g])
          <6> HIDE DEF g
          <6> QED BY <1>8, <5>1, <5>2
        <5> HIDE DEF g
        <5> QED BY <3>0, <4>1, <5>1, <5>4, <5>5
      <4> QED BY <4>2, <4>3
    <3>5. available'[Default] = a[Default] \/ (linked = moving /\ available'[Default] = k)
      BY <1>1, <1>4, <1>7
    <3> QED BY <3>2, <3>3, <3>4, <3>5
  <2> QED BY <2>1 DEF SitesInv, OwnInv
<1> QED BY <1>9, <1>11, <1>12, <1>13 DEF SitesInv

\* Certbot changes one block, and of it the ports and the certificate.
LEMMA CertIs ==
    ASSUME SitesInv, NEW f \in enabled, NEW at \in DOMAIN available[f], NEW d \in Domain,
           Renewed(f, at, d)
    PROVE  /\ available' \in [File -> Seq(SiteBlock)]
           /\ \A g \in File :
                  /\ \A b \in ToSet(available'[g]) : \E c \in ToSet(available[g]) : Like(b, c)
                  /\ \A c \in ToSet(available[g]) : \E b \in ToSet(available'[g]) : Like(b, c)
<1> DEFINE s == available[f]
           e == Secured(s[at], d)
           t == [s EXCEPT ![at] = e]
<1>1. available \in [File -> Seq(SiteBlock)] /\ f \in File
  BY DEF SitesInv
<1>2. s \in Seq(SiteBlock) /\ s[at] \in SiteBlock
  BY <1>1
<1>3. e \in SiteBlock /\ Like(e, s[at])
  <2> DEFINE x == s[at]
             p == x.ports \cup {443}
  <2>1. p \in SUBSET Nat /\ d \in Host /\ x.ports \subseteq p
    BY <1>2 DEF Host, SiteBlock, Blocks
  <2>2. x \in SiteBlock
    BY <1>2
  <2>3. e = [x EXCEPT !.ports = p, !.cert = d]
    BY DEF Secured
  <2> HIDE DEF s, e, p, x
  <2>4. x.id \in Id \cup {"added"} /\ x.names \in Seq(Host) /\ x.redirect \in BOOLEAN /\ x.root = "site"
    BY <2>2 DEF SiteBlock, Blocks
  <2>5. e = [id |-> x.id, names |-> x.names, ports |-> p, redirect |-> x.redirect, root |-> x.root, cert |-> d]
    BY <2>2, <2>3 DEF SiteBlock, Blocks
  <2>6. e \in SiteBlock /\ Like(e, x)
    BY <2>1, <2>4, <2>5 DEF SiteBlock, Blocks, Like
  <2> QED BY <2>6 DEF x
<1>4. available' = [available EXCEPT ![f] = t]
  BY <1>1, <1>2 DEF Renewed
<1> HIDE DEF e
<1>5. t \in Seq(SiteBlock) /\ DOMAIN t = DOMAIN s /\ t[at] = e /\ \A i \in DOMAIN s : i # at => t[i] = s[i]
  BY <1>2, <1>3
<1>6. /\ \A b \in ToSet(t) : \E c \in ToSet(s) : Like(b, c)
      /\ \A c \in ToSet(s) : \E b \in ToSet(t) : Like(b, c)
  <2>1. \A b : Like(b, b)
    BY DEF Like
  <2>2. \A i \in DOMAIN s : Like(t[i], s[i])
    BY <1>3, <1>5, <2>1
  <2> HIDE DEF t, s
  <2> QED BY <1>5, <2>2 DEF ToSet
<1> HIDE DEF t
<1>7. available' \in [File -> Seq(SiteBlock)]
  BY <1>1, <1>4, <1>5
<1>8. available'[f] = t /\ \A g \in File : g # f => available'[g] = available[g]
  BY <1>1, <1>4
<1>9. \A b : Like(b, b)
  BY DEF Like
<1> QED BY <1>6, <1>7, <1>8, <1>9

LEMMA LikeIs ==
    ASSUME NEW b, NEW c, Like(b, c)
    PROVE  /\ Primary(b) = Primary(c) /\ ToSet(b.names) = ToSet(c.names) /\ b.id = c.id /\ c.ports \subseteq b.ports
           /\ \A n : Mentions(b, n) <=> Mentions(c, n)
<1>1. b.names = c.names
  BY DEF Like
<1>2. Primary(b) = Primary(c)
  BY <1>1 DEF Primary, SelectInSeq
<1> QED BY <1>1, <1>2 DEF Like, Mentions

LEMMA CertKeeps ==
    ASSUME SitesInv, NEW f \in enabled, NEW at \in DOMAIN available[f], NEW d \in Domain,
           Renewed(f, at, d),
           enabled' = enabled, own' = own
    PROVE  SitesInv'
<1>1. /\ available' \in [File -> Seq(SiteBlock)]
      /\ \A g \in File :
             /\ \A b \in ToSet(available'[g]) : \E c \in ToSet(available[g]) : Like(b, c)
             /\ \A c \in ToSet(available[g]) : \E b \in ToSet(available'[g]) : Like(b, c)
  BY CertIs
<1>2. \A g \in File : \A c \in ToSet(available'[g]) : Primary(c) \in File \cup {NoDomain}
  BY <1>1, LikeIs DEF SitesInv
<1>3. OneHome(available', enabled)
  <2>1. ASSUME NEW g \in enabled \ {Default} PROVE \E b \in ToSet(available'[g]) : Mentions(b, g)
    BY <1>1, LikeIs DEF SitesInv, OneHome
  <2>2. ASSUME NEW b \in ToSet(available'[Default]), NEW c \in ToSet(available'[Default]),
               Primary(b) = Primary(c), Primary(b) # NoDomain
        PROVE  b.id = c.id
    <3>1. PICK x \in ToSet(available[Default]) : Like(b, x)
      BY <1>1, NginxAssumption
    <3>2. PICK y \in ToSet(available[Default]) : Like(c, y)
      BY <1>1, NginxAssumption
    <3>3. Primary(x) = Primary(y) /\ Primary(x) # NoDomain
      BY <2>2, <3>1, <3>2, LikeIs
    <3>4. x.id = y.id
      BY <3>3 DEF SitesInv, OneHome
    <3> QED BY <3>1, <3>2, <3>4, LikeIs
  <2> QED BY <2>1, <2>2 DEF OneHome
<1>4. OwnInv'
  <2>1. ASSUME NEW x \in own PROVE \E g \in enabled : \E b \in ToSet(available'[g]) : b.id = x
    <3>1. PICK g \in enabled : \E c \in ToSet(available[g]) : c.id = x
      BY DEF SitesInv, OwnInv
    <3>0. PICK c \in ToSet(available[g]) : c.id = x
      BY <3>1
    <3>2. g \in File
      BY DEF SitesInv
    <3>3. PICK b \in ToSet(available'[g]) : Like(b, c)
      BY <1>1, <3>0, <3>2
    <3> QED BY <3>0, <3>3, LikeIs
  <2> QED BY <2>1 DEF SitesInv, OwnInv
<1> QED BY <1>1, <1>2, <1>3, <1>4 DEF SitesInv

------------------------------------------------------------------------------
\* What is laid over the sites.

LEMMA ReadIs ==
    ASSUME SitesInv, RestInv, NEW n \in Host, ReadDomain(n) # 0
    PROVE  ReadDomain(n) \in Serving /\ Mentions(Tree[ReadDomain(n)], n)
<1> DEFINE t == Tree
           I == {i \in 1 .. Len(t) : ~IsOverride(t[i]) /\ Primary(t[i]) = n}
           J == {i \in 1 .. Len(t) : ~IsOverride(t[i]) /\ Mentions(t[i], n)}
<1>1. DOMAIN t = 1 .. Len(t) /\ Len(t) \in Nat /\ \A i \in DOMAIN t : t[i] \in AnyBlock
  BY TreeHas DEF SitesInv
<1>2. SelectInSeq(t, LAMBDA b : ~IsOverride(b) /\ Primary(b) = n) = IF I # {} THEN Min(I) ELSE 0
  BY DEF SelectInSeq
<1>3. SelectInSeq(t, LAMBDA b : ~IsOverride(b) /\ Mentions(b, n)) = IF J # {} THEN Min(J) ELSE 0
  BY DEF SelectInSeq
<1>4. I \in SUBSET Nat /\ J \in SUBSET Nat
  BY <1>1
<1>5. (I # {} => Min(I) \in I) /\ (J # {} => Min(J) \in J)
  <2> HIDE DEF I, J
  <2> QED BY <1>4, Smallest
<1> DEFINE i == Min(I)
           j == Min(J)
<1>6. ReadDomain(n) = IF I # {} /\ i # 0 THEN i ELSE IF J # {} THEN j ELSE 0
  <2> DEFINE first == SelectInSeq(t, LAMBDA b : ~IsOverride(b) /\ Primary(b) = n)
             other == SelectInSeq(t, LAMBDA b : ~IsOverride(b) /\ Mentions(b, n))
  <2>1. ReadDomain(n) = IF first # 0 THEN first ELSE other
    BY DEF ReadDomain
  <2>2. first = (IF I # {} THEN i ELSE 0) /\ other = (IF J # {} THEN j ELSE 0)
    BY <1>2, <1>3
  <2> HIDE DEF first, other, i, j, I, J
  <2> QED BY <2>1, <2>2
<1> HIDE DEF i, j
<1>7. CASE I # {} /\ ReadDomain(n) = i
  <2>1. i \in I
    BY <1>5, <1>7 DEF i
  <2>2. t[i] \in AnyBlock /\ Primary(t[i]) = n /\ i \in DOMAIN t /\ ~IsOverride(t[i])
    BY <1>1, <2>1
  <2> HIDE DEF t, I
  <2>3. n # NoDomain
    BY NginxAssumption
  <2>4. t[i].names \in Seq(Host)
    BY <2>2 DEF AnyBlock, Blocks
  <2>5. n \in ToSet(t[i].names)
    BY <2>2, <2>3, <2>4, PrimaryIs
  <2>6. Mentions(t[i], n)
    BY <2>5 DEF Mentions
  <2> QED BY <1>7, <2>2, <2>6 DEF Serving, t
<1>8. CASE J # {} /\ ReadDomain(n) = j
  <2>1. j \in J
    BY <1>5, <1>8 DEF j
  <2>2. Mentions(t[j], n) /\ j \in DOMAIN t /\ ~IsOverride(t[j])
    BY <1>1, <2>1
  <2> HIDE DEF t, I
  <2> QED BY <1>8, <2>2 DEF Serving, t
<1> QED
  <2> HIDE DEF I, J
  <2> QED BY <1>6, <1>7, <1>8

LEMMA OverrideIs ==
    ASSUME RestInv, NEW kind \in Kind, NEW b \in AnyBlock
    PROVE  /\ OverrideOf(kind, b) \in Seq(OverBlock)
           /\ \A o \in ToSet(OverrideOf(kind, b)) : SameNames(o, b) /\ (~IsOverride(o) => 80 \in o.ports)
           /\ \E o \in ToSet(OverrideOf(kind, b)) : SameNames(o, b) /\ 80 \in o.ports
<1> DEFINE d == Primary(b)
           x == [Block("suctl", b.names, {80}) EXCEPT !.redirect = TRUE]
           y == [Block("suctl", b.names, {443}) EXCEPT !.root = kind, !.cert = d]
           z == [Block("suctl", b.names, {80}) EXCEPT !.root = kind]
<1>1. b.names \in Seq(Host)
  BY DEF AnyBlock, Blocks
<1>2. OverrideOf(kind, b) = IF d \in certs THEN <<x, y>> ELSE <<z>>
  BY DEF OverrideOf, OverrideBlocks
<1>3. d \in certs => d \in Host
  BY DEF RestInv, Host
<1> HIDE DEF d
<1> DEFINE s == b.names
           p == {80}
           q == {443}
<1>10. /\ x = [id |-> "suctl", names |-> s, ports |-> p, redirect |-> TRUE, root |-> "site", cert |-> NoDomain]
       /\ y = [id |-> "suctl", names |-> s, ports |-> q, redirect |-> FALSE, root |-> kind, cert |-> d]
       /\ z = [id |-> "suctl", names |-> s, ports |-> p, redirect |-> FALSE, root |-> kind, cert |-> NoDomain]
  <2> DEFINE B == [id |-> "suctl", names |-> s, ports |-> p, redirect |-> FALSE, root |-> "site", cert |-> NoDomain]
             C == [id |-> "suctl", names |-> s, ports |-> q, redirect |-> FALSE, root |-> "site", cert |-> NoDomain]
  <2>1. B = Block("suctl", b.names, {80}) /\ C = Block("suctl", b.names, {443})
    BY DEF Block
  <2>2. x = [B EXCEPT !.redirect = TRUE] /\ y = [C EXCEPT !.root = kind, !.cert = d] /\ z = [B EXCEPT !.root = kind]
    BY <2>1
  <2> HIDE DEF x, y, z, s, p, q
  <2>3. x = [id |-> "suctl", names |-> s, ports |-> p, redirect |-> TRUE, root |-> "site", cert |-> NoDomain]
    BY <2>2
  <2>4. y = [id |-> "suctl", names |-> s, ports |-> q, redirect |-> FALSE, root |-> kind, cert |-> d]
    BY <2>2
  <2>5. z = [id |-> "suctl", names |-> s, ports |-> p, redirect |-> FALSE, root |-> kind, cert |-> NoDomain]
    BY <2>2
  <2> QED BY <2>3, <2>4, <2>5
<1>11. p \in SUBSET Nat /\ q \in SUBSET Nat /\ 80 \in p
  OBVIOUS
<1> HIDE DEF s, p, q, x, y, z
<1>12. s \in Seq(Host) /\ s = b.names
  BY <1>1 DEF s
<1>4. x \in OverBlock /\ x.names = b.names /\ 80 \in x.ports
  BY <1>10, <1>11, <1>12 DEF OverBlock, Blocks
<1>5. d \in certs => y \in OverBlock /\ y.names = b.names /\ IsOverride(y)
  BY <1>3, <1>10, <1>11, <1>12 DEF OverBlock, Blocks, IsOverride
<1>6. z \in OverBlock /\ z.names = b.names /\ 80 \in z.ports
  BY <1>10, <1>11, <1>12 DEF OverBlock, Blocks
<1>7. ToSet(<<x, y>>) = {x, y} /\ ToSet(<<z>>) = {z}
  BY DEF ToSet
<1>8. CASE d \in certs
  <2>1. <<x, y>> \in Seq(OverBlock) /\ OverrideOf(kind, b) = <<x, y>>
    BY <1>2, <1>4, <1>5, <1>8
  <2> QED BY <1>4, <1>5, <1>7, <1>8, <2>1 DEF SameNames
<1>9. CASE d \notin certs
  <2>1. <<z>> \in Seq(OverBlock) /\ OverrideOf(kind, b) = <<z>>
    BY <1>2, <1>6, <1>9
  <2> QED BY <1>6, <1>7, <2>1 DEF SameNames
<1> QED BY <1>8, <1>9

LEMMA LaidIs ==
    ASSUME SitesInv, RestInv, Overlaid
    PROVE  overrides' \in [Kind -> [File -> Seq(OverBlock)]]
<1>1. \A k \in Kind, f \in File : overrides'[k][f] \in Seq(OverBlock)
  <2> SUFFICES ASSUME NEW k \in Kind, NEW f \in File PROVE overrides'[k][f] \in Seq(OverBlock)
    OBVIOUS
  <2>1. overrides[k][f] \in Seq(OverBlock) /\ <<>> \in Seq(OverBlock)
    BY DEF RestInv
  <2>2. ASSUME NEW i \in Serving PROVE OverrideOf(k, Tree[i]) \in Seq(OverBlock)
    BY TreeHas, OverrideIs DEF Serving, SitesInv
  <2> QED BY <2>1, <2>2 DEF Overlaid
<1>3. \A k \in Kind : overrides'[k] \in [File -> Seq(OverBlock)]
  <2>1. \A k \in Kind : overrides'[k] = [f \in File |-> overrides'[k][f]]
    BY DEF Overlaid
  <2> QED BY <1>1, <2>1
<1>4. overrides' = [k \in Kind |-> overrides'[k]]
  BY DEF Overlaid
<1> QED BY <1>3, <1>4

LEMMA EnableLays ==
    ASSUME SitesInv, RestInv, NEW n \in File \ {Default}, NEW k \in Kind, Enable(k, n)
    PROVE  (Refused("refused") \/ (Overlaid /\ ReloadOrPartial(TreeOf(available, enabled, overrides')) /\ UNCHANGED <<available, enabled>>))
<1>1. CASE ReadDomain(n) = 0
  BY <1>1 DEF Enable
<1>2. CASE ReadDomain(n) # 0
  <2> DEFINE i == ReadDomain(n)
             files == [overrides[k] EXCEPT ![Name(i)] = OverrideOf(k, Tree[i])]
  <2>1. n \in Host
    BY NginxAssumption
  <2>2. i \in Serving
    BY <1>2, <2>1, ReadIs
  <2>3. Override(k, files)
    BY <1>2 DEF Enable
  <2> HIDE DEF i
  <2>4. overrides' = [overrides EXCEPT ![k] = files]
    BY <2>3 DEF Override
  <2>5. overrides \in [Kind -> [File -> Seq(OverBlock)]]
    BY DEF RestInv
  <2>6. files = [f \in File |-> files[f]] /\ \A f \in File : files[f] \in {overrides[k][f], OverrideOf(k, Tree[i])}
    BY <2>5
  <2> HIDE DEF files
  <2>7. Overlaid
    BY <2>2, <2>4, <2>5, <2>6 DEF Overlaid
  <2> QED BY <2>3, <2>7 DEF Override
<1> QED BY <1>1, <1>2

LEMMA DisableLays ==
    ASSUME SitesInv, RestInv, NEW n \in File \ {Default}, NEW k \in Kind, Disable(k, n)
    PROVE  (Refused("refused") \/ (Overlaid /\ ReloadOrPartial(TreeOf(available, enabled, overrides')) /\ UNCHANGED <<available, enabled>>))
<1>1. CASE Refused("refused")
  BY <1>1
<1>2. CASE Override(k, [overrides[k] EXCEPT ![n] = <<>>])
  <2> DEFINE files == [overrides[k] EXCEPT ![n] = <<>>]
  <2>4. overrides' = [overrides EXCEPT ![k] = files]
    BY <1>2 DEF Override
  <2>5. overrides \in [Kind -> [File -> Seq(OverBlock)]]
    BY DEF RestInv
  <2>6. files = [f \in File |-> files[f]] /\ \A f \in File : files[f] \in {overrides[k][f], <<>>}
    BY <2>5
  <2> HIDE DEF files
  <2>7. Overlaid
    BY <2>4, <2>5, <2>6 DEF Overlaid
  <2> QED BY <1>2, <2>7 DEF Override
<1> QED BY <1>1, <1>2 DEF Disable

LEMMA AllLays ==
    ASSUME SitesInv, RestInv, NEW on \in BOOLEAN, MaintenanceAll(on)
    PROVE  (Refused("nothing") \/ (Overlaid /\ ReloadOrPartial(TreeOf(available, enabled, overrides')) /\ UNCHANGED <<available, enabled>>))
<1> DEFINE k == "maintenance"
           rows == {i \in Rows : ~Tree[i].redirect}
           named(n) == {i \in rows : Name(i) = n}
           files == [n \in File |->
                        IF named(n) = {} THEN overrides["maintenance"][n]
                        ELSE IF on THEN OverrideOf("maintenance", Tree[Max(named(n))]) ELSE <<>>]
<1>1. CASE Refused("nothing")
  BY <1>1
<1>2. CASE Override(k, files)
  <2>1. overrides' = [overrides EXCEPT ![k] = files]
    BY <1>2 DEF Override
  <2>2. overrides \in [Kind -> [File -> Seq(OverBlock)]] /\ k \in Kind
    BY DEF RestInv, Kind
  <2>3. files = [f \in File |-> files[f]]
    OBVIOUS
  <2>4. ASSUME NEW f \in File
        PROVE  files[f] \in {overrides[k][f], <<>>} \/ \E i \in Serving : files[f] = OverrideOf(k, Tree[i])
    <3>1. CASE named(f) = {}
      BY <3>1
    <3>2. CASE named(f) # {}
      <4>1. named(f) \in SUBSET (1 .. Len(Tree)) /\ named(f) \subseteq Serving /\ Len(Tree) \in Nat
        <5>1. Serving \in SUBSET (1 .. Len(Tree)) /\ Len(Tree) \in Nat
          BY TreeHas DEF Serving, SitesInv
        <5>2. named(f) \subseteq Serving
          BY DEF Rows
        <5> HIDE DEF named
        <5> QED BY <5>1, <5>2
      <4>2. Max(named(f)) \in named(f)
        <5> HIDE DEF named
        <5> QED BY <3>2, <4>1, Largest
      <4>3. files[f] = IF on THEN OverrideOf(k, Tree[Max(named(f))]) ELSE <<>>
        BY <3>2
      <4> HIDE DEF named, files
      <4> QED BY <4>1, <4>2, <4>3
    <3> QED BY <3>1, <3>2
  <2> HIDE DEF files, named, rows
  <2>5. Overlaid
    BY <2>1, <2>2, <2>3, <2>4 DEF Overlaid
  <2> QED BY <1>2, <2>5 DEF Override
<1> QED BY <1>1, <1>2 DEF MaintenanceAll

------------------------------------------------------------------------------
\* What the operator had live stays live.

LEMMA CalledIs == ASSUME RestInv, Called PROVE jobs' \in 0 .. MaxJobs
  BY NginxAssumption DEF RestInv, Called

LEMMA AddLeaves ==
    ASSUME NEW d, NEW www, DomainAdd(d, www)
    PROVE  UNCHANGED overrides /\ result' \in Told
  BY DEF DomainAdd, Refused, disk, ReloadOrPartial, Told

LEMMA RestKeeps ==
    ASSUME RestInv, overrides' \in [Kind -> [File -> Seq(OverBlock)]], certs' \subseteq Domain, certbot' \subseteq Domain,
           broken' \in BOOLEAN, jobs' \in 0 .. MaxJobs, provision' \in Step, result' \in Told
    PROVE  RestInv'
  BY DEF RestInv, Step, Told

LEMMA RestStep == ASSUME SitesInv, RestInv, AddedInv, [NginxNext]_nginxVars PROVE RestInv'
<1> USE RestKeeps
<1>0. /\ overrides \in [Kind -> [File -> Seq(OverBlock)]] /\ certs \subseteq Domain /\ certbot \subseteq Domain
      /\ broken \in BOOLEAN /\ jobs \in 0 .. MaxJobs /\ provision \in Step /\ result \in Told
  BY DEF RestInv, Step, Told
<1>a. \A s \in {"idle", "cert", "reload"} : [provision EXCEPT !.step = s] \in Step
  BY <1>0 DEF Step
<1>b. {"none", "ok", "partial", "refused", "failed", "nothing", "rolledback", "provisioned"} = Told
  BY DEF Told
<1>1. ASSUME NEW d \in Domain, NEW www \in BOOLEAN, Add(d, www) PROVE RestInv'
  BY <1>0, <1>1, CalledIs, AddLeaves DEF Add, outside
<1>2. ASSUME NEW d \in Domain, NEW www \in BOOLEAN, ProvisionAdd(d, www) PROVE RestInv'
  <2>1. provision' \in Step
    BY <1>2 DEF ProvisionAdd, Step
  <2> QED BY <1>0, <1>2, <2>1, CalledIs, AddLeaves DEF ProvisionAdd, outside
<1>3. ASSUME Refused("refused") \/ Refused("nothing") \/ (Overlaid /\ ReloadOrPartial(TreeOf(available, enabled, overrides'))),
             Called, UNCHANGED <<outside, provision>>
      PROVE  RestInv'
  <2>1. result' \in Told
    BY <1>3 DEF Refused, ReloadOrPartial, Told
  <2>2. overrides' \in [Kind -> [File -> Seq(OverBlock)]]
    BY <1>0, <1>3, LaidIs DEF Refused, disk
  <2> QED BY <1>0, <1>3, <2>1, <2>2, CalledIs DEF outside
<1>4. ASSUME NEW n \in File \ {Default}, NEW k \in Kind, Enable(k, n) PROVE RestInv'
  BY <1>3, <1>4, EnableLays DEF Enable
<1>5. ASSUME NEW n \in File \ {Default}, NEW k \in Kind, Disable(k, n) PROVE RestInv'
  BY <1>3, <1>5, DisableLays DEF Disable
<1>6. ASSUME NEW on \in BOOLEAN, MaintenanceAll(on) PROVE RestInv'
  BY <1>3, <1>6, AllLays DEF MaintenanceAll
<1>7. ASSUME NEW n \in Domain \cup {NoDomain}, Migrate(n) PROVE RestInv'
  <2>1. UNCHANGED overrides /\ result' \in Told
    BY <1>7 DEF Migrate, Refused, disk, ReloadOrPartial, Told
  <2> QED BY <1>0, <1>7, <2>1, CalledIs DEF Migrate, outside
<1>8. ASSUME NEW n \in Domain \cup {NoDomain}, MigrateFails(n) PROVE RestInv'
  <2>1. result' \in Told
    BY <1>8 DEF MigrateFails, Told
  <2> QED BY <1>0, <1>8, <2>1, CalledIs DEF MigrateFails, outside
<1>9. CASE ReloadOnly
  <2>1. result' \in Told
    BY <1>9 DEF ReloadOnly, ReloadOrPartial, Told
  <2> QED BY <1>0, <1>9, <2>1, CalledIs DEF ReloadOnly, outside, disk
<1>10. CASE ProvisionCert
  <2>1. provision.domain \in Domain
    BY <1>10 DEF ProvisionCert, AddedInv, Free
  <2>2. UNCHANGED <<overrides, certs, broken, jobs>>
    BY <1>10 DEF ProvisionCert, disk, Rollback
  <2>3. certbot' \subseteq Domain /\ provision' \in Step
    BY <1>0, <1>a, <1>10, <2>1 DEF ProvisionCert
  <2>4. result' \in Told
    BY <1>0, <1>10 DEF ProvisionCert, Told
  <2> QED BY <1>0, <2>2, <2>3, <2>4
<1>11. CASE ProvisionReload
  <2>1. UNCHANGED <<overrides, certs, broken, jobs, certbot>>
    BY <1>11 DEF ProvisionReload, disk, outside, Rollback
  <2>2. result' \in Told
    BY <1>11 DEF ProvisionReload, Told
  <2>3. provision' \in Step
    BY <1>a, <1>11 DEF ProvisionReload
  <2> QED BY <1>0, <2>1, <2>2, <2>3
<1>12. CASE ModuleDies
  BY <1>0, <1>a, <1>b, <1>12 DEF ModuleDies, disk
<1>13. CASE OperatorEdits
  BY <1>0, <1>b, <1>13 DEF OperatorEdits, disk
<1>14. ASSUME NEW d \in Domain, Certify(d) PROVE RestInv'
  <2>1. certs' \subseteq Domain /\ certbot' \subseteq Domain /\ UNCHANGED <<overrides, broken, provision, jobs>> /\ result' = "none"
    BY <1>0, <1>14 DEF Certify
  <2> QED BY <1>0, <1>b, <2>1
<1>15. ASSUME NEW d \in Domain, CertRemove(d) PROVE RestInv'
  BY <1>0, <1>b, <1>15, CalledIs DEF CertRemove, disk
<1>16. CASE UNCHANGED nginxVars
  BY <1>0, <1>16 DEF nginxVars, disk
<1> QED
  BY <1>1, <1>2, <1>4, <1>5, <1>6, <1>7, <1>8, <1>9, <1>10, <1>11, <1>12, <1>13, <1>14, <1>15, <1>16
     DEF NginxNext, Operation

LEMMA SitesSame == ASSUME SitesInv, UNCHANGED <<available, enabled, own>> PROVE SitesInv'
  BY DEF SitesInv, OneHome, OwnInv

LEMMA AddHome ==
    ASSUME SitesInv, RestInv, NEW d \in Domain, NEW www \in BOOLEAN, DomainAdd(d, www), own' = own
    PROVE  SitesInv' /\ (result' = "ok" => \A b \in ToSet(available'[d]) : b.id = "added")
<1>1. CASE Refused("refused") \/ Refused("failed")
  BY <1>1, SitesSame DEF Refused, disk
<1>2. CASE ~Configured(d) /\ available' = [available EXCEPT ![d] = AddedFile(d, www)] /\ enabled' \in {enabled \ {d}, enabled \cup {d}}
  BY <1>2, AddKeeps
<1> QED BY <1>1, <1>2 DEF DomainAdd

\* Provision takes back what it has added.
LEMMA RollHome ==
    ASSUME SitesInv, AddedInv, ~Free, Rollback(provision.domain), own' = own PROVE SitesInv'
<1>1. provision.domain \in Domain /\ \A b \in ToSet(available[provision.domain]) : b.id = "added"
  BY DEF AddedInv
<1> QED BY <1>1, RollKeeps DEF Rollback

LEMMA CertAt ==
    ASSUME NEW d, Certify(d)
    PROVE  \/ UNCHANGED <<available, certs, running>>
           \/ /\ \E f \in enabled : \E at \in DOMAIN available[f] : Renewed(f, at, d)
              /\ Reload(TreeOf(available', enabled, overrides), certs')
<1>1. CASE UNCHANGED <<available, certs, running>>
  BY <1>1
<1>2. ASSUME NEW f \in enabled, NEW at, at = SelectInSeq(available[f], LAMBDA b : d \in ToSet(b.names)), at # 0
      PROVE  at \in DOMAIN available[f]
  <2> DEFINE s == available[f]
             I == {i \in 1 .. Len(s) : d \in ToSet(s[i].names)}
  <2>1. at = IF I # {} THEN Min(I) ELSE 0
    BY <1>2 DEF SelectInSeq
  <2>2. I \in SUBSET Nat /\ I # {} /\ at = Min(I)
    <3>1. \A i \in 1 .. Len(s) : i \in Nat
      OBVIOUS
    <3> QED BY <1>2, <2>1, <3>1
  <2>3. at \in I
    <3> HIDE DEF I
    <3> QED BY <2>2, Smallest
  <2> QED BY <2>3
<1> QED BY <1>1, <1>2 DEF Certify, Renewed

LEMMA CertHome == ASSUME SitesInv, NEW d \in Domain, Certify(d) PROVE SitesInv'
<1>1. CASE UNCHANGED available
  BY <1>1, SitesSame DEF Certify
<1>2. CASE \E f \in enabled : \E at \in DOMAIN available[f] : Renewed(f, at, d)
  BY <1>2, CertKeeps DEF Certify
<1>3. UNCHANGED available \/ \E f \in enabled : \E at \in DOMAIN available[f] : Renewed(f, at, d)
  BY CertAt
<1> QED BY <1>1, <1>2, <1>3

LEMMA SitesStep == ASSUME SitesInv, RestInv, AddedInv, [NginxNext]_nginxVars PROVE SitesInv'
<1>1. ASSUME NEW d \in Domain, NEW www \in BOOLEAN, Add(d, www) \/ ProvisionAdd(d, www) PROVE SitesInv'
  BY <1>1, AddHome DEF Add, ProvisionAdd, outside
<1>2. ASSUME NEW n \in File \ {Default}, NEW k \in Kind, Enable(k, n) \/ Disable(k, n) PROVE SitesInv'
  <2>1. UNCHANGED <<available, enabled>>
    BY <1>2 DEF Enable, Disable, Refused, disk, Override
  <2> QED BY <1>2, <2>1, SitesSame DEF Enable, Disable, outside
<1>3. ASSUME NEW on \in BOOLEAN, MaintenanceAll(on) PROVE SitesInv'
  <2>1. UNCHANGED <<available, enabled>>
    BY <1>3 DEF MaintenanceAll, Refused, disk, Override
  <2> QED BY <1>3, <2>1, SitesSame DEF MaintenanceAll, outside
<1>4. ASSUME NEW n \in Domain \cup {NoDomain}, Migrate(n) PROVE SitesInv'
  <2>1. CASE Refused("refused") \/ Refused("nothing")
    BY <1>4, <2>1, SitesSame DEF Migrate, outside, Refused, disk
  <2>2. CASE available' = [Moved(Movable(n)) EXCEPT ![Default] = Kept(Movable(n))] /\ enabled' = Linked(Movable(n))
    BY <1>4, <2>2, MoveKeeps DEF Migrate, outside
  <2> QED BY <1>4, <2>1, <2>2 DEF Migrate
<1>5. ASSUME NEW n \in Domain \cup {NoDomain}, MigrateFails(n) PROVE SitesInv'
  <2>1. PICK linked, written : /\ linked \subseteq written /\ written \subseteq Movable(n)
                               /\ available' = Moved(written) /\ enabled' = Linked(linked)
    <3>1. PICK m, j \in 0 .. Len(available[Default]) :
                   /\ {i \in Movable(n) : i <= m} \subseteq {i \in Movable(n) : i <= j}
                   /\ available' = Moved({i \in Movable(n) : i <= j})
                   /\ enabled' = Linked({i \in Movable(n) : i <= m})
      BY <1>5 DEF MigrateFails
    <3> QED BY <3>1
  <2> QED BY <1>5, <2>1, MoveKeeps DEF MigrateFails, outside
<1>6. CASE ReloadOnly
  BY <1>6, SitesSame DEF ReloadOnly, outside, disk
<1>7. CASE ProvisionCert
  <2>1. CASE UNCHANGED disk
    BY <1>7, <2>1, SitesSame DEF ProvisionCert, disk
  <2>2. CASE Rollback(provision.domain)
    BY <1>7, <2>2, RollHome DEF ProvisionCert, Free
  <2> QED BY <1>7, <2>1, <2>2 DEF ProvisionCert
<1>8. CASE ProvisionReload
  <2>1. CASE UNCHANGED disk
    BY <1>8, <2>1, SitesSame DEF ProvisionReload, disk, outside
  <2>2. CASE Rollback(provision.domain)
    BY <1>8, <2>2, RollHome DEF ProvisionReload, Free, outside
  <2> QED BY <1>8, <2>1, <2>2 DEF ProvisionReload
<1>9. CASE ModuleDies \/ OperatorEdits
  BY <1>9, SitesSame DEF ModuleDies, OperatorEdits, disk
<1>10. ASSUME NEW d \in Domain, Certify(d) PROVE SitesInv'
  BY <1>10, CertHome
<1>11. ASSUME NEW d \in Domain, CertRemove(d) PROVE SitesInv'
  BY <1>11, SitesSame DEF CertRemove, disk
<1>12. CASE UNCHANGED nginxVars
  BY <1>12, SitesSame DEF nginxVars, disk
<1> QED
  BY <1>1, <1>2, <1>3, <1>4, <1>5, <1>6, <1>7, <1>8, <1>9, <1>10, <1>11, <1>12 DEF NginxNext, Operation

LEMMA AddedStep == ASSUME SitesInv, RestInv, AddedInv, [NginxNext]_nginxVars PROVE AddedInv'
<1>1. CASE Called /\ UNCHANGED provision
  BY <1>1 DEF Called, AddedInv, Free
<1>2. CASE UNCHANGED <<available, provision>>
  BY <1>2 DEF AddedInv, Free
<1>3. ASSUME NEW d \in Domain, NEW www \in BOOLEAN, ProvisionAdd(d, www) PROVE AddedInv'
  <2>1. provision' = [step |-> IF result' = "ok" THEN "cert" ELSE "idle", domain |-> d]
    BY <1>3 DEF ProvisionAdd
  <2>2. provision'.step = (IF result' = "ok" THEN "cert" ELSE "idle") /\ provision'.domain = d
    BY <2>1
  <2>3. result' = "ok" => \A b \in ToSet(available'[d]) : b.id = "added"
    BY <1>3, AddHome DEF ProvisionAdd, outside
  <2> QED BY <2>2, <2>3 DEF AddedInv, Free
<1>4. ASSUME provision' = [provision EXCEPT !.step = "idle"] PROVE AddedInv'
  <2>1. provision'.step = "idle"
    BY <1>4 DEF RestInv
  <2> QED BY <2>1 DEF AddedInv, Free
<1>5. CASE ProvisionCert
  <2>1. CASE provision' = [provision EXCEPT !.step = "reload"] /\ UNCHANGED disk
    <3>1. provision'.domain = provision.domain /\ available' = available
      BY <2>1 DEF RestInv, disk
    <3> QED BY <1>5, <3>1 DEF AddedInv, Free, ProvisionCert
  <2> QED BY <1>4, <1>5, <2>1 DEF ProvisionCert
<1>6. CASE ProvisionReload
  BY <1>4, <1>6 DEF ProvisionReload
<1>7. CASE ModuleDies
  BY <1>4, <1>7 DEF ModuleDies
<1>8. ASSUME NEW d \in Domain, Certify(d) PROVE AddedInv'
  <2>1. UNCHANGED provision
    BY <1>8 DEF Certify
  <2>2. CASE \E f \in enabled : \E at \in DOMAIN available[f] : Renewed(f, at, d)
    <3>1. \A g \in File : \A b \in ToSet(available'[g]) : \E c \in ToSet(available[g]) : Like(b, c)
      BY <2>2, CertIs
    <3>2. Domain \subseteq File
      BY NginxAssumption
    <3> QED BY <2>1, <3>1, <3>2, LikeIs DEF AddedInv, Free
  <2> QED BY <1>2, <1>8, <2>1, <2>2, CertAt
<1>9. OperatorEdits \/ UNCHANGED nginxVars => UNCHANGED <<available, provision>>
  BY DEF OperatorEdits, nginxVars, disk
<1>10. ASSUME \/ \E d \in Domain, www \in BOOLEAN : Add(d, www)
              \/ \E n \in File \ {Default}, k \in Kind : Enable(k, n) \/ Disable(k, n)
              \/ \E on \in BOOLEAN : MaintenanceAll(on)
              \/ \E n \in Domain \cup {NoDomain} : Migrate(n) \/ MigrateFails(n)
              \/ ReloadOnly
              \/ \E d \in Domain : CertRemove(d)
       PROVE  Called /\ UNCHANGED provision
  BY <1>10 DEF Add, Enable, Disable, MaintenanceAll, Migrate, MigrateFails, ReloadOnly, CertRemove
<1> QED
  BY <1>1, <1>2, <1>3, <1>5, <1>6, <1>7, <1>8, <1>9, <1>10 DEF NginxNext, Operation

LEMMA HomeIsLive == ASSUME HomeInv PROVE StillLive
<1>1. NginxTypeOK
  BY DEF HomeInv, SitesInv, RestInv, Step, Told, NginxTypeOK, SiteBlock, OverBlock
<1>2. ASSUME NEW x \in own PROVE x \in Ids(Tree)
  <2>1. x \notin {"suctl", "added"}
    BY NginxAssumption DEF HomeInv, SitesInv, OwnInv
  <2>2. PICK f \in enabled : \E b \in ToSet(available[f]) : b.id = x
    BY DEF HomeInv, SitesInv, OwnInv
  <2>3. PICK b \in Sites(available, enabled) : b.id = x
    BY <2>2 DEF Sites
  <2>4. \E i \in DOMAIN Tree : Tree[i] = b
    BY TreeHas DEF HomeInv, SitesInv
  <2> QED BY <2>1, <2>3, <2>4 DEF Ids
<1>3. ASSUME NEW f \in enabled, f # Default PROVE available[f] # <<>>
  <2>1. \A b : b \notin ToSet(<<>>)
    BY DEF ToSet
  <2> QED BY <1>3, <2>1 DEF HomeInv, SitesInv, OneHome
<1> QED BY <1>1, <1>2, <1>3 DEF StillLive

LEMMA HomeInit == ASSUME ManyHomes, NginxInit PROVE HomeInv
<1>1. PICK d \in Disks : available = d.available /\ enabled = d.enabled /\ certs = d.certs
  BY DEF NginxInit
<1>2. available \in [File -> Seq(SiteBlock)]
  <2>1. available \in [File -> Seq(Blocks(Id, {"site"}))]
    BY <1>1, DiskAssumption
  <2>2. Blocks(Id, {"site"}) \subseteq SiteBlock
    BY DEF SiteBlock, Blocks
  <2>3. \A f \in File : available[f] \in Seq(SiteBlock)
    BY <2>1, <2>2, SeqInto
  <2> QED BY <2>1, <2>3
<1>3. RestInv
  <2>1. overrides \in [Kind -> [File -> Seq(OverBlock)]]
    <3>1. <<>> \in Seq(OverBlock)
      OBVIOUS
    <3> QED BY <3>1 DEF NginxInit
  <2>2. certs \subseteq Domain
    BY <1>1, DiskAssumption
  <2>3. jobs \in 0 .. MaxJobs
    BY NginxAssumption DEF NginxInit
  <2> QED BY <2>1, <2>2, <2>3 DEF NginxInit, RestInv, Step, Told
<1>4. AddedInv
  BY DEF NginxInit, AddedInv, Free
<1>5. enabled \subseteq File /\ OneHome(available, enabled)
      /\ \A f \in File : \A b \in ToSet(available[f]) : Primary(b) \in File \cup {NoDomain}
  BY <1>1, DiskAssumption DEF ManyHomes
<1>6. OwnInv
  <2>1. ASSUME NEW i \in DOMAIN Tree
        PROVE  Tree[i].id \notin {"suctl", "added"} =>
                   Tree[i].id \in Id /\ \E f \in enabled : \E b \in ToSet(available[f]) : b.id = Tree[i].id
    <3>1. Tree[i] \in Overs(overrides) \cup Sites(available, enabled)
      BY <1>2, <1>3, <1>5, TreeHas
    <3>2. CASE Tree[i] \in Overs(overrides)
      <4>1. Tree[i].id = "suctl"
        BY <1>3, <3>2, OverIs DEF OverBlock, Blocks
      <4> QED BY <4>1
    <3>3. CASE Tree[i] \in Sites(available, enabled)
      <4>1. PICK f \in enabled : Tree[i] \in ToSet(available[f])
        BY <3>3 DEF Sites
      <4>2. Tree[i].id \in Id \cup {"added"}
        <5>1. available[f] \in Seq(SiteBlock)
          BY <1>2, <1>5
        <5>2. Tree[i] \in SiteBlock
          BY <4>1, <5>1 DEF ToSet
        <5> QED BY <5>2 DEF SiteBlock, Blocks
      <4> QED BY <4>1, <4>2
    <3> QED BY <3>1, <3>2, <3>3
  <2> QED BY <2>1 DEF NginxInit, Ids, OwnInv
<1> QED BY <1>2, <1>3, <1>4, <1>5, <1>6 DEF HomeInv, SitesInv

\* Nothing suctl does takes away what the operator had live (cmdProvision's rollback,
\* MigrateFromDefault), and no link of its own dangles, for any disk on which a site
\* that is enabled is named by its file and of one name there is one site to migrate.
THEOREM OperatorsSitesStay == ASSUME ManyHomes PROVE NginxSpec => []StillLive
<1>1. NginxInit => HomeInv
  BY HomeInit
<1>2. HomeInv /\ [NginxNext]_nginxVars => HomeInv'
  BY SitesStep, RestStep, AddedStep DEF HomeInv
<1>3. HomeInv => StillLive
  BY HomeIsLive
<1> QED BY <1>1, <1>2, <1>3, PTL DEF NginxSpec

------------------------------------------------------------------------------
\* A site with an override is dark.

DarkIn(t) ==
    \A i, j \in DOMAIN t :
        /\ IsOverride(t[i]) /\ t[j].id # "suctl"
        /\ SharesName(t[i], t[j])
        => \A n \in ToSet(t[j].names) : AnswersFor(t, n, 80) # j

TreeDark == DarkIn(Tree)

\* On a disk whose overrides are those of its sites, the override answers first.
LEMMA TreeIsDark ==
    ASSUME HomeInv, NamesInv PROVE TreeDark
<1> USE DEF HomeInv, NamesInv
<1> DEFINE t == Tree
           L == Overs(overrides)
           M == Sites(available, enabled)
<1>1. t \in Seq(AnyBlock) /\ Parted(t, L, M)
  BY TreeTyped DEF SitesInv
<1>2. \A b \in L : b.id = "suctl"
  BY OverIs DEF OverBlock, Blocks
<1>3. \A b \in M : ~IsOverride(b)
  BY SiteIs DEF Sites, SitesInv
<1> HIDE DEF t, L, M
<1>4. DOMAIN t = 1 .. Len(t) /\ Len(t) \in Nat
  BY <1>1
<1>5. PICK m \in 0 .. Len(t) :
          /\ \A i \in 1 .. m : t[i] \in L
          /\ \A i \in m + 1 .. Len(t) : t[i] \in M
          /\ \A x \in L : \E i \in 1 .. m : t[i] = x
  BY <1>1 DEF Parted
<1>6. \A i \in 1 .. Len(t) : i \in 1 .. m \/ i \in m + 1 .. Len(t)
  BY <1>4
<1> SUFFICES ASSUME NEW i \in DOMAIN t, NEW j \in DOMAIN t, IsOverride(t[i]), t[j].id # "suctl", SharesName(t[i], t[j]),
                    NEW n \in ToSet(t[j].names)
             PROVE  AnswersFor(t, n, 80) # j
  BY DEF DarkIn, TreeDark, t
<1>7. t[i] \in L /\ t[j] \in M /\ j \in m + 1 .. Len(t)
  BY <1>2, <1>3, <1>4, <1>5, <1>6
<1>8. n \in ToSet(t[i].names)
  <2>1. PICK f \in File : Stays(f) /\ \E b \in ToSet(available[f]) : SameNames(b, t[i])
    BY <1>7 DEF OverInv, L
  <2>2. PICK b \in ToSet(available[f]) : SameNames(b, t[i])
    BY <2>1
  <2>3. b \in M
    BY <2>1 DEF Stays, Sites, M
  <2>4. SharesName(b, t[j])
    BY <2>2 DEF SameNames, SharesName
  <2>5. SameNames(b, t[j])
    BY <1>7, <2>3, <2>4 DEF NamesAgree, M
  <2> QED BY <2>2, <2>5 DEF SameNames
<1>9. PICK c \in L : 80 \in c.ports /\ n \in ToSet(c.names)
  <2>1. PICK k \in Kind, f \in File : t[i] \in ToSet(overrides[k][f])
    BY <1>7, OverIs DEF L
  <2>2. PICK c \in ToSet(overrides[k][f]) : 80 \in c.ports /\ SameNames(c, t[i])
    BY <2>1 DEF OverInv
  <2>3. c \in L
    BY <2>2, OverHas DEF L
  <2> QED BY <1>8, <2>2, <2>3 DEF SameNames
<1>10. PICK p \in 1 .. m : t[p] = c
  BY <1>5, <1>9
<1> DEFINE I == {q \in 1 .. Len(t) : n \in ToSet(t[q].names) /\ 80 \in t[q].ports}
           a == Min(I)
<1>11. p \in 1 .. Len(t) /\ p < j /\ p \in Nat /\ j \in Nat /\ j # 0
  BY <1>4, <1>5, <1>7, <1>10
<1>12. AnswersFor(t, n, 80) = IF I # {} THEN a ELSE 0
  BY DEF AnswersFor, SelectInSeq
<1>13. p \in I
  BY <1>9, <1>10, <1>11
<1>14. I \in SUBSET Nat
  BY <1>4
<1>15. a <= p /\ a \in Nat
  <2>1. a \in I /\ a <= p
    <3> HIDE DEF I
    <3> QED BY <1>13, <1>14, Smallest
  <2> QED BY <1>14, <2>1
<1> HIDE DEF a, I
<1>16. a # j
  BY <1>11, <1>15
<1> QED BY <1>11, <1>12, <1>16

LEMMA RunsTree == ASSUME [NginxNext]_nginxVars PROVE running' = running \/ running' = Tree'
<1>1. ASSUME NEW d, NEW www, DomainAdd(d, www) PROVE running' = running \/ running' = Tree'
  BY <1>1 DEF DomainAdd, Refused, ReloadOrPartial, Reload, Tree
<1>2. ASSUME NEW kind, NEW files, Override(kind, files) PROVE running' = running \/ running' = Tree'
  BY <1>2 DEF Override, ReloadOrPartial, Reload, Tree
<1>3. ASSUME NEW d, Rollback(d) PROVE running' = running \/ running' = Tree'
  BY <1>3 DEF Rollback, Reload, Tree
<1>4. ASSUME NEW n, Migrate(n) \/ MigrateFails(n) PROVE running' = running \/ running' = Tree'
  BY <1>4 DEF Migrate, MigrateFails, Refused, ReloadOrPartial, Reload, Tree
<1>5. ASSUME NEW on, MaintenanceAll(on) PROVE running' = running \/ running' = Tree'
  <2>1. Refused("nothing") \/ \E files : Override("maintenance", files)
    BY <1>5 DEF MaintenanceAll
  <2> QED BY <1>2, <2>1 DEF Refused
<1>6. ASSUME NEW n, NEW k, Enable(k, n) \/ Disable(k, n) PROVE running' = running \/ running' = Tree'
  BY <1>2, <1>6 DEF Enable, Disable, Refused
<1>7. CASE ReloadOnly
  BY <1>7 DEF ReloadOnly, ReloadOrPartial, Reload, Tree, disk
<1>8. CASE ProvisionCert \/ ProvisionReload
  BY <1>3, <1>8 DEF ProvisionCert, ProvisionReload, Reload, Tree, disk
<1>9. CASE ModuleDies \/ OperatorEdits \/ UNCHANGED nginxVars
  BY <1>9 DEF ModuleDies, OperatorEdits, nginxVars
<1>10. ASSUME NEW d \in Domain, Certify(d) \/ CertRemove(d) PROVE running' = running \/ running' = Tree'
  <2>1. CASE Certify(d)
    <3>1. UNCHANGED <<enabled, overrides>>
      BY <2>1 DEF Certify
    <3> QED BY <2>1, <3>1, CertAt DEF Reload, Tree
  <2> QED BY <1>10, <2>1 DEF CertRemove
<1> QED
  BY <1>1, <1>4, <1>5, <1>6, <1>7, <1>8, <1>9, <1>10 DEF NginxNext, Operation, Add, ProvisionAdd

LEMMA NamesKeep == ASSUME NamesAgree(available, enabled), NoNewNames PROVE NamesAgree(available', enabled')
<1> SUFFICES ASSUME NEW b \in Sites(available', enabled'), NEW c \in Sites(available', enabled'), SharesName(b, c)
             PROVE  SameNames(b, c)
  BY DEF NamesAgree, NoNewNames
<1>1. PICK x \in Sites(available, enabled) : SameNames(b, x)
  BY DEF NoNewNames
<1>2. PICK y \in Sites(available, enabled) : SameNames(c, y)
  BY DEF NoNewNames
<1>3. SameNames(x, y)
  <2>1. SharesName(x, y)
    BY <1>1, <1>2 DEF SharesName, SameNames
  <2> QED BY <2>1 DEF NamesAgree
<1> QED BY <1>1, <1>2, <1>3 DEF SameNames

LEMMA OversKeep == ASSUME OverInv, NoNameLost, overrides' = overrides PROVE OverInv'
<1>1. ASSUME NEW o \in Overs(overrides)
      PROVE  \E g \in File : Stays(g)' /\ \E b \in ToSet(available'[g]) : SameNames(b, o)
  <2>1. PICK f \in File : Stays(f) /\ \E b \in ToSet(available[f]) : SameNames(b, o)
    BY <1>1 DEF OverInv
  <2>2. PICK b \in ToSet(available[f]) : SameNames(b, o)
    BY <2>1
  <2>3. PICK g \in File : Stays(g)' /\ \E c \in ToSet(available'[g]) : SameNames(c, b)
    BY <2>1 DEF NoNameLost
  <2> QED BY <2>2, <2>3 DEF SameNames
<1> QED BY <1>1 DEF OverInv

LEMMA LaidKeeps ==
    ASSUME SitesInv, RestInv, OverInv, Free, Overlaid, UNCHANGED <<available, enabled, provision>> PROVE OverInv'
<1>1. ASSUME NEW f PROVE Stays(f) => Stays(f)'
  BY DEF Stays, Free
<1>2. ASSUME NEW i \in Serving
      PROVE  \E f \in File : Stays(f) /\ \E b \in ToSet(available[f]) : SameNames(b, Tree[i])
  <2>1. Tree[i] \in Overs(overrides) \cup Sites(available, enabled)
    BY TreeHas DEF Serving, SitesInv
  <2>2. CASE Tree[i] \in Sites(available, enabled)
    <3>1. PICK f \in enabled : Tree[i] \in ToSet(available[f])
      BY <2>2 DEF Sites
    <3>2. Stays(f) /\ f \in File
      BY DEF Stays, SitesInv
    <3> QED BY <3>1, <3>2 DEF SameNames
  <2>3. CASE Tree[i] \in Overs(overrides)
    BY <2>3 DEF OverInv
  <2> QED BY <2>1, <2>2, <2>3
<1>3. ASSUME NEW k \in Kind, NEW f \in File, NEW o \in ToSet(overrides'[k][f])
      PROVE  /\ \E g \in File : Stays(g) /\ \E b \in ToSet(available[g]) : SameNames(b, o)
             /\ \E c \in ToSet(overrides'[k][f]) : 80 \in c.ports /\ SameNames(c, o)
  <2>1. CASE overrides'[k][f] = overrides[k][f]
    <3>1. o \in Overs(overrides)
      BY <1>3, <2>1, OverHas
    <3> QED BY <1>3, <2>1, <3>1 DEF OverInv
  <2>2. CASE overrides'[k][f] = <<>>
    BY <1>3, <2>2 DEF ToSet
  <2>3. ASSUME NEW i \in Serving, overrides'[k][f] = OverrideOf(k, Tree[i])
        PROVE  /\ \E g \in File : Stays(g) /\ \E b \in ToSet(available[g]) : SameNames(b, o)
               /\ \E c \in ToSet(overrides'[k][f]) : 80 \in c.ports /\ SameNames(c, o)
    <3> DEFINE x == Tree[i]
    <3>1. x \in AnyBlock
      BY TreeHas DEF Serving, SitesInv
    <3>2. PICK g \in File : Stays(g) /\ \E b \in ToSet(available[g]) : SameNames(b, x)
      BY <1>2
    <3> HIDE DEF x
    <3>3. o \in ToSet(OverrideOf(k, x)) /\ overrides'[k][f] = OverrideOf(k, x)
      BY <1>3, <2>3 DEF x
    <3>4. SameNames(o, x) /\ \E c \in ToSet(OverrideOf(k, x)) : SameNames(c, x) /\ 80 \in c.ports
      BY <3>1, <3>3, OverrideIs
    <3> QED BY <3>2, <3>3, <3>4 DEF SameNames
  <2> QED BY <2>1, <2>2, <2>3 DEF Overlaid
<1>4. ASSUME NEW o \in Overs(overrides') PROVE \E k \in Kind, f \in File : o \in ToSet(overrides'[k][f])
  BY <1>4 DEF Overs, Kind
<1>5. ASSUME NEW o \in Overs(overrides')
      PROVE  \E g \in File : Stays(g)' /\ \E b \in ToSet(available'[g]) : SameNames(b, o)
  BY <1>1, <1>3, <1>4, <1>5
<1> QED BY <1>3, <1>5 DEF OverInv

LEMMA StandStill ==
    ASSUME Default \in enabled, UNCHANGED <<available, enabled>>, \A f \in File : Stays(f) => Stays(f)'
    PROVE  NoNewNames /\ NoNameLost
<1>1. \A b : SameNames(b, b)
  BY DEF SameNames
<1> QED BY <1>1 DEF NoNewNames, NoNameLost, Sites

LEMMA AddNames ==
    ASSUME SitesInv, RestInv, NamesAgree(available, enabled), NEW d \in Domain, NEW www \in BOOLEAN, ~Configured(d), Free,
           available' = [available EXCEPT ![d] = AddedFile(d, www)],
           enabled' \in {enabled \ {d}, enabled \cup {d}}, Free' \/ provision'.domain = d
    PROVE  NamesAgree(available', enabled') /\ NoNameLost
<1>1. PICK x \in SiteBlock :
          /\ AddedFile(d, www) = <<x>> /\ ToSet(AddedFile(d, www)) = {x} /\ ToSet(x.names) \subseteq {d, Www(d)}
  BY AddedIs
<1>2. d \in File /\ d # Default /\ d \notin enabled /\ \A b \in Sites(available, enabled) : ~Mentions(b, d)
  BY NginxAssumption, NotConfigured DEF Host
<1>3. available \in [File -> Seq(SiteBlock)] /\ enabled \subseteq File
  BY DEF SitesInv
<1>4. ToSet(available'[d]) = {x} /\ \A f \in File : f # d => available'[f] = available[f]
  BY <1>1, <1>2, <1>3
<1>5. \A b : SameNames(b, b)
  BY DEF SameNames
<1>6. \A b \in Sites(available', enabled') : b \in Sites(available, enabled) \/ b = x
  BY <1>2, <1>3, <1>4 DEF Sites
<1>7. \A b \in Sites(available, enabled) : ~SharesName(b, x) /\ ~SharesName(x, b)
  BY <1>1, <1>2 DEF Mentions, SharesName
<1>8. NamesAgree(available', enabled')
  <2>1. Default \in enabled'
    BY <1>2 DEF NamesAgree
  <2>2. ASSUME NEW b \in Sites(available', enabled'), NEW c \in Sites(available', enabled'), SharesName(b, c)
        PROVE  SameNames(b, c)
    BY <1>5, <1>6, <1>7, <2>2 DEF NamesAgree
  <2> QED BY <2>1, <2>2 DEF NamesAgree
<1>9. NoNameLost
  <2> SUFFICES ASSUME NEW f \in File, Stays(f), NEW b \in ToSet(available[f])
               PROVE  \E g \in File : Stays(g)' /\ \E c \in ToSet(available'[g]) : SameNames(c, b)
    BY DEF NoNameLost
  <2>1. f \in enabled /\ f # d
    BY <1>2 DEF Stays
  <2>2. Stays(f)'
    BY <2>1 DEF Stays
  <2>3. available'[f] = available[f]
    BY <1>4, <2>1
  <2> QED BY <1>5, <2>2, <2>3
<1> QED BY <1>8, <1>9

LEMMA RollNames ==
    ASSUME SitesInv, NEW d \in Domain, Default \in enabled, provision.domain = d, ~Free, Free',
           available' = [available EXCEPT ![d] = <<>>], enabled' = enabled \ {d}
    PROVE  NoNewNames /\ NoNameLost
<1>1. d \in File /\ d # Default
  BY NginxAssumption DEF Host
<1>2. \A f \in File : f # d => available'[f] = available[f]
  BY <1>1 DEF SitesInv
<1>3. \A b : SameNames(b, b)
  BY DEF SameNames
<1>4. enabled \subseteq File
  BY DEF SitesInv
<1>5. NoNewNames
  BY <1>1, <1>2, <1>3, <1>4 DEF NoNewNames, Sites
<1>6. NoNameLost
  <2> SUFFICES ASSUME NEW f \in File, Stays(f), NEW b \in ToSet(available[f])
               PROVE  \E g \in File : Stays(g)' /\ \E c \in ToSet(available'[g]) : SameNames(c, b)
    BY DEF NoNameLost
  <2>1. f # d /\ Stays(f)'
    BY DEF Stays
  <2> QED BY <1>2, <1>3, <2>1
<1> QED BY <1>5, <1>6

LEMMA MoveNames ==
    ASSUME SitesInv, NamesAgree(available, enabled), Free, UNCHANGED provision,
           NEW only, NEW moving \in SUBSET Movable(only), NEW linked \in SUBSET moving, enabled' = Linked(linked),
           \/ available' = Moved(moving)
           \/ linked = moving /\ available' = [Moved(moving) EXCEPT ![Default] = Kept(moving)]
    PROVE  NoNewNames /\ NoNameLost
<1> DEFINE a == Moved(moving)
           k == Kept(moving)
           s == available[Default]
<1>1. /\ a \in [File -> Seq(SiteBlock)]
      /\ \A f \in File :
             \/ a[f] = available[f] /\ ~\E i \in moving : Primary(Site(i)) = f
             \/ /\ f # Default /\ ToSet(available[f]) = {}
                /\ \E i \in moving : a[f] = <<Site(i)>> /\ ToSet(a[f]) = {Site(i)} /\ Primary(Site(i)) = f
      /\ \A i \in moving : Site(i) \in ToSet(s) /\ Primary(Site(i)) \in File
  BY MovedIs
<1>2. \A b : b \in ToSet(k) <=> \E i \in DOMAIN s \ moving : Site(i) = b
  BY KeptIs
<1>3. \A b : b \in ToSet(s) <=> \E i \in DOMAIN s : Site(i) = b
  BY DEF ToSet, Site
<1>4. Default \in File /\ Default \in enabled /\ enabled \subseteq File
  BY NginxAssumption DEF NamesAgree, SitesInv
<1>5. a[Default] = s
  BY <1>1, <1>4
<1>6. enabled' = enabled \cup {Primary(Site(i)) : i \in linked}
  BY DEF Linked
<1>7. \A b \in ToSet(s) : b \in Sites(available, enabled)
  BY <1>4 DEF Sites
<1>8. \A b \in ToSet(s) : b \in SiteBlock
  BY <1>4, SiteIs
<1>9. \A f : Stays(f)' <=> f \in enabled'
  BY DEF Stays, Free
<1> HIDE DEF a, k, s
<1>10. available' = a \/ (linked = moving /\ available' = [a EXCEPT ![Default] = k])
  BY DEF a, k
<1>11. \A f \in File : f # Default => available'[f] = a[f]
  BY <1>1, <1>4, <1>10
<1>12. available'[Default] = s \/ (linked = moving /\ available'[Default] = k)
  BY <1>1, <1>4, <1>5, <1>10
<1>13. \A b : SameNames(b, b)
  BY DEF SameNames
<1>14. NoNewNames
  <2>1. ASSUME NEW f \in enabled', NEW b \in ToSet(available'[f]) PROVE b \in Sites(available, enabled)
    <3>1. f \in File
      BY <1>1, <1>4, <1>6
    <3>2. CASE f = Default
      BY <1>2, <1>3, <1>7, <1>12, <2>1, <3>2
    <3>3. CASE f # Default /\ a[f] = available[f] /\ ~\E i \in moving : Primary(Site(i)) = f
      <4>1. f \in enabled
        BY <1>6, <3>3
      <4> QED BY <1>11, <2>1, <3>1, <3>3, <4>1 DEF Sites
    <3>4. CASE f # Default /\ \E i \in moving : ToSet(a[f]) = {Site(i)}
      BY <1>1, <1>7, <1>11, <2>1, <3>1, <3>4
    <3> QED BY <1>1, <3>1, <3>2, <3>3, <3>4
  <2> QED BY <1>4, <1>6, <1>13, <2>1 DEF NoNewNames, Sites
<1>15. NoNameLost
  <2> SUFFICES ASSUME NEW f \in File, Stays(f), NEW b \in ToSet(available[f])
               PROVE  \E g \in File : g \in enabled' /\ \E c \in ToSet(available'[g]) : SameNames(c, b)
    BY <1>9 DEF NoNameLost
  <2>1. f \in enabled'
    BY <1>6 DEF Stays
  <2>2. CASE f # Default
    BY <1>1, <1>11, <1>13, <2>1, <2>2
  <2>3. CASE f = Default /\ available'[Default] = s
    BY <1>13, <2>1, <2>3 DEF s
  <2>4. CASE f = Default /\ linked = moving /\ available'[Default] = k
    <3>1. PICK i \in DOMAIN s : Site(i) = b
      BY <1>3, <2>4 DEF s
    <3>2. CASE i \notin moving
      BY <1>2, <1>13, <2>1, <2>4, <3>1, <3>2
    <3>3. CASE i \in moving
      <4> DEFINE g == Primary(Site(i))
      <4>1. g \in File /\ g \in {Primary(Site(j)) : j \in linked}
        BY <1>1, <2>4, <3>3
      <4>2. PICK j \in moving : ToSet(a[g]) = {Site(j)} /\ Primary(Site(j)) = g /\ g # Default
        BY <1>1, <3>3
      <4>3. g # NoDomain
        <5> HIDE DEF g
        <5> QED BY <4>1, <4>2, NginxAssumption
      <4>4. Site(i) \in ToSet(s) /\ Site(j) \in ToSet(s)
        BY <1>1, <3>3
      <4>5. g \in ToSet(Site(i).names) /\ g \in ToSet(Site(j).names)
        BY <1>8, <4>2, <4>3, <4>4, PrimaryNamed
      <4>6. Site(j) \in ToSet(available'[g]) /\ g \in enabled'
        <5> HIDE DEF g
        <5> QED BY <1>6, <1>11, <4>1, <4>2
      <4> HIDE DEF g
      <4>7. SameNames(Site(j), Site(i))
        <5>1. SharesName(Site(j), Site(i))
          BY <4>5 DEF SharesName
        <5> QED BY <1>7, <4>4, <5>1 DEF NamesAgree
      <4> QED BY <3>1, <4>1, <4>6, <4>7
    <3> QED BY <3>2, <3>3
  <2> QED BY <1>12, <2>2, <2>3, <2>4
<1> QED BY <1>14, <1>15

LEMMA CertNames ==
    ASSUME SitesInv, Default \in enabled, NEW d \in Domain, Certify(d) PROVE NoNewNames /\ NoNameLost
<1>1. UNCHANGED <<enabled, provision>>
  BY DEF Certify
<1>2. \A f : Stays(f) <=> Stays(f)'
  BY <1>1 DEF Stays, Free
<1>3. CASE UNCHANGED available
  BY <1>1, <1>2, <1>3, StandStill
<1>4. CASE \E f \in enabled : \E at \in DOMAIN available[f] : Renewed(f, at, d)
  <2>1. \A g \in File :
            /\ \A b \in ToSet(available'[g]) : \E c \in ToSet(available[g]) : Like(b, c)
            /\ \A c \in ToSet(available[g]) : \E b \in ToSet(available'[g]) : Like(b, c)
    BY <1>4, CertIs
  <2>2. \A b, c : Like(b, c) => SameNames(b, c)
    BY LikeIs DEF SameNames
  <2>3. enabled \subseteq File
    BY DEF SitesInv
  <2>4. NoNewNames
    <3>1. ASSUME NEW g \in enabled, NEW b \in ToSet(available'[g])
          PROVE  \E c \in Sites(available, enabled) : SameNames(b, c)
      <4>1. PICK c \in ToSet(available[g]) : Like(b, c)
        BY <2>1, <2>3, <3>1
      <4> QED BY <2>2, <4>1 DEF Sites
    <3> QED BY <1>1, <3>1 DEF NoNewNames, Sites
  <2>5. NoNameLost
    BY <1>2, <2>1, <2>2 DEF NoNameLost
  <2> QED BY <2>4, <2>5
<1> QED BY <1>3, <1>4, CertAt

\* The steps that leave the overrides.
LEMMA NamesStep ==
    ASSUME HomeInv, NamesAgree(available, enabled), [NginxNext]_nginxVars, UNCHANGED overrides
    PROVE  NamesAgree(available', enabled') /\ NoNameLost
<1> USE DEF HomeInv
<1>0. Default \in enabled
  BY DEF NamesAgree
<1>1. CASE NoNewNames /\ NoNameLost
  BY <1>1, NamesKeep
<1>2. ASSUME UNCHANGED <<available, enabled>>, \A f \in File : Stays(f) => Stays(f)'
      PROVE  NoNewNames /\ NoNameLost
  BY <1>0, <1>2, StandStill
<1>3. ASSUME Free, UNCHANGED provision PROVE \A f \in File : Stays(f) /\ f \in enabled' => Stays(f)'
  BY <1>3 DEF Stays, Free
<1>4. ASSUME NEW d \in Domain, NEW www \in BOOLEAN, Add(d, www) \/ ProvisionAdd(d, www)
      PROVE  NamesAgree(available', enabled') /\ NoNameLost
  <2>1. Free /\ (Free' \/ provision'.domain = d) /\ (result' # "ok" => Free')
    BY <1>4 DEF Add, ProvisionAdd, Called, Free
  <2>2. CASE Refused("refused") \/ Refused("failed")
    <3>1. UNCHANGED <<available, enabled>> /\ Free'
      BY <2>1, <2>2 DEF Refused, disk
    <3>2. \A f \in File : Stays(f) => Stays(f)'
      BY <3>1 DEF Stays
    <3> QED BY <1>1, <1>2, <3>1, <3>2
  <2>3. CASE ~Configured(d) /\ available' = [available EXCEPT ![d] = AddedFile(d, www)] /\ enabled' \in {enabled \ {d}, enabled \cup {d}}
    BY <2>1, <2>3, AddNames
  <2> QED BY <1>4, <2>2, <2>3 DEF Add, ProvisionAdd, DomainAdd
<1>5. ASSUME NEW n \in File \ {Default}, NEW k \in Kind, Enable(k, n) \/ Disable(k, n) PROVE NoNewNames /\ NoNameLost
  <2>1. UNCHANGED <<available, enabled, provision>> /\ Free
    BY <1>5 DEF Enable, Disable, Refused, disk, Override, Called
  <2>2. \A f \in File : Stays(f) => Stays(f)'
    BY <2>1 DEF Stays, Free
  <2> QED BY <1>2, <2>1, <2>2
<1>6. ASSUME NEW on \in BOOLEAN, MaintenanceAll(on) PROVE NoNewNames /\ NoNameLost
  <2>1. UNCHANGED <<available, enabled, provision>> /\ Free
    BY <1>6 DEF MaintenanceAll, Refused, disk, Override, Called
  <2>2. \A f \in File : Stays(f) => Stays(f)'
    BY <2>1 DEF Stays, Free
  <2> QED BY <1>2, <2>1, <2>2
<1>7. ASSUME NEW n \in Domain \cup {NoDomain}, Migrate(n) PROVE NoNewNames /\ NoNameLost
  <2>1. Free /\ UNCHANGED provision
    BY <1>7 DEF Migrate, Called
  <2>2. CASE Refused("refused") \/ Refused("nothing")
    <3>1. UNCHANGED <<available, enabled>>
      BY <2>2 DEF Refused, disk
    <3> QED BY <1>2, <2>1, <3>1 DEF Stays, Free
  <2>3. CASE available' = [Moved(Movable(n)) EXCEPT ![Default] = Kept(Movable(n))] /\ enabled' = Linked(Movable(n))
    BY <2>1, <2>3, MoveNames
  <2> QED BY <1>7, <2>2, <2>3 DEF Migrate
<1>8. ASSUME NEW n \in Domain \cup {NoDomain}, MigrateFails(n) PROVE NoNewNames /\ NoNameLost
  <2>1. Free /\ UNCHANGED provision
    BY <1>8 DEF MigrateFails, Called
  <2>2. PICK linked, written : /\ linked \subseteq written /\ written \subseteq Movable(n)
                               /\ available' = Moved(written) /\ enabled' = Linked(linked)
    <3>1. PICK m, j \in 0 .. Len(available[Default]) :
                   /\ {i \in Movable(n) : i <= m} \subseteq {i \in Movable(n) : i <= j}
                   /\ available' = Moved({i \in Movable(n) : i <= j})
                   /\ enabled' = Linked({i \in Movable(n) : i <= m})
      BY <1>8 DEF MigrateFails
    <3> QED BY <3>1
  <2> QED BY <2>1, <2>2, MoveNames
<1>9. CASE ReloadOnly \/ \E d \in Domain : CertRemove(d)
  <2>1. UNCHANGED <<available, enabled, provision>> /\ Free
    BY <1>9 DEF ReloadOnly, CertRemove, disk, Called
  <2> QED BY <1>1, <1>2, <2>1 DEF Stays, Free
<1>10. ASSUME ~Free, provision' = [provision EXCEPT !.step = "idle"] PROVE Free' /\ \A f \in File : Stays(f) /\ f \in enabled' => Stays(f)'
  <2>1. Free'
    BY <1>10 DEF RestInv, Free
  <2> QED BY <2>1 DEF Stays
<1>11. ASSUME ~Free, Rollback(provision.domain), provision' = [provision EXCEPT !.step = "idle"] PROVE NoNewNames /\ NoNameLost
  <2>1. provision.domain \in Domain
    BY <1>11 DEF AddedInv
  <2>2. available' = [available EXCEPT ![provision.domain] = <<>>] /\ enabled' = enabled \ {provision.domain}
    BY <1>11 DEF Rollback
  <2> QED BY <1>0, <1>10, <1>11, <2>1, <2>2, RollNames
<1>12. ASSUME ~Free, UNCHANGED disk, provision' = [provision EXCEPT !.step = "idle"] PROVE NoNewNames /\ NoNameLost
  <2>1. UNCHANGED <<available, enabled>>
    BY <1>12 DEF disk
  <2>2. \A f \in File : Stays(f) => Stays(f)'
    BY <1>10, <1>12, <2>1 DEF Stays
  <2> QED BY <1>2, <2>1, <2>2
<1>13. CASE ProvisionCert
  <2>1. CASE provision' = [provision EXCEPT !.step = "reload"] /\ UNCHANGED disk
    <3>1. provision'.domain = provision.domain /\ ~Free /\ UNCHANGED <<available, enabled>>
      BY <1>13, <2>1 DEF RestInv, Free, ProvisionCert, disk
    <3>2. \A f \in File : Stays(f) => Stays(f)'
      BY <3>1 DEF Stays
    <3> QED BY <1>1, <1>2, <3>1, <3>2
  <2> QED BY <1>1, <1>11, <1>13, <2>1 DEF ProvisionCert, Free
<1>14. CASE ProvisionReload
  BY <1>1, <1>11, <1>12, <1>14 DEF ProvisionReload, Free
<1>15. CASE ModuleDies
  BY <1>1, <1>12, <1>15 DEF ModuleDies
<1>16. CASE OperatorEdits \/ UNCHANGED nginxVars
  <2>1. UNCHANGED <<available, enabled, provision>>
    BY <1>16 DEF OperatorEdits, nginxVars, disk
  <2> QED BY <1>1, <1>2, <2>1 DEF Stays, Free
<1>17. ASSUME NEW d \in Domain, Certify(d) PROVE NoNewNames /\ NoNameLost
  BY <1>0, <1>17, CertNames
<1> QED
  BY <1>1, <1>4, <1>5, <1>6, <1>7, <1>8, <1>9, <1>13, <1>14, <1>15, <1>16, <1>17 DEF NginxNext, Operation

LEMMA OnlyOverrides ==
    ASSUME [NginxNext]_nginxVars, ~UNCHANGED overrides
    PROVE  \/ \E n \in File \ {Default}, k \in Kind : Enable(k, n) \/ Disable(k, n)
           \/ \E on \in BOOLEAN : MaintenanceAll(on)
<1>1. ASSUME NEW d \in Domain, NEW www \in BOOLEAN, Add(d, www) \/ ProvisionAdd(d, www) PROVE UNCHANGED overrides
  BY <1>1, AddLeaves DEF Add, ProvisionAdd
<1>2. ASSUME NEW n \in Domain \cup {NoDomain}, Migrate(n) \/ MigrateFails(n) PROVE UNCHANGED overrides
  BY <1>2 DEF Migrate, MigrateFails, Refused, disk
<1>3. ReloadOnly \/ ModuleDies \/ OperatorEdits \/ UNCHANGED nginxVars => UNCHANGED overrides
  BY DEF ReloadOnly, ModuleDies, OperatorEdits, nginxVars, disk
<1>4. ProvisionCert \/ ProvisionReload => UNCHANGED overrides
  BY DEF ProvisionCert, ProvisionReload, Rollback, disk
<1>5. ASSUME NEW d \in Domain, Certify(d) \/ CertRemove(d) PROVE UNCHANGED overrides
  BY <1>5 DEF Certify, CertRemove, disk
<1> QED BY <1>1, <1>2, <1>3, <1>4, <1>5 DEF NginxNext, Operation

LEMMA OversStep == ASSUME HomeInv, NamesInv, [NginxNext]_nginxVars PROVE NamesInv'
<1>1. CASE UNCHANGED overrides
  BY <1>1, NamesStep, OversKeep DEF NamesInv
<1>2. CASE ~UNCHANGED overrides
  <2>1. \/ \E n \in File \ {Default}, k \in Kind : Enable(k, n) \/ Disable(k, n)
        \/ \E on \in BOOLEAN : MaintenanceAll(on)
    BY <1>2, OnlyOverrides
  <2>2. Called /\ UNCHANGED provision
    BY <2>1 DEF Enable, Disable, MaintenanceAll
  <2>3. \/ Refused("refused") \/ Refused("nothing")
        \/ Overlaid /\ UNCHANGED <<available, enabled>>
    BY <2>1, EnableLays, DisableLays, AllLays DEF HomeInv
  <2>4. Overlaid /\ UNCHANGED <<available, enabled>>
    BY <1>2, <2>3 DEF Refused, disk
  <2>5. OverInv'
    BY <2>2, <2>4, LaidKeeps DEF HomeInv, NamesInv, Called
  <2> QED BY <2>4, <2>5 DEF NamesInv
<1> QED BY <1>1, <1>2

\* A site under an override (suspend, maintenance) is dark under all of its names on the
\* port every site has, whatever is added, moved or certified around it, for any disk on
\* which sites that share a name share them all.
THEOREM OverriddenIsDark == ASSUME ManyHomes, ManyNames PROVE NginxSpec => []SiteDark
<1>1. NginxInit => HomeInv
  BY HomeInit
<1>2. NginxInit => NamesInv
  <2>1. NginxInit => NamesAgree(available, enabled)
    BY DEF NginxInit, ManyNames
  <2>2. ToSet(<<>>) = {}
    BY DEF ToSet
  <2>3. NginxInit => OverInv
    BY <2>2 DEF NginxInit, OverInv, Overs, Kind
  <2> QED BY <2>1, <2>3 DEF NamesInv
<1>3. HomeInv /\ [NginxNext]_nginxVars => HomeInv'
  BY SitesStep, RestStep, AddedStep DEF HomeInv
<1>4. HomeInv /\ NamesInv /\ [NginxNext]_nginxVars => NamesInv'
  BY OversStep
<1>5. HomeInv /\ NamesInv => TreeDark
  BY TreeIsDark
<1>6. NginxInit /\ TreeDark => SiteDark
  BY DEF NginxInit, TreeDark, DarkIn, SiteDark
<1>7. SiteDark /\ TreeDark' /\ [NginxNext]_nginxVars => SiteDark'
  <2> SUFFICES ASSUME SiteDark, TreeDark', [NginxNext]_nginxVars PROVE SiteDark'
    OBVIOUS
  <2>1. CASE running' = running
    BY <2>1 DEF SiteDark
  <2>2. CASE running' = Tree'
    BY <2>2 DEF TreeDark, DarkIn, SiteDark
  <2> QED BY <2>1, <2>2, RunsTree
<1> QED BY <1>1, <1>2, <1>3, <1>4, <1>5, <1>6, <1>7, PTL DEF NginxSpec

------------------------------------------------------------------------------
\* What the survey shows.

LEMMA ActiveIs == ASSUME SitesInv, RestInv PROVE ActiveAnswers
<1> DEFINE t == Tree
<1>1. DOMAIN t = 1 .. Len(t) /\ Len(t) \in Nat
  BY TreeHas DEF SitesInv
<1> SUFFICES ASSUME NEW i \in Serving, Status(i) = "active", NEW n \in ToSet(t[i].names), NEW p \in t[i].ports
             PROVE  AnswersFor(t, n, p) = i
  BY DEF ActiveAnswers
<1> DEFINE I == {q \in 1 .. Len(t) : n \in ToSet(t[q].names) /\ p \in t[q].ports}
           a == Min(I)
<1>2. AnswersFor(t, n, p) = IF I # {} THEN a ELSE 0
  BY DEF AnswersFor, SelectInSeq
<1>3. i \in DOMAIN t /\ i \in I
  BY <1>1 DEF Serving
<1>4. a \in I
  <2>1. I \in SUBSET Nat
    BY <1>1
  <2> HIDE DEF I
  <2> QED BY <1>3, <2>1, Smallest
<1> HIDE DEF a
<1>5. a \in DOMAIN t /\ n \in ToSet(t[a].names) /\ p \in t[a].ports
  BY <1>1, <1>4
<1>6. SharesName(t[i], t[a]) /\ Conflicts(t[i], t[a])
  BY <1>5 DEF SharesName, Conflicts
<1>7. Colliding(i) = {} /\ "suspended" \notin Covered(i) /\ "maintenance" \notin Covered(i)
  BY DEF Status
<1>8. a \notin DOMAIN t \ Serving
  <2> SUFFICES ASSUME a \in DOMAIN t \ Serving PROVE FALSE
    OBVIOUS
  <2>1. IsOverride(t[a])
    BY DEF Serving
  <2>2. t[a].root \in Covered(i)
    BY <1>6 DEF Covered
  <2> QED BY <1>7, <2>1, <2>2 DEF IsOverride, Kind
<1>9. a = i
  BY <1>5, <1>6, <1>7, <1>8 DEF Colliding
<1> HIDE DEF I
<1> QED BY <1>2, <1>3, <1>9

LEMMA ReadFirst ==
    ASSUME SitesInv, RestInv, NEW i \in Serving, Primary(Tree[i]) # NoDomain
    PROVE  /\ ReadDomain(Name(i)) \in Serving /\ ReadDomain(Name(i)) # 0
           /\ Primary(Tree[ReadDomain(Name(i))]) = Name(i)
<1> DEFINE t == Tree
           n == Primary(t[i])
           I == {q \in 1 .. Len(t) : ~IsOverride(t[q]) /\ Primary(t[q]) = n}
           a == Min(I)
<1>1. DOMAIN t = 1 .. Len(t) /\ Len(t) \in Nat
  BY TreeHas DEF SitesInv
<1>2. SelectInSeq(t, LAMBDA b : ~IsOverride(b) /\ Primary(b) = n) = IF I # {} THEN a ELSE 0
  BY DEF SelectInSeq
<1>3. i \in I
  BY <1>1 DEF Serving
<1>4. a \in I
  <2>1. I \in SUBSET Nat
    BY <1>1
  <2> HIDE DEF I
  <2> QED BY <1>3, <2>1, Smallest
<1> HIDE DEF a
<1>5. a \in DOMAIN t /\ ~IsOverride(t[a]) /\ Primary(t[a]) = n /\ a # 0
  BY <1>1, <1>4
<1>6. ReadDomain(n) = a
  <2> DEFINE first == SelectInSeq(t, LAMBDA b : ~IsOverride(b) /\ Primary(b) = n)
             other == SelectInSeq(t, LAMBDA b : ~IsOverride(b) /\ Mentions(b, n))
  <2>1. ReadDomain(n) = IF first # 0 THEN first ELSE other
    BY DEF ReadDomain
  <2>2. I # {}
    BY <1>3
  <2>3. first = a
    BY <1>2, <2>2
  <2> HIDE DEF first, other, I
  <2> QED BY <1>5, <2>1, <2>3
<1>7. a \in Serving
  BY <1>5 DEF Serving
<1> HIDE DEF I
<1> QED BY <1>5, <1>6, <1>7 DEF Name

\* Two blocks of one name that are served share the port every site has.
LEMMA NamesCollide ==
    ASSUME SitesInv, RestInv, PortInv, NEW i \in Serving, NEW j \in Serving, SharesName(Tree[i], Tree[j])
    PROVE  Conflicts(Tree[i], Tree[j])
<1>1. ASSUME NEW q \in Serving, NEW n \in ToSet(Tree[q].names) PROVE 80 \in Tree[q].ports
  <2>1. Tree[q] \in Overs(overrides) \cup Sites(available, enabled) /\ ~IsOverride(Tree[q])
    BY TreeHas DEF Serving, SitesInv
  <2>2. CASE Tree[q] \in Overs(overrides)
    BY <2>1, <2>2 DEF PortInv
  <2>3. CASE Tree[q] \in Sites(available, enabled)
    <3>1. Tree[q].names # <<>>
      BY <1>1 DEF ToSet
    <3> QED BY <2>3, <3>1 DEF Sites, PortInv, OnEighty, SitesInv
  <2> QED BY <2>1, <2>2, <2>3
<1>2. PICK n : n \in ToSet(Tree[i].names) /\ n \in ToSet(Tree[j].names)
  BY DEF SharesName
<1> QED BY <1>1, <1>2 DEF Conflicts

LEMMA OffersAre == ASSUME SitesInv, RestInv, PortInv PROVE OfferFindsItsRow
<1>1. ASSUME NEW i \in Rows, Offers(i) # {}
      PROVE  LET page == Focus(Name(i)) IN
             /\ page.found /\ page.status = Status(i) /\ page.offers = Offers(i)
             /\ page.names = ToSet(Tree[i].names)
  <2> DEFINE j == ReadDomain(Name(i))
  <2>1. i \in Serving /\ Primary(Tree[i]) # NoDomain
    BY DEF Rows
  <2>2. j \in Serving /\ j # 0 /\ Primary(Tree[j]) = Primary(Tree[i])
    BY <2>1, ReadFirst DEF Name
  <2>3. Status(i) # "conflict"
    BY <1>1 DEF Offers, Kind
  <2>4. Colliding(i) = {}
    BY <2>3 DEF Status
  <2> HIDE DEF j
  <2>5. SharesName(Tree[i], Tree[j])
    <3>1. Tree[i].names \in Seq(Host) /\ Tree[j].names \in Seq(Host)
      <4>1. Tree[i] \in AnyBlock /\ Tree[j] \in AnyBlock
        BY <2>1, <2>2, TreeHas DEF Serving, SitesInv
      <4> QED BY <4>1 DEF AnyBlock, Blocks
    <3>2. Primary(Tree[i]) \in ToSet(Tree[i].names) /\ Primary(Tree[j]) \in ToSet(Tree[j].names)
      BY <2>1, <2>2, <3>1, PrimaryIs
    <3> QED BY <2>2, <3>2 DEF SharesName
  <2>6. j = i
    <3>1. Conflicts(Tree[i], Tree[j])
      BY <2>1, <2>2, <2>5, NamesCollide
    <3> QED BY <2>2, <2>4, <3>1 DEF Colliding
  <2>7. i # 0 /\ ReadDomain(Name(i)) = i
    BY <2>2, <2>6 DEF j
  <2>8. Focus(Name(i)) = [found |-> TRUE, names |-> ToSet(Tree[i].names), status |-> Status(i),
                          with |-> Colliding(i), offers |-> Offers(i)]
    BY <2>7 DEF Focus
  <2> QED BY <2>8
<1>2. ASSUME NEW f \in File, NEW only \in SourceOffers(f) \cup BlockOffers(f) PROVE Targets(only) # {}
  <2>1. Source(f).migratable = Migratable(f)
    BY DEF Source
  <2>2. PICK b \in Migratable(f) : only = NoDomain \/ only = Primary(b)
    BY <1>2, <2>1 DEF SourceOffers, BlockOffers
  <2>3. f = Default /\ b \in ToSet(available[Default]) /\ Primary(b) # NoDomain
    BY <2>2 DEF Migratable
  <2>4. PICK i \in DOMAIN available[Default] : Site(i) = b
    BY <2>3 DEF ToSet, Site
  <2>5. i \in Targets(only)
    BY <2>2, <2>3, <2>4 DEF Targets
  <2> QED BY <2>5
<1> QED BY <1>1, <1>2 DEF OfferFindsItsRow

LEMMA MoveBlocks ==
    ASSUME SitesInv, NEW only, NEW moving \in SUBSET Movable(only),
           available' = Moved(moving) \/ available' = [Moved(moving) EXCEPT ![Default] = Kept(moving)]
    PROVE  \A f \in File : \A b \in ToSet(available'[f]) : \E g \in File : b \in ToSet(available[g])
<1> DEFINE a == Moved(moving)
           k == Kept(moving)
<1>1. /\ a \in [File -> Seq(SiteBlock)]
      /\ \A f \in File :
             \/ a[f] = available[f] /\ ~\E i \in moving : Primary(Site(i)) = f
             \/ /\ f # Default /\ ToSet(available[f]) = {}
                /\ \E i \in moving : a[f] = <<Site(i)>> /\ ToSet(a[f]) = {Site(i)} /\ Primary(Site(i)) = f
      /\ \A i \in moving : Site(i) \in ToSet(available[Default])
  BY MovedIs
<1>2. \A b : b \in ToSet(k) <=> \E i \in DOMAIN available[Default] \ moving : Site(i) = b
  BY KeptIs
<1>3. \A b \in ToSet(k) : b \in ToSet(available[Default])
  BY <1>2 DEF ToSet, Site
<1>4. Default \in File
  BY NginxAssumption
<1>5. available' = a \/ available' = [a EXCEPT ![Default] = k]
  OBVIOUS
<1> HIDE DEF a, k
<1>6. ASSUME NEW f \in File, NEW b \in ToSet(a[f]) PROVE \E g \in File : b \in ToSet(available[g])
  BY <1>1, <1>4, <1>6
<1>7. \A f \in File : available'[f] = a[f] \/ (f = Default /\ available'[f] = k)
  BY <1>1, <1>4, <1>5
<1> QED BY <1>3, <1>4, <1>6, <1>7

\* What a step does to the sites: it finds them, or brings one with the port every site has.
LEMMA EightyStep == ASSUME HomeInv, OnEighty(available), [NginxNext]_nginxVars PROVE OnEighty(available')
<1> USE DEF HomeInv
<1>1. ASSUME \A f \in File : \A b \in ToSet(available'[f]) : \E g \in File : b \in ToSet(available[g])
      PROVE  OnEighty(available')
  BY <1>1 DEF OnEighty
<1>2. CASE UNCHANGED available
  BY <1>2
<1>3. ASSUME NEW d \in Domain, NEW www \in BOOLEAN, DomainAdd(d, www) PROVE OnEighty(available')
  <2>1. CASE available' = [available EXCEPT ![d] = AddedFile(d, www)]
    <3>1. PICK x \in SiteBlock : ToSet(AddedFile(d, www)) = {x} /\ 80 \in x.ports
      BY AddedIs
    <3>2. \A f \in File : available'[f] = available[f] \/ available'[f] = AddedFile(d, www)
      BY <2>1 DEF SitesInv
    <3> QED BY <3>1, <3>2 DEF OnEighty
  <2> QED BY <1>2, <1>3, <2>1 DEF DomainAdd, Refused, disk
<1>4. ASSUME NEW n \in Domain \cup {NoDomain}, Migrate(n) PROVE OnEighty(available')
  BY <1>1, <1>2, <1>4, MoveBlocks DEF Migrate, Refused, disk
<1>5. ASSUME NEW n \in Domain \cup {NoDomain}, MigrateFails(n) PROVE OnEighty(available')
  BY <1>1, <1>5, MoveBlocks DEF MigrateFails
<1>6. ASSUME NEW d, Rollback(d) PROVE OnEighty(available')
  <2>1. \A f \in File : available'[f] = available[f] \/ available'[f] = <<>>
    BY <1>6 DEF Rollback, SitesInv
  <2>2. ToSet(<<>>) = {}
    BY DEF ToSet
  <2> QED BY <2>1, <2>2 DEF OnEighty
<1>7. ASSUME NEW d \in Domain, Certify(d) PROVE OnEighty(available')
  <2>1. CASE \E f \in enabled : \E at \in DOMAIN available[f] : Renewed(f, at, d)
    <3>1. \A g \in File : \A b \in ToSet(available'[g]) : \E c \in ToSet(available[g]) : Like(b, c)
      BY <2>1, CertIs
    <3> QED BY <3>1 DEF OnEighty, Like
  <2> QED BY <1>2, <1>7, <2>1, CertAt
<1>8. ASSUME \/ \E n \in File \ {Default}, k \in Kind : Enable(k, n) \/ Disable(k, n)
             \/ \E on \in BOOLEAN : MaintenanceAll(on)
             \/ ReloadOnly \/ ModuleDies \/ OperatorEdits \/ UNCHANGED nginxVars
             \/ \E d \in Domain : CertRemove(d)
      PROVE  UNCHANGED available
  BY <1>8 DEF Enable, Disable, MaintenanceAll, Override, Refused, ReloadOnly, ModuleDies, OperatorEdits, CertRemove, nginxVars, disk
<1>9. ProvisionCert \/ ProvisionReload => UNCHANGED available \/ \E d : Rollback(d)
  BY DEF ProvisionCert, ProvisionReload, disk
<1> QED
  BY <1>2, <1>3, <1>4, <1>5, <1>6, <1>7, <1>8, <1>9 DEF NginxNext, Operation, Add, ProvisionAdd

LEMMA PortStep == ASSUME HomeInv, PortInv, [NginxNext]_nginxVars PROVE PortInv'
<1>1. OnEighty(available')
  BY EightyStep DEF PortInv
<1>2. CASE UNCHANGED overrides
  BY <1>1, <1>2 DEF PortInv, Overs
<1>3. CASE ~UNCHANGED overrides
  <2>1. \/ \E n \in File \ {Default}, k \in Kind : Enable(k, n) \/ Disable(k, n)
        \/ \E on \in BOOLEAN : MaintenanceAll(on)
    BY <1>3, OnlyOverrides
  <2>2. Overlaid
    BY <1>3, <2>1, EnableLays, DisableLays, AllLays DEF HomeInv, Refused, disk
  <2>3. ASSUME NEW o \in Overs(overrides'), ~IsOverride(o) PROVE 80 \in o.ports
    <3>1. PICK k \in Kind, f \in File : o \in ToSet(overrides'[k][f])
      BY <2>3 DEF Overs, Kind
    <3>2. CASE overrides'[k][f] = overrides[k][f]
      <4>1. o \in Overs(overrides)
        BY <3>1, <3>2, OverHas
      <4> QED BY <2>3, <4>1 DEF PortInv
    <3>3. CASE overrides'[k][f] = <<>>
      BY <3>1, <3>3 DEF ToSet
    <3>4. ASSUME NEW i \in Serving, overrides'[k][f] = OverrideOf(k, Tree[i]) PROVE 80 \in o.ports
      <4>1. Tree[i] \in AnyBlock
        BY TreeHas DEF Serving, HomeInv, SitesInv
      <4> QED BY <2>3, <3>1, <3>4, <4>1, OverrideIs DEF HomeInv
    <3> QED BY <2>2, <3>2, <3>3, <3>4 DEF Overlaid
  <2> QED BY <1>1, <2>3 DEF PortInv
<1> QED BY <1>2, <1>3

\* A site shown as active is the one that answers, and what a row offers is done to the
\* block it shows (cmdReplSurvey, cmdReplFocus, inlineActionsFor), for any disk on which
\* every site with a name has the port 80.
THEOREM SurveyIsTrue == ASSUME ManyHomes, ManyPorts PROVE NginxSpec => []RowsTellTheTruth
<1>1. NginxInit => HomeInv
  BY HomeInit
<1>2. NginxInit => PortInv
  <2>1. ToSet(<<>>) = {}
    BY DEF ToSet
  <2> QED BY <2>1 DEF NginxInit, PortInv, ManyPorts, Overs, Kind
<1>3. HomeInv /\ [NginxNext]_nginxVars => HomeInv'
  BY SitesStep, RestStep, AddedStep DEF HomeInv
<1>4. HomeInv /\ PortInv /\ [NginxNext]_nginxVars => PortInv'
  BY PortStep
<1>5. HomeInv /\ PortInv => RowsTellTheTruth
  BY ActiveIs, OffersAre DEF HomeInv, RowsTellTheTruth
<1> QED BY <1>1, <1>2, <1>3, <1>4, <1>5, PTL DEF NginxSpec

------------------------------------------------------------------------------
\* Fail2ban.

Ops == {"create", "delete", "activate", "deactivate", "set", "add", "remove"}
Tuning == {"set", "add", "remove"}

\* A call at work; the settings of a loaded jail.
CallState == [op : Ops, jail : Jail, arg : {Unset} \cup Value \cup Addr \cup Jail,
              at : {"disk", "dropin", "filter", "server"}, clean : BOOLEAN]
Loaded    == [loaded : {TRUE}, retry : {Unset} \cup Value, ignore : SUBSET Addr]

\* Every variable has its type; what a call was given is of the kind it takes.
Shape ==
    /\ file \in [Layers -> [Jail -> Section \cup {NoSection}]]
    /\ \A j \in Jail : file["below"][j] \in Below \cup {NoSection} /\ file["after"][j] \in After \cup {NoSection}
    /\ filters \subseteq Jail /\ server \in {"up", "silent", "down"}
    /\ live \in [Jail -> Loaded \cup {NotLoaded}]
    /\ call \in CallState \cup {Idle}
    /\ call # Idle => /\ call.op = "set" => call.arg \in Value
                      /\ call.op \in {"add", "remove"} => call.arg \in Addr
    /\ asked \in [Jail -> {"none", "on", "off"}] /\ excused \subseteq Jail

\* A drop-in names the filter of its own jail or none, and a filter that is named
\* is there; a creation has made it, a deletion has taken the drop-in away first.
FilterInv ==
    /\ \A j \in Jail : file["ours"][j] # NoSection /\ file["ours"][j].filter # Unset =>
           file["ours"][j].filter = j /\ j \in filters
    /\ At("create", "dropin") => call.jail \in filters
    /\ call # Idle /\ call.at = "filter" => file["ours"][call.jail] = NoSection /\ call.arg \in {Unset, call.jail}

Base == Shape /\ FilterInv

\* The drop-in of j becomes q.
Placed(j, q) == file' = [file EXCEPT !["ours"][j] = q]

\* One drop-in is replaced: all else stays.
LEMMA Replaced ==
    ASSUME Shape, NEW j \in Jail, NEW q \in Section \cup {NoSection}, Placed(j, q)
    PROVE  /\ file' \in [Layers -> [Jail -> Section \cup {NoSection}]]
           /\ file'["ours"][j] = q
           /\ \A k \in Jail : k # j => file'["ours"][k] = file["ours"][k]
           /\ file'["below"] = file["below"] /\ file'["after"] = file["after"]
BY DEF Shape, Layers, Placed

\* What a drop-in says when it is written.
LEMMA Written ==
    ASSUME NEW s \in Section, NEW e \in {Unset, "true", "false"}
    PROVE  LET q == [s EXCEPT !.enabled = e]
           IN  /\ q \in Section /\ q # NoSection
               /\ q.enabled = e /\ q.filter = s.filter /\ q.retry = s.retry /\ q.ignore = s.ignore
BY DEF Section, NoSection

\* What is read of a drop-in is a section.
LEMMA DropinType == ASSUME Shape, NEW j \in Jail PROVE Dropin(j) \in Section
BY DEF Shape, Dropin, Blank, Section, Layers

\* A parameter has the type of the sections that name it.
LEMMA EffectiveType ==
    ASSUME Shape, NEW j \in Jail
    PROVE  /\ Effective(j, "enabled") \in {Unset, "true", "false"}
           /\ Effective(j, "retry") \in {Unset} \cup Value
           /\ Effective(j, "ignore") \in {Unset} \cup SUBSET Addr
<1>1. \A l \in Layers : file[l][j] \in Section \cup {NoSection}
  BY DEF Shape
<1>2. \A l \in Layers : file[l][j] # NoSection => /\ file[l][j]["enabled"] \in {Unset, "true", "false"}
                                                  /\ file[l][j]["retry"] \in {Unset} \cup Value
                                                  /\ file[l][j]["ignore"] \in {Unset} \cup SUBSET Addr
  BY <1>1 DEF Section
<1> QED BY <1>2 DEF Effective, ParamLayer, Layers

\* What tuning writes: the drop-in with one setting changed, and the switch as it is.
LEMMA Tuned ==
    ASSUME Fail2banAssumption, Shape, TuneDisk
    PROVE  \E s \in Section :
               /\ WriteDropin(call.jail, s, Stamp(call.jail)) /\ s.filter = Dropin(call.jail).filter
               /\ s.retry = (IF call.op = "set" THEN call.arg ELSE Dropin(call.jail).retry)
               /\ call.op = "set" => s.ignore = Dropin(call.jail).ignore
               /\ call.op # "set" =>
                      LET ips == Listed(call.jail, call.arg, call.op = "add")
                      IN  s.ignore = IF ips = {} THEN Unset ELSE ips
<1> DEFINE j == call.jail
           ips == Listed(j, call.arg, call.op = "add")
<1>1. j \in Jail /\ call.op \in Tuning /\ Dropin(j) \in Section
  BY DropinType DEF TuneDisk, Shape, CallState, Tuning
<1>2. CASE call.op = "set"
  <2>1. call.arg \in Value
    BY <1>2 DEF Shape, TuneDisk
  <2>2. PICK s : s = [Dropin(j) EXCEPT !.retry = call.arg]
    OBVIOUS
  <2>3. s \in Section /\ s.filter = Dropin(j).filter /\ s.retry = call.arg /\ s.ignore = Dropin(j).ignore
    BY <1>1, <2>1, <2>2 DEF Section
  <2> QED BY <1>2, <2>2, <2>3 DEF TuneDisk
<1>3. CASE call.op # "set"
  <2>1. ips \in SUBSET Addr
    <3>1. call.arg \in Addr
      BY <1>1, <1>3 DEF Shape, TuneDisk, Tuning
    <3>2. Dropin(j).ignore # Unset => Dropin(j).ignore \in SUBSET Addr
      BY <1>1 DEF Section
    <3> QED BY <3>1, <3>2 DEF Listed
  <2> HIDE DEF ips
  <2>2. PICK s : s = [Dropin(j) EXCEPT !.ignore = IF ips = {} THEN Unset ELSE ips]
    OBVIOUS
  <2>3. /\ s \in Section /\ s.filter = Dropin(j).filter /\ s.retry = Dropin(j).retry
        /\ s.ignore = IF ips = {} THEN Unset ELSE ips
    BY <1>1, <2>1, <2>2 DEF Section
  <2> QED BY <1>3, <2>2, <2>3 DEF TuneDisk, ips
<1> QED BY <1>2, <1>3

\* What fail2ban makes of the files is what a loaded jail has.
LEMMA InForceType ==
    ASSUME Fail2banAssumption, Shape, NEW j \in Jail
    PROVE  InForce(j) \in Loaded /\ InForce(j) # NotLoaded
BY EffectiveType DEF InForce, Loaded, NotLoaded, Fail2banAssumption

------------------------------------------------------------------------------
\* The configuration suctl finds has none of its drop-ins.
LEMMA InitBase == ASSUME Fail2banAssumption PROVE Init => Base
BY DEF Init, Base, Shape, FilterInv, Layers, At, Idle, CallState, NotLoaded, Loaded, NoSection

\* Every step keeps the types and the filters of the drop-ins.
LEMMA BaseStep == ASSUME Fail2banAssumption, Base, [Next]_vars PROVE Base'
<1> USE DEF Base
<1>1. CASE UNCHANGED vars
  BY <1>1 DEF vars, Shape, FilterInv, At
<1>2. ASSUME NEW j \in Jail, NEW op \in {"create", "delete", "activate", "deactivate"}, Call(op, j, Unset)
      PROVE  Base'
  BY <1>2 DEF Call, Shape, FilterInv, At, Idle, CallState, Ops
<1>3. ASSUME NEW j \in Jail, NEW v \in Value, Call("set", j, v)
      PROVE  Base'
  BY <1>3 DEF Call, Shape, FilterInv, At, Idle, CallState, Ops
<1>4. ASSUME NEW j \in Jail, NEW ip \in Addr, NEW op \in {"add", "remove"}, Call(op, j, ip)
      PROVE  Base'
  BY <1>4 DEF Call, Shape, FilterInv, At, Idle, CallState, Ops
<1>5. CASE CreateFilter
  BY <1>5 DEF CreateFilter, Refuse, Done, Goto, Bounds, Shape, FilterInv, At, Idle, CallState, Ops
<1>6. CASE CreateDropin
  <2> DEFINE j == call.jail
             s == [Blank EXCEPT !.filter = j]
  <2>1. j \in Jail /\ j \in filters /\ WriteDropin(j, s, "false") /\ call' = Idle
    BY <1>6 DEF CreateDropin, At, Done, Shape, FilterInv, CallState
  <2>2. PICK q : q = [s EXCEPT !.enabled = "false"]
    OBVIOUS
  <2>3. q \in Section /\ q # NoSection /\ q.filter = j
    BY <2>1, <2>2 DEF Blank, Section, NoSection
  <2>4. Placed(j, q)
    BY <2>1, <2>2 DEF WriteDropin, Placed
  <2> HIDE DEF s, j
  <2>5. /\ file' \in [Layers -> [Jail -> Section \cup {NoSection}]]
        /\ file'["ours"][j] = q
        /\ \A k \in Jail : k # j => file'["ours"][k] = file["ours"][k]
        /\ file'["below"] = file["below"] /\ file'["after"] = file["after"]
    BY <2>1, <2>3, <2>4, Replaced
  <2>6. /\ filters' = filters /\ server' = server /\ live' = live
        /\ asked' \in [Jail -> {"none", "on", "off"}] /\ excused' \subseteq Jail
    BY <2>1, <1>6 DEF CreateDropin, Asks, Excuse, Shape, j
  <2>7. Shape'
    BY <2>1, <2>5, <2>6 DEF Shape
  <2>8. FilterInv'
    BY <2>1, <2>3, <2>5, <2>6 DEF FilterInv, At
  <2> QED BY <2>7, <2>8
<1>7. CASE DeleteDropin
  <2> DEFINE j == call.jail
  <2>1. CASE file["ours"][j] = NoSection
    BY <1>7, <2>1 DEF DeleteDropin, Refuse, Done, Bounds, Shape, FilterInv, At, Idle
  <2>2. CASE file["ours"][j] # NoSection
    <3>1. /\ j \in Jail /\ file' = [file EXCEPT !["ours"][j] = NoSection] /\ call # Idle /\ call \in CallState
          /\ call.op = "delete" /\ call' = [call EXCEPT !.arg = file["ours"][j].filter, !.at = "filter"]
      BY <1>7, <2>2 DEF DeleteDropin, At, Shape, CallState
    <3>2. file["ours"][j].filter \in {Unset, j} /\ file["ours"][j].filter \in {Unset} \cup Jail
      BY <3>1, <2>2 DEF FilterInv
    <3>3. /\ call' \in CallState /\ call' # Idle /\ call'.op = "delete" /\ call'.at = "filter"
          /\ call'.jail = j /\ call'.arg \in {Unset, j}
      BY <3>1, <3>2 DEF CallState, Idle
    <3>4. /\ file' \in [Layers -> [Jail -> Section \cup {NoSection}]] /\ file'["ours"][j] = NoSection
          /\ \A k \in Jail : k # j => file'["ours"][k] = file["ours"][k]
          /\ file'["below"] = file["below"] /\ file'["after"] = file["after"]
      BY <3>1 DEF Shape, Layers
    <3>5. Shape'
      BY <1>7, <2>2, <3>1, <3>3, <3>4 DEF DeleteDropin, Asks, Excuse, Bounds, Shape
    <3>6. FilterInv'
      BY <1>7, <2>2, <3>1, <3>3, <3>4 DEF DeleteDropin, FilterInv, At
    <3> QED BY <3>5, <3>6
  <2> QED BY <2>1, <2>2
<1>8. CASE DeleteFilter
  BY <1>8 DEF DeleteFilter, Goto, Bounds, Shape, FilterInv, At, Idle, CallState, Ops
<1>9. CASE DeleteStop
  BY <1>9 DEF DeleteStop, Done, Goto, Bounds, Shape, FilterInv, At, Idle, CallState, Ops
<1>10. ASSUME NEW op \in {"activate", "deactivate"}, NEW e \in {"true", "false"}, SwitchDisk(op, e)
       PROVE  Base'
  <2> DEFINE j == call.jail
             s == Dropin(j)
  <2>1. /\ call # Idle /\ call \in CallState /\ call.op = op /\ call.at = "disk"
        /\ j \in Jail /\ WriteDropin(j, s, e) /\ call' = [call EXCEPT !.at = "server"]
    BY <1>10 DEF SwitchDisk, At, Goto, Shape, CallState
  <2>2. call' \in CallState /\ call' # Idle /\ call'.op = op /\ call'.at = "server" /\ call'.jail = j
    BY <2>1 DEF CallState, Idle
  <2>3. PICK q : q = [s EXCEPT !.enabled = e]
    OBVIOUS
  <2>4. q \in Section /\ q # NoSection /\ q.filter = s.filter /\ Placed(j, q)
    <3>1. s \in Section /\ e \in {Unset, "true", "false"}
      BY <2>1, DropinType
    <3>2. q \in Section /\ q # NoSection /\ q.filter = s.filter
      BY <3>1, <2>3, Written
    <3>3. Placed(j, q)
      BY <2>1, <2>3 DEF WriteDropin, Placed
    <3> QED BY <3>2, <3>3
  <2>5. s.filter # Unset => s.filter = j /\ j \in filters
    BY <2>1 DEF FilterInv, Dropin, Blank
  <2> HIDE DEF s, j
  <2>6. /\ file' \in [Layers -> [Jail -> Section \cup {NoSection}]]
        /\ file'["ours"][j] = q
        /\ \A k \in Jail : k # j => file'["ours"][k] = file["ours"][k]
        /\ file'["below"] = file["below"] /\ file'["after"] = file["after"]
    BY <2>1, <2>4, Replaced
  <2>7. /\ filters' = filters /\ server' = server /\ live' = live
        /\ asked' \in [Jail -> {"none", "on", "off"}] /\ excused' \subseteq Jail
    BY <2>1, <1>10 DEF SwitchDisk, Asks, Excuse, Shape, j
  <2>8. Shape'
    BY <2>2, <2>6, <2>7 DEF Shape
  <2>9. FilterInv'
    BY <2>2, <2>4, <2>5, <2>6, <2>7 DEF FilterInv, At
  <2> QED BY <2>8, <2>9
<1>11. CASE ActivateReload
  BY <1>11, InForceType DEF ActivateReload, Done, Goto, Bounds, Asks, Settle, Shape, FilterInv, At, Idle, CallState, Ops
<1>12. CASE DeactivateStop
  BY <1>12 DEF DeactivateStop, Done, Goto, Bounds, Asks, Settle, Shape, FilterInv, At, Idle, CallState, Ops
<1>13. CASE TuneDisk
  <2> DEFINE j == call.jail
  <2>1. /\ call # Idle /\ call \in CallState /\ call.op \in Tuning /\ call.at = "disk"
        /\ j \in Jail /\ call' = [call EXCEPT !.at = "server"]
    BY <1>13 DEF TuneDisk, Goto, Shape, CallState, Tuning
  <2>2. /\ call' \in CallState /\ call' # Idle /\ call'.op = call.op /\ call'.at = "server" /\ call'.jail = j
        /\ call'.arg = call.arg
    BY <2>1 DEF CallState, Idle
  <2>3. PICK s \in Section : s.filter = Dropin(j).filter /\ WriteDropin(j, s, Stamp(j))
    BY <1>13, Tuned
  <2>4. PICK q : q = [s EXCEPT !.enabled = Stamp(j)]
    OBVIOUS
  <2>5. q \in Section /\ q # NoSection /\ q.filter = s.filter /\ Placed(j, q)
    <3>1. Stamp(j) \in {Unset, "true", "false"}
      BY <2>1, EffectiveType DEF Stamp
    <3>2. q \in Section /\ q # NoSection /\ q.filter = s.filter
      BY <3>1, <2>4, Written
    <3>3. Placed(j, q)
      BY <2>3, <2>4 DEF WriteDropin, Placed
    <3> QED BY <3>2, <3>3
  <2>6. s.filter # Unset => s.filter = j /\ j \in filters
    BY <2>1, <2>3 DEF FilterInv, Dropin, Blank
  <2> HIDE DEF j
  <2>7. /\ file' \in [Layers -> [Jail -> Section \cup {NoSection}]]
        /\ file'["ours"][j] = q
        /\ \A k \in Jail : k # j => file'["ours"][k] = file["ours"][k]
        /\ file'["below"] = file["below"] /\ file'["after"] = file["after"]
    BY <2>1, <2>5, Replaced
  <2>8. /\ filters' = filters /\ server' = server /\ live' = live /\ asked' = asked
        /\ excused' \subseteq Jail
    BY <2>1, <1>13 DEF TuneDisk, Excuse, Shape, j
  <2>9. Shape'
    <3>1. call.op = "set" => call.arg \in Value
      BY <2>1 DEF Shape
    <3>2. call.op \in {"add", "remove"} => call.arg \in Addr
      BY <2>1 DEF Shape
    <3> QED BY <2>2, <2>7, <2>8, <3>1, <3>2 DEF Shape
  <2>10. FilterInv'
    <3>1. ~At("create", "dropin")' /\ call'.at # "filter"
      BY <2>2 DEF At
    <3>2. \A k \in Jail : file'["ours"][k] # NoSection /\ file'["ours"][k].filter # Unset =>
             file'["ours"][k].filter = k /\ k \in filters'
      BY <2>5, <2>6, <2>7, <2>8 DEF FilterInv
    <3> QED BY <3>1, <3>2 DEF FilterInv
  <2> QED BY <2>9, <2>10
<1>14. CASE TuneServer
  <2> DEFINE j == call.jail
  <2>1. j \in Jail /\ call \in CallState /\ call # Idle
    BY <1>14 DEF TuneServer, Shape, CallState
  <2>2. live' \in [Jail -> Loaded \cup {NotLoaded}]
    <3>1. CASE UNCHANGED live
      BY <3>1 DEF Shape
    <3>2. CASE HasJail(j) /\ call.op = "set" /\ live' = [live EXCEPT ![j].retry = call.arg]
      <4>1. live[j] \in Loaded /\ call.arg \in Value
        BY <3>2, <2>1 DEF HasJail, Shape
      <4>2. [live[j] EXCEPT !.retry = call.arg] \in Loaded
        BY <4>1 DEF Loaded
      <4> QED BY <3>2, <4>2 DEF Shape
    <3>3. CASE HasJail(j) /\ call.op = "add" /\ live' = [live EXCEPT ![j].ignore = @ \cup {call.arg}]
      <4>1. live[j] \in Loaded /\ call.arg \in Addr
        BY <3>3, <2>1 DEF HasJail, Shape
      <4>2. [live[j] EXCEPT !.ignore = @ \cup {call.arg}] \in Loaded
        BY <4>1 DEF Loaded
      <4> QED BY <3>3, <4>2 DEF Shape
    <3>4. CASE HasJail(j) /\ call.op = "remove" /\ live' = [live EXCEPT ![j].ignore = @ \ {call.arg}]
      <4>1. live[j] \in Loaded /\ call.arg \in Addr
        BY <3>4, <2>1 DEF HasJail, Shape
      <4>2. [live[j] EXCEPT !.ignore = @ \ {call.arg}] \in Loaded
        BY <4>1 DEF Loaded
      <4> QED BY <3>4, <4>2 DEF Shape
    <3> QED BY <1>14, <3>1, <3>2, <3>3, <3>4 DEF TuneServer
  <2>3. excused' \subseteq Jail /\ call' = Idle /\ UNCHANGED <<file, filters, server, asked>>
    BY <1>14 DEF TuneServer, Done, Settle, Shape
  <2> QED BY <2>2, <2>3 DEF Shape, FilterInv, At
<1>15. CASE Killed
  BY <1>15 DEF Killed, Done, Shape, FilterInv, At, Idle, CallState, Ops
<1>16. ASSUME NEW s \in {"silent", "down"}, Fault(s)
       PROVE  Base'
  BY <1>16 DEF Fault, Shape, FilterInv, At
<1>17. CASE Restart
  BY <1>17, InForceType, ZenonT(30) DEF Restart, Bounds, Muddles, Shape, FilterInv, At, Idle, CallState, Ops
<1>18. CASE Answers
  BY <1>18 DEF Answers, Bounds, Shape, FilterInv, At
<1>19. CASE Edit
  <2>1. PICK j \in Jail :
            /\ \/ \E s \in Below \ {file["below"][j]} : file' = [file EXCEPT !["below"][j] = s]
               \/ \E s \in After \ {file["after"][j]} : file' = [file EXCEPT !["after"][j] = s]
            /\ Excuse(j) /\ Muddles({j})
    BY <1>19 DEF Edit
  <2>2. /\ file' \in [Layers -> [Jail -> Section \cup {NoSection}]] /\ file'["ours"] = file["ours"]
        /\ \A k \in Jail : file'["below"][k] \in Below \cup {NoSection} /\ file'["after"][k] \in After \cup {NoSection}
    BY <2>1 DEF Shape, Layers, Fail2banAssumption
  <2>3. /\ call' \in CallState \cup {Idle}
        /\ call = Idle => call' = Idle
        /\ call # Idle => /\ call'.op = call.op /\ call'.at = call.at /\ call'.jail = call.jail
                          /\ call'.arg = call.arg
    BY <2>1 DEF Muddles, Shape, CallState, Idle
  <2>4. /\ filters' = filters /\ server' = server /\ live' = live /\ asked' = asked
        /\ excused' \subseteq Jail
    BY <2>1, <1>19 DEF Edit, Excuse, Shape
  <2>5. CASE call = Idle
    <3>1. call' = Idle
      BY <2>3, <2>5
    <3>2. Shape'
      BY <3>1, <2>2, <2>4 DEF Shape
    <3>3. FilterInv'
      BY <3>1, <2>2, <2>4 DEF FilterInv, At
    <3> QED BY <3>2, <3>3
  <2>6. CASE call # Idle
    <3>1. Shape'
      <4>1. call.op = "set" => call.arg \in Value
        BY <2>6 DEF Shape
      <4>2. call.op \in {"add", "remove"} => call.arg \in Addr
        BY <2>6 DEF Shape
      <4> QED BY <4>1, <4>2, <2>2, <2>3, <2>4, <2>6 DEF Shape
    <3>2. FilterInv'
      BY <2>2, <2>3, <2>4, <2>6 DEF FilterInv, At
    <3> QED BY <3>1, <3>2
  <2> QED BY <2>5, <2>6
<1> QED
  BY <1>1, <1>2, <1>3, <1>4, <1>5, <1>6, <1>7, <1>8, <1>9, <1>10, <1>11, <1>12, <1>13, <1>14,
     <1>15, <1>16, <1>17, <1>18, <1>19 DEF Next

\* Every variable has its type, and a drop-in suctl made names a filter that is
\* there, wherever a creation or a deletion is cut off (jail_create, jail_delete).
THEOREM FiltersAreThere == ASSUME Fail2banAssumption PROVE Spec => []DropinHasFilter
<1>1. Base => DropinHasFilter
  <2> SUFFICES ASSUME Base PROVE DropinHasFilter
    OBVIOUS
  <2>1. TypeOK
    BY DEF Base, Shape, TypeOK, Loaded
  <2> QED BY <2>1 DEF Base, FilterInv, DropinHasFilter
<1> QED BY <1>1, InitBase, BaseStep, PTL DEF Spec

------------------------------------------------------------------------------
\* The operator's files neither outrank what suctl writes nor are outranked by it
\* unawares: none sorts after the drop-ins, and those before, [DEFAULT] among them,
\* name neither a filter nor addresses to ignore.
PlainFiles ==
    /\ After \subseteq {NoSection} /\ DefaultIgnore = {}
    /\ \A s \in Below : s # NoSection => s.filter = Unset /\ s.ignore = Unset

\* Our drop-in for j, and what is read before it.
Ours(j)  == file["ours"][j]
Under(j) == file["below"][j]

\* Then a drop-in has the last word, and a jail has the filter of its name.
LEMMA LastWord ==
    ASSUME PlainFiles, Base, NEW j \in Jail
    PROVE  /\ Effective(j, "enabled") = IF Ours(j) # NoSection /\ Ours(j).enabled # Unset THEN Ours(j).enabled
                                        ELSE IF Under(j) # NoSection THEN Under(j).enabled ELSE Unset
           /\ Effective(j, "retry") = IF Ours(j) # NoSection /\ Ours(j).retry # Unset THEN Ours(j).retry
                                      ELSE IF Under(j) # NoSection THEN Under(j).retry ELSE Unset
           /\ Effective(j, "ignore") = IF Ours(j) # NoSection THEN Ours(j).ignore ELSE Unset
           /\ FilterOf(j) = j
<1>1. file["after"][j] = NoSection /\ file["below"][j] \in Below \cup {NoSection}
  BY DEF PlainFiles, Base, Shape
<1>2. file["below"][j] # NoSection => file["below"][j].filter = Unset /\ file["below"][j].ignore = Unset
  BY <1>1 DEF PlainFiles
<1>3. file["ours"][j] # NoSection /\ file["ours"][j].filter # Unset => file["ours"][j].filter = j
  BY DEF Base, FilterInv
<1> QED BY <1>1, <1>2, <1>3 DEF Effective, ParamLayer, FilterOf, Ours, Under

\* Where no file of a jail changes, nothing changes that is read from them.
LEMMA SameFiles ==
    ASSUME NEW j \in Jail, \A l \in Layers : file'[l][j] = file[l][j]
    PROVE  Enabled(j)' = Enabled(j) /\ FilterOf(j)' = FilterOf(j) /\ InForce(j)' = InForce(j)
<1>1. file'["ours"][j] = file["ours"][j] /\ file'["below"][j] = file["below"][j] /\ file'["after"][j] = file["after"][j]
  BY DEF Layers
<1>2. /\ Effective(j, "enabled")' = Effective(j, "enabled") /\ Effective(j, "filter")' = Effective(j, "filter")
      /\ Effective(j, "retry")' = Effective(j, "retry") /\ Effective(j, "ignore")' = Effective(j, "ignore")
  BY <1>1 DEF Effective, ParamLayer
<1> QED BY <1>2 DEF Enabled, FilterOf, InForce

\* Tuning leaves the switch as it is: the drop-in says of it what already held.
LEMMA TuneFiles ==
    ASSUME Fail2banAssumption, PlainFiles, Base, TuneDisk, NEW j \in Jail, j = call.jail
    PROVE  /\ Ours(j)' # NoSection /\ Ours(j)'.enabled = Effective(j, "enabled")
           /\ Effective(j, "enabled")' = Effective(j, "enabled")
           /\ Effective(j, "retry")' = (IF call.op = "set" THEN call.arg ELSE Effective(j, "retry"))
           /\ call.op = "set" => Effective(j, "ignore")' = Effective(j, "ignore")
           /\ call.op # "set" =>
                  LET ips == Listed(j, call.arg, call.op = "add")
                  IN  Effective(j, "ignore")' = IF ips = {} THEN Unset ELSE ips
           /\ \A k \in Jail, l \in Layers : k # j => file'[l][k] = file[l][k]
<1> DEFINE ips == Listed(j, call.arg, call.op = "add")
<1>1. Shape /\ (call.op = "set" => call.arg \in Value)
  BY DEF TuneDisk, Base, Shape, CallState
<1>2. PICK s \in Section :
          /\ WriteDropin(j, s, Stamp(j))
          /\ s.retry = (IF call.op = "set" THEN call.arg ELSE Dropin(j).retry)
          /\ call.op = "set" => s.ignore = Dropin(j).ignore
          /\ call.op # "set" => s.ignore = IF ips = {} THEN Unset ELSE ips
  BY <1>1, Tuned
<1>3. PICK q : q = [s EXCEPT !.enabled = Stamp(j)]
  OBVIOUS
<1>4. /\ q \in Section /\ q # NoSection /\ q.enabled = Stamp(j) /\ q.retry = s.retry /\ q.ignore = s.ignore
      /\ Placed(j, q)
  <2>1. Stamp(j) \in {Unset, "true", "false"}
    BY <1>1, EffectiveType DEF Stamp
  <2>2. /\ q \in Section /\ q # NoSection /\ q.enabled = Stamp(j)
        /\ q.retry = s.retry /\ q.ignore = s.ignore
    BY <2>1, <1>3, Written
  <2>3. Placed(j, q)
    BY <1>2, <1>3 DEF WriteDropin, Placed
  <2> QED BY <2>2, <2>3
<1> HIDE DEF ips
<1>5. /\ file'["ours"][j] = q
      /\ \A k \in Jail : k # j => file'["ours"][k] = file["ours"][k]
      /\ file'["below"] = file["below"] /\ file'["after"] = file["after"]
  BY <1>1, <1>4, Replaced
<1>6. /\ Effective(j, "enabled")' = (IF q.enabled # Unset THEN q.enabled
                                     ELSE IF Under(j) # NoSection THEN Under(j).enabled ELSE Unset)
      /\ Effective(j, "retry")' = (IF q.retry # Unset THEN q.retry
                                   ELSE IF Under(j) # NoSection THEN Under(j).retry ELSE Unset)
      /\ Effective(j, "ignore")' = q.ignore
  <2>1. file["after"][j] = NoSection /\ file["below"][j] \in Below \cup {NoSection}
    BY DEF PlainFiles, Base, Shape
  <2>2. file["below"][j] # NoSection => file["below"][j].ignore = Unset
    BY <2>1 DEF PlainFiles
  <2> QED BY <1>4, <1>5, <2>1, <2>2 DEF Effective, ParamLayer, Under
<1>7. Stamp(j) = Effective(j, "enabled") /\ Dropin(j) = (IF Ours(j) = NoSection THEN Blank ELSE Ours(j))
  BY DEF Stamp, Dropin, Ours
<1>8. Effective(j, "enabled")' = Effective(j, "enabled")
  BY <1>4, <1>6, <1>7, LastWord
<1>9. Effective(j, "retry")' = (IF call.op = "set" THEN call.arg ELSE Effective(j, "retry"))
  BY <1>1, <1>2, <1>4, <1>6, <1>7, LastWord DEF Blank, Fail2banAssumption
<1>10. call.op = "set" => Effective(j, "ignore")' = Effective(j, "ignore")
  BY <1>2, <1>4, <1>6, <1>7, LastWord DEF Blank
<1>11. call.op # "set" => Effective(j, "ignore")' = IF ips = {} THEN Unset ELSE ips
  BY <1>2, <1>4, <1>6
<1>12. \A k \in Jail, l \in Layers : k # j => file'[l][k] = file[l][k]
  BY <1>5 DEF Layers
<1>13. Ours(j)' = q
  BY <1>5 DEF Ours
<1> QED BY <1>4, <1>7, <1>8, <1>9, <1>10, <1>11, <1>12, <1>13 DEF ips

\* The drop-in is there and says that of the switch.
Switched(j, says) == Ours(j) # NoSection /\ Ours(j).enabled = says

\* What the last switch asked for is what the drop-in says.
AskInv ==
    /\ \A j \in Jail : /\ asked[j] = "on"  => Switched(j, "true")
                       /\ asked[j] = "off" => Switched(j, "false")
    /\ At("activate", "server")   => Switched(call.jail, "true")
    /\ At("deactivate", "server") => Switched(call.jail, "false")

\* A drop-in has the last word, so it is what holds.
LEMMA AskHolds == ASSUME Fail2banAssumption, PlainFiles, Base, AskInv PROVE AskedHolds
<1> SUFFICES ASSUME NEW j \in Jail
             PROVE  (asked[j] = "on" => Enabled(j)) /\ (asked[j] = "off" => ~Enabled(j))
  BY DEF AskedHolds
<1>1. Unset # "true" /\ Unset # "false"
  BY DEF Fail2banAssumption
<1> QED BY <1>1, LastWord DEF AskInv, Switched, Enabled

\* Every step keeps what the last switch asked for in the drop-in.
LEMMA AskStep == ASSUME Fail2banAssumption, PlainFiles, Base, AskInv, [Next]_vars PROVE AskInv'
<1> USE DEF AskInv, Switched
<1>1. Shape /\ (call # Idle => call \in CallState /\ call.jail \in Jail)
  BY DEF Base, Shape, CallState
<1>2. CASE UNCHANGED vars
  BY <1>2 DEF vars, At, Ours
<1>3. ASSUME NEW j \in Jail, NEW op \in Ops, NEW arg, Call(op, j, arg)
      PROVE  AskInv'
  BY <1>3 DEF Call, At, Ours
<1>4. CASE CreateFilter \/ DeleteFilter \/ DeleteStop
  BY <1>4, <1>1 DEF CreateFilter, DeleteFilter, DeleteStop, Refuse, Done, Goto, Bounds, At, Ours, Idle, CallState
<1>5. CASE CreateDropin
  <2>1. /\ call.jail \in Jail /\ call' = Idle /\ asked' = [asked EXCEPT ![call.jail] = "none"]
        /\ \E q : file' = [file EXCEPT !["ours"][call.jail] = q]
    BY <1>5, <1>1 DEF CreateDropin, Done, Asks, At, WriteDropin
  <2>2. \A k \in Jail : k # call.jail => file'["ours"][k] = file["ours"][k]
    BY <2>1, <1>1 DEF Shape, Layers
  <2> QED BY <2>1, <2>2, <1>1 DEF At, Ours, Shape
<1>6. CASE DeleteDropin
  <2>1. CASE file["ours"][call.jail] = NoSection
    BY <1>6, <2>1 DEF DeleteDropin, Refuse, Done, At, Ours
  <2>2. CASE file["ours"][call.jail] # NoSection
    <3>1. /\ call.jail \in Jail /\ call \in CallState /\ asked' = [asked EXCEPT ![call.jail] = "none"]
          /\ \E q : call' = [call EXCEPT !.arg = q, !.at = "filter"]
          /\ \E q : file' = [file EXCEPT !["ours"][call.jail] = q]
      BY <1>6, <2>2, <1>1 DEF DeleteDropin, Asks, At
    <3>2. \A k \in Jail : k # call.jail => file'["ours"][k] = file["ours"][k]
      BY <3>1, <1>1 DEF Shape, Layers
    <3>3. call'.at = "filter"
      BY <3>1 DEF CallState
    <3> QED BY <3>1, <3>2, <3>3, <1>1 DEF At, Ours, Shape
  <2> QED BY <2>1, <2>2
<1>7. ASSUME NEW op \in {"activate", "deactivate"}, NEW e \in {"true", "false"},
             op = "activate" => e = "true", op = "deactivate" => e = "false", SwitchDisk(op, e)
      PROVE  AskInv'
  <2> DEFINE j == call.jail
  <2>1. /\ j \in Jail /\ call \in CallState /\ call.op = op /\ asked' = [asked EXCEPT ![j] = "none"]
        /\ call' = [call EXCEPT !.at = "server"] /\ WriteDropin(j, Dropin(j), e)
    BY <1>7, <1>1 DEF SwitchDisk, Asks, At, Goto
  <2>2. call'.op = op /\ call'.jail = j
    BY <2>1 DEF CallState
  <2>3. PICK q : q = [Dropin(j) EXCEPT !.enabled = e]
    OBVIOUS
  <2>4. q \in Section /\ q # NoSection /\ q.enabled = e /\ Placed(j, q)
    <3>1. Dropin(j) \in Section /\ e \in {Unset, "true", "false"}
      BY <2>1, <1>1, DropinType
    <3>2. q \in Section /\ q # NoSection /\ q.enabled = e
      BY <3>1, <2>3, Written
    <3>3. Placed(j, q)
      BY <2>1, <2>3 DEF WriteDropin, Placed
    <3> QED BY <3>2, <3>3
  <2> HIDE DEF j
  <2>5. file'["ours"][j] = q /\ \A k \in Jail : k # j => file'["ours"][k] = file["ours"][k]
    BY <2>1, <2>4, <1>1, Replaced
  <2> QED BY <2>1, <2>2, <2>4, <2>5, <1>1, <1>7 DEF At, Ours, Shape
<1>8. CASE ActivateReload
  <2>1. At("activate", "server") /\ call' = Idle /\ file' = file /\ asked' \in {asked, [asked EXCEPT ![call.jail] = "on"]}
    BY <1>8 DEF ActivateReload, Done, Asks
  <2> QED BY <2>1, <1>1 DEF At, Ours, Shape
<1>9. CASE DeactivateStop
  <2>1. At("deactivate", "server") /\ call' = Idle /\ file' = file /\ asked' \in {asked, [asked EXCEPT ![call.jail] = "off"]}
    BY <1>9 DEF DeactivateStop, Done, Asks
  <2> QED BY <2>1, <1>1 DEF At, Ours, Shape
<1>10. CASE TuneDisk
  <2> DEFINE j == call.jail
  <2>1. /\ j \in Jail /\ call \in CallState /\ call.op \in Tuning /\ asked' = asked
        /\ call' = [call EXCEPT !.at = "server"]
    BY <1>10, <1>1 DEF TuneDisk, Goto, Tuning
  <2>2. call'.op \in Tuning
    BY <2>1 DEF CallState
  <2>3. PICK k \in Jail : k = j
    BY <2>1
  <2>4. Ours(k)' # NoSection /\ Ours(k)'.enabled = Effective(k, "enabled")
    BY <1>10, <2>3, TuneFiles
  <2>5. \A i \in Jail : i # k => Ours(i)' = Ours(i)
    BY <1>10, <2>3, TuneFiles DEF Ours, Layers
  <2>6. Switched(k, "true") \/ Switched(k, "false") => Effective(k, "enabled") = Ours(k).enabled
    BY LastWord DEF Fail2banAssumption
  <2> QED BY <2>1, <2>2, <2>4, <2>5, <2>6 DEF At, Tuning
<1>11. CASE TuneServer \/ Killed \/ Answers
  BY <1>11 DEF TuneServer, Killed, Answers, Done, At, Ours, Bounds
<1>12. ASSUME NEW s, Fault(s)
       PROVE  AskInv'
  BY <1>12 DEF Fault, At, Ours
<1>13. CASE Restart \/ Edit
  <2>1. file'["ours"] = file["ours"] /\ asked' = asked /\ \E js : Muddles(js)
    BY <1>13, <1>1 DEF Restart, Edit, Shape, Layers
  <2>2. /\ call = Idle => call' = Idle
        /\ call # Idle => call'.op = call.op /\ call'.at = call.at /\ call'.jail = call.jail
    BY <2>1, <1>1 DEF Muddles, CallState, Idle
  <2> QED BY <2>1, <2>2 DEF At, Ours
<1> QED
  BY <1>2, <1>3, <1>4, <1>5, <1>6, <1>7, <1>8, <1>9, <1>10, <1>11, <1>12, <1>13 DEF Next, Ops

\* Tuning flips no jail.
LEMMA TuneKeeps == ASSUME Fail2banAssumption, PlainFiles, Base, TuneDisk, NEW j \in Jail PROVE Enabled(j)' = Enabled(j)
<1>1. PICK i \in Jail : i = call.jail
  BY DEF TuneDisk, Base, Shape, CallState
<1>2. CASE j = i
  <2>1. Effective(j, "enabled")' = Effective(j, "enabled")
    BY <1>1, <1>2, TuneFiles
  <2> QED BY <2>1 DEF Enabled
<1>3. CASE j # i
  <2>1. \A l \in Layers : file'[l][j] = file[l][j]
    BY <1>1, <1>3, TuneFiles
  <2> QED BY <2>1, SameFiles
<1> QED BY <1>2, <1>3

\* No step takes back what the last switch asked for, and tuning flips no jail
\* (_effective_enabled, "never flips run state").
THEOREM SwitchesStand == ASSUME Fail2banAssumption, PlainFiles PROVE Spec => SwitchStands
<1>1. Init => AskInv
  BY DEF Init, AskInv, At, Idle
<1>2. Base /\ AskInv => AskedHolds
  BY AskHolds
<1>3. Base /\ TuneDisk => \A j \in Jail : Enabled(j)' = Enabled(j)
  BY TuneKeeps
<1>4. Base /\ AskInv /\ [Next]_vars => AskInv'
  BY AskStep
<1> QED BY <1>1, <1>2, <1>3, <1>4, InitBase, BaseStep, PTL DEF Spec, SwitchStands

------------------------------------------------------------------------------
\* The settings of a loaded jail with the change of the call at work made.
Changed(now) ==
    [loaded |-> TRUE,
     retry  |-> IF call.op = "set" THEN call.arg ELSE now.retry,
     ignore |-> IF call.op = "set" THEN now.ignore
                ELSE IF call.op = "add" THEN now.ignore \cup {call.arg} ELSE now.ignore \ {call.arg}]

\* What runs is what the files say; what runs is one change behind them.
InStep(j) == live[j] # NotLoaded => Enabled(j) /\ j \in filters /\ live[j] = InForce(j)
Behind(j) == live[j] # NotLoaded => Enabled(j) /\ j \in filters /\ Changed(live[j]) = InForce(j)

\* A jail that no fault excuses is in step; the one a call is at work on is excused
\* between the disk and the server, and if it was in step before, it is behind.
StepInv ==
    /\ \A j \in Jail : j \notin excused => InStep(j)
    /\ call # Idle => /\ call.at \in {"filter", "server"} => call.jail \in excused
                      /\ call.at = "disk" /\ call.clean => call.jail \notin excused
                      /\ call.at = "server" /\ call.op \in Tuning /\ call.clean => Behind(call.jail)

\* The disk half of tuning leaves a jail that was in step one change behind.
LEMMA TuneBehind ==
    ASSUME Fail2banAssumption, PlainFiles, Base, TuneDisk, NEW j \in Jail, j = call.jail, InStep(j)
    PROVE  Behind(j)'
<1>1. /\ call \in CallState /\ call.op \in Tuning
      /\ call'.op = call.op /\ call'.arg = call.arg /\ live' = live /\ filters' = filters
  BY DEF TuneDisk, Base, Shape, CallState, Tuning, Goto
<1>2. CASE live[j] = NotLoaded
  BY <1>1, <1>2 DEF Behind
<1>3. CASE live[j] # NotLoaded
  <2>1. Enabled(j) /\ j \in filters /\ live[j] = InForce(j)
    BY <1>3 DEF InStep
  <2>2. Enabled(j)' = Enabled(j)
    BY TuneKeeps
  <2>3. Effective(j, "retry")' = (IF call.op = "set" THEN call.arg ELSE Effective(j, "retry"))
    BY TuneFiles
  <2>4. InForce(j).retry = Effective(j, "retry") /\ InForce(j)'.retry = Effective(j, "retry")'
    BY DEF InForce
  <2>5. InForce(j)'.ignore = Changed(live[j])'.ignore
    <3>1. /\ InForce(j).ignore = (IF Effective(j, "ignore") = Unset THEN {} ELSE Effective(j, "ignore"))
          /\ InForce(j)'.ignore = (IF Effective(j, "ignore")' = Unset THEN {} ELSE Effective(j, "ignore")')
      BY DEF InForce, PlainFiles
    <3>2. CASE call.op = "set"
      <4>1. Effective(j, "ignore")' = Effective(j, "ignore")
        BY <3>2, TuneFiles
      <4> QED BY <4>1, <3>1, <3>2, <2>1, <1>1 DEF Changed
    <3>3. CASE call.op # "set"
      <4>1. PICK ips : ips = Listed(j, call.arg, call.op = "add")
        OBVIOUS
      <4>2. Effective(j, "ignore")' = IF ips = {} THEN Unset ELSE ips
        BY <3>3, <4>1, TuneFiles
      <4>3. Dropin(j).ignore = Effective(j, "ignore")
        BY LastWord DEF Dropin, Ours, Blank
      <4>4. ips = IF call.op = "add" THEN InForce(j).ignore \cup {call.arg} ELSE InForce(j).ignore \ {call.arg}
        BY <4>1, <4>3, <3>1 DEF Listed
      <4>5. ips # Unset
        <5>1. call.arg \in Addr
          BY <1>1, <3>3 DEF Base, Shape, TuneDisk, Tuning
        <5>2. InForce(j) \in Loaded
          BY InForceType DEF Base
        <5>3. ips \in SUBSET Addr
          BY <4>4, <5>1, <5>2 DEF Loaded
        <5> QED BY <5>3 DEF Fail2banAssumption
      <4> QED BY <4>2, <4>4, <4>5, <3>1, <3>3, <2>1, <1>1 DEF Changed
    <3> QED BY <3>2, <3>3
  <2>6. InForce(j)'.retry = Changed(live[j])'.retry
    BY <2>1, <2>3, <2>4, <1>1 DEF Changed
  <2>7. Changed(live[j])' = InForce(j)'
    BY <2>5, <2>6 DEF Changed, InForce
  <2> QED BY <2>1, <2>2, <2>7, <1>1 DEF Behind
<1> QED BY <1>2, <1>3

\* Where neither the files of a jail nor what the server has of it change, nor its
\* filter goes, it stays in step.
LEMMA StaysInStep ==
    ASSUME NEW j \in Jail, \A l \in Layers : file'[l][j] = file[l][j], live'[j] = live[j],
           j \in filters => j \in filters', InStep(j)
    PROVE  InStep(j)'
<1>1. Enabled(j)' = Enabled(j) /\ InForce(j)' = InForce(j)
  BY SameFiles
<1>2. live[j] = NotLoaded <=> live'[j] = NotLoaded
  OBVIOUS
<1> QED BY <1>1, <1>2 DEF InStep

\* Where the server has all that the files say, it is in step.
LEMMA Reloaded ==
    ASSUME Fail2banAssumption, PlainFiles, Base, NEW j \in Jail, file' = file, filters' = filters,
           live'[j] = IF Loads(j) THEN InForce(j) ELSE NotLoaded
    PROVE  InStep(j)'
<1>1. Enabled(j)' = Enabled(j) /\ InForce(j)' = InForce(j)
  BY SameFiles
<1>2. Loads(j) => Enabled(j) /\ j \in filters
  BY LastWord DEF Loads
<1> QED BY <1>1, <1>2 DEF InStep

\* The server half of tuning brings a jail that is behind in step.
LEMMA CaughtUp ==
    ASSUME Base, TuneServer, NEW j \in Jail, j = call.jail, Behind(j), excused' # excused
    PROVE  InStep(j)'
<1>1. /\ live[j] # NotLoaded /\ file' = file /\ filters' = filters
      /\ \/ call.op = "set"    /\ live' = [live EXCEPT ![j].retry = call.arg]
         \/ call.op = "add"    /\ live' = [live EXCEPT ![j].ignore = @ \cup {call.arg}]
         \/ call.op = "remove" /\ live' = [live EXCEPT ![j].ignore = @ \ {call.arg}]
  BY DEF TuneServer, HasJail
<1>2. live[j] \in Loaded
  BY <1>1 DEF Base, Shape
<1>3. live'[j] = Changed(live[j])
  <2>1. CASE call.op = "set"
    <3>1. live'[j] = [live[j] EXCEPT !.retry = call.arg]
      BY <1>1, <2>1 DEF Base, Shape
    <3> QED BY <3>1, <1>2, <2>1 DEF Changed, Loaded
  <2>2. CASE call.op = "add"
    <3>1. live'[j] = [live[j] EXCEPT !.ignore = @ \cup {call.arg}]
      BY <1>1, <2>2 DEF Base, Shape
    <3> QED BY <3>1, <1>2, <2>2 DEF Changed, Loaded
  <2>3. CASE call.op = "remove"
    <3>1. live'[j] = [live[j] EXCEPT !.ignore = @ \ {call.arg}]
      BY <1>1, <2>3 DEF Base, Shape
    <3> QED BY <3>1, <1>2, <2>3 DEF Changed, Loaded
  <2> QED BY <1>1, <2>1, <2>2, <2>3
<1>4. Enabled(j)' = Enabled(j) /\ InForce(j)' = InForce(j)
  BY <1>1, SameFiles
<1> QED BY <1>1, <1>3, <1>4 DEF Behind, InStep

\* Every step keeps the jails in step that no fault excuses.
LEMMA StepStep == ASSUME Fail2banAssumption, PlainFiles, Base, StepInv, [Next]_vars PROVE StepInv'
<1> USE DEF StepInv
<1> DEFINE Intact == \A k \in Jail : k = call.jail /\ k \notin excused' => InStep(k)'
           Others  == \A k \in Jail : k # call.jail => \/ k \in excused'
                                                      \/ /\ k \notin excused /\ live'[k] = live[k]
                                                         /\ \A l \in Layers : file'[l][k] = file[l][k]
                                                         /\ k \in filters => k \in filters'
<1>1. Shape /\ (call # Idle => call \in CallState /\ call.jail \in Jail)
  BY DEF Base, Shape, CallState
<1>2. ASSUME Others, call.jail \in Jail
      PROVE  Intact => \A k \in Jail : k \notin excused' => InStep(k)'
  <2>1. ASSUME NEW k \in Jail, k # call.jail, k \notin excused'
        PROVE  InStep(k)'
    <3>1. /\ InStep(k) /\ live'[k] = live[k] /\ \A l \in Layers : file'[l][k] = file[l][k]
          /\ k \in filters => k \in filters'
      BY <1>2, <2>1
    <3> QED BY <3>1, StaysInStep
  <2> QED BY <2>1
<1>3. ASSUME file' = file, live' = live, filters \subseteq filters', excused \subseteq excused'
      PROVE  \A k \in Jail : k \notin excused' => InStep(k)'
  BY <1>3, StaysInStep
<1>4. ASSUME call.jail \in Jail, live' = live, filters' = filters, excused' = excused \cup {call.jail},
             \E q : file' = [file EXCEPT !["ours"][call.jail] = q]
      PROVE  \A k \in Jail : k \notin excused' => InStep(k)'
  <2>1. \A k \in Jail, l \in Layers : k # call.jail => file'[l][k] = file[l][k]
    BY <1>4, <1>1 DEF Shape, Layers
  <2> QED BY <1>4, <2>1, StaysInStep
<1>5. CASE UNCHANGED vars
  <2>1. \A k \in Jail : k \notin excused' => InStep(k)'
    BY <1>3, <1>5 DEF vars
  <2>2. call # Idle => Behind(call.jail)' = Behind(call.jail)
    BY <1>5, <1>1, SameFiles DEF vars, Behind, Changed
  <2> QED BY <2>1, <2>2, <1>5 DEF vars
<1>6. ASSUME NEW j \in Jail, NEW op \in Ops, NEW arg, Call(op, j, arg)
      PROVE  StepInv'
  <2>1. \A k \in Jail : k \notin excused' => InStep(k)'
    BY <1>3, <1>6 DEF Call
  <2> QED BY <2>1, <1>6 DEF Call
<1>7. CASE CreateFilter
  <2>1. \A k \in Jail : k \notin excused' => InStep(k)'
    BY <1>3, <1>7 DEF CreateFilter, Refuse
  <2>2. call' = Idle \/ call'.at = "dropin"
    BY <1>7, <1>1 DEF CreateFilter, Refuse, Done, Goto, At, CallState
  <2> QED BY <2>1, <2>2
<1>8. CASE CreateDropin
  <2>1. call.jail \in Jail /\ call' = Idle
    BY <1>8, <1>1 DEF CreateDropin, Done, At
  <2>2. \A k \in Jail : k \notin excused' => InStep(k)'
    BY <2>1, <1>4, <1>8 DEF CreateDropin, WriteDropin, Excuse
  <2> QED BY <2>1, <2>2
<1>9. CASE DeleteDropin
  <2>1. CASE file["ours"][call.jail] = NoSection
    BY <1>9, <2>1, <1>3 DEF DeleteDropin, Refuse, Done
  <2>2. CASE file["ours"][call.jail] # NoSection
    <3>1. /\ call.jail \in Jail /\ call \in CallState /\ \E q : call' = [call EXCEPT !.arg = q, !.at = "filter"]
          /\ excused' = excused \cup {call.jail}
      BY <1>9, <2>2, <1>1 DEF DeleteDropin, At, Excuse
    <3>2. \A k \in Jail : k \notin excused' => InStep(k)'
      BY <3>1, <2>2, <1>4, <1>9 DEF DeleteDropin
    <3>3. call'.at = "filter" /\ call'.jail = call.jail
      BY <3>1 DEF CallState
    <3> QED BY <3>1, <3>2, <3>3
  <2> QED BY <2>1, <2>2
<1>10. CASE DeleteFilter
  <2>1. /\ call # Idle /\ call.jail \in Jail /\ call.op = "delete" /\ call.arg \in {Unset, call.jail}
        /\ call.jail \in excused /\ call' = [call EXCEPT !.at = "server"]
        /\ filters' \in {filters, filters \ {call.arg}} /\ UNCHANGED <<file, live, excused>>
    BY <1>10, <1>1 DEF DeleteFilter, At, Base, FilterInv, Goto
  <2>2. Others /\ Intact
    BY <2>1 DEF Fail2banAssumption
  <2>3. call'.at = "server" /\ call'.jail = call.jail /\ call'.op = "delete"
    BY <2>1, <1>1 DEF CallState
  <2> QED BY <2>1, <2>2, <2>3, <1>2 DEF Tuning
<1>11. CASE DeleteStop
  <2>1. call.jail \in Jail /\ call' = Idle
    BY <1>11, <1>1 DEF DeleteStop, Done, At
  <2>2. Others /\ call.jail \in excused'
    BY <2>1, <1>11, <1>1 DEF DeleteStop, At, Shape
  <2> QED BY <2>1, <2>2, <1>2
<1>12. ASSUME NEW op \in {"activate", "deactivate"}, NEW e, SwitchDisk(op, e)
       PROVE  StepInv'
  <2>1. /\ call.jail \in Jail /\ call \in CallState /\ call' = [call EXCEPT !.at = "server"]
        /\ call.op = op /\ excused' = excused \cup {call.jail}
    BY <1>12, <1>1 DEF SwitchDisk, At, Goto, Excuse
  <2>2. \A k \in Jail : k \notin excused' => InStep(k)'
    BY <2>1, <1>4, <1>12 DEF SwitchDisk, WriteDropin
  <2>3. call'.at = "server" /\ call'.jail = call.jail /\ call'.op = op
    BY <2>1 DEF CallState
  <2> QED BY <2>1, <2>2, <2>3 DEF Tuning
<1>13. CASE ActivateReload
  <2>1. call # Idle /\ call.jail \in Jail /\ call' = Idle /\ file' = file /\ filters' = filters
    BY <1>13, <1>1 DEF ActivateReload, At, Done
  <2>2. CASE UNCHANGED <<live, excused>>
    BY <2>1, <2>2, <1>3
  <2>3. CASE /\ live' = [live EXCEPT ![call.jail] = IF Loads(call.jail) THEN InForce(call.jail) ELSE NotLoaded]
             /\ Settle(call.jail)
    <3>1. Others
      BY <2>1, <2>3, <1>1 DEF Settle, Shape
    <3>2. ASSUME NEW j \in Jail, j = call.jail
          PROVE  InStep(j)'
      <4>1. live'[j] = IF Loads(j) THEN InForce(j) ELSE NotLoaded
        BY <2>3, <3>2, <1>1 DEF Shape
      <4> QED BY <2>1, <4>1, Reloaded
    <3> QED BY <2>1, <3>1, <3>2, <1>2
  <2> QED BY <1>13, <2>2, <2>3 DEF ActivateReload
<1>14. CASE DeactivateStop
  <2>1. call.jail \in Jail /\ call' = Idle
    BY <1>14, <1>1 DEF DeactivateStop, At, Done
  <2>2. Others
    BY <2>1, <1>14, <1>1 DEF DeactivateStop, Settle, Shape
  <2>3. Intact
    BY <2>1, <1>14, <1>1 DEF DeactivateStop, At, HasJail, Settle, Shape, InStep
  <2> QED BY <2>1, <2>2, <2>3, <1>2
<1>15. CASE TuneDisk
  <2>1. /\ call # Idle /\ call.jail \in Jail /\ call \in CallState /\ call.at = "disk" /\ call.op \in Tuning
        /\ call' = [call EXCEPT !.at = "server"] /\ excused' = excused \cup {call.jail}
        /\ live' = live /\ filters' = filters
    BY <1>15, <1>1 DEF TuneDisk, Goto, Excuse, Tuning
  <2>2. \A k \in Jail : k \notin excused' => InStep(k)'
    BY <2>1, <1>4, <1>15 DEF TuneDisk, WriteDropin
  <2>3. call'.at = "server" /\ call'.jail = call.jail /\ call'.op = call.op /\ call'.clean = call.clean
    BY <2>1 DEF CallState
  <2>4. call.clean => Behind(call.jail)'
    BY <2>1, <1>15, TuneBehind
  <2> QED BY <2>1, <2>2, <2>3, <2>4
<1>16. CASE TuneServer
  <2>1. call # Idle /\ call.jail \in Jail /\ call.at = "server" /\ call.op \in Tuning /\ call' = Idle
    BY <1>16, <1>1 DEF TuneServer, Done, Tuning
  <2>2. CASE excused' = excused
    <3>1. Others
      BY <2>1, <2>2, <1>16, <1>1 DEF TuneServer, Shape
    <3> QED BY <2>1, <2>2, <3>1, <1>2
  <2>3. CASE excused' # excused
    <3>1. Others /\ call.clean
      BY <2>1, <2>3, <1>16, <1>1 DEF TuneServer, Settle, Shape
    <3>2. ASSUME NEW j \in Jail, j = call.jail
          PROVE  InStep(j)'
      BY <2>1, <2>3, <3>1, <3>2, <1>16, CaughtUp
    <3> QED BY <2>1, <3>1, <3>2, <1>2
  <2> QED BY <2>2, <2>3
<1>17. CASE Killed
  BY <1>17, <1>3 DEF Killed, Done
<1>18. ASSUME NEW s, Fault(s)
       PROVE  StepInv'
  <2>1. file' = file /\ filters' = filters /\ call' = call /\ excused' = excused
        /\ \A k \in Jail : live'[k] \in {live[k], NotLoaded}
    BY <1>18 DEF Fault
  <2>2. \A k \in Jail : Enabled(k)' = Enabled(k) /\ InForce(k)' = InForce(k)
    BY <2>1, SameFiles
  <2>3. \A k \in Jail : InStep(k) => InStep(k)'
    BY <2>1, <2>2 DEF InStep
  <2>4. call # Idle /\ Behind(call.jail) => Behind(call.jail)'
    BY <2>1, <2>2, <1>1 DEF Behind, Changed
  <2> QED BY <2>1, <2>3, <2>4
<1>19. CASE Restart
  <2>1. /\ file' = file /\ filters' = filters
        /\ live' = [j \in Jail |-> IF Loads(j) THEN InForce(j) ELSE NotLoaded]
        /\ excused' = IF call = Idle THEN {} ELSE {call.jail}
        /\ call = Idle => call' = Idle
        /\ call # Idle => /\ call'.at = call.at /\ call'.jail = call.jail /\ ~call'.clean
    BY <1>19, <1>1 DEF Restart, Muddles, CallState, Idle
  <2>2. ASSUME NEW k \in Jail
        PROVE  InStep(k)'
    BY <2>1, Reloaded
  <2> QED BY <2>1, <2>2
<1>20. CASE Answers
  <2>1. \A k \in Jail : k \notin excused' => InStep(k)'
    BY <1>3, <1>20 DEF Answers
  <2>2. call # Idle => Behind(call.jail)' = Behind(call.jail)
    BY <1>20, <1>1, SameFiles DEF Answers, Behind, Changed
  <2> QED BY <2>1, <2>2, <1>20 DEF Answers
<1>21. CASE Edit
  <2>1. PICK j \in Jail :
            /\ \/ \E s \in Below \ {file["below"][j]} : file' = [file EXCEPT !["below"][j] = s]
               \/ \E s \in After \ {file["after"][j]} : file' = [file EXCEPT !["after"][j] = s]
            /\ Excuse(j) /\ Muddles({j})
    BY <1>21 DEF Edit
  <2>2. filters' = filters /\ live' = live /\ excused' = excused \cup {j}
    BY <1>21, <2>1 DEF Edit, Excuse
  <2>3. \A k \in Jail, l \in Layers : k # j => file'[l][k] = file[l][k]
    BY <2>1, <1>1 DEF Shape, Layers
  <2>4. \A k \in Jail : k \notin excused' => InStep(k)'
    BY <2>2, <2>3, StaysInStep
  <2>5. /\ call = Idle => call' = Idle
        /\ call # Idle => /\ call'.op = call.op /\ call'.at = call.at /\ call'.jail = call.jail /\ call'.arg = call.arg
                          /\ call'.clean => call.clean /\ call.jail # j
    BY <2>1, <1>1 DEF Muddles, CallState, Idle
  <2>6. call # Idle /\ call.jail # j => Behind(call.jail)' = Behind(call.jail)
    <3>1. ASSUME call # Idle, call.jail # j
          PROVE  Enabled(call.jail)' = Enabled(call.jail) /\ InForce(call.jail)' = InForce(call.jail)
      BY <2>3, <2>5, <3>1, <1>1, SameFiles
    <3> QED BY <3>1, <2>2, <2>5 DEF Behind, Changed
  <2> QED BY <2>2, <2>4, <2>5, <2>6
<1> QED
  BY <1>5, <1>6, <1>7, <1>8, <1>9, <1>10, <1>11, <1>12, <1>13, <1>14, <1>15, <1>16, <1>17, <1>18,
     <1>19, <1>20, <1>21 DEF Next, Ops

\* What runs is what the files say, so that a restart changes nothing, unless a call
\* failed, met no server or was cut off, or a file was edited.
THEOREM RestartsChangeNothing == ASSUME Fail2banAssumption, PlainFiles PROVE Spec => []RestartChangesNothing
<1>1. Init => StepInv
  BY DEF Init, StepInv, InStep, Idle
<1>2. Base /\ StepInv => RestartChangesNothing
  <2> SUFFICES ASSUME Base, StepInv, NEW j \in Jail, live[j] # NotLoaded, j \notin excused
               PROVE  Loads(j) /\ live[j] = InForce(j)
    BY DEF RestartChangesNothing
  <2>1. Enabled(j) /\ j \in filters /\ live[j] = InForce(j)
    BY DEF StepInv, InStep
  <2> QED BY <2>1, LastWord DEF Loads
<1>3. Base /\ StepInv /\ [Next]_vars => StepInv'
  BY StepStep
<1> QED BY <1>1, <1>2, <1>3, InitBase, BaseStep, PTL DEF Spec
=============================================================================
