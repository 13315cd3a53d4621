--------------------------- MODULE LifecycleProofs ---------------------------
(***************************************************************************)
(* No process is lost, an active module is served, a module at rest is     *)
(* down, and providers come before their dependents: for any modules, any  *)
(* number of launches, restarts of core and upgrades, and core dying at    *)
(* any step; provided that operators wait for a health escalation to end   *)
(* before they activate a module again.                                    *)
(***************************************************************************)
EXTENDS Lifecycle, TLAPS, WellFoundedInduction, FiniteSetTheorems, SequenceTheorems

\* The threads that work on records, and the stages of an activation and of a
\* teardown in which they hold what they took off one.
Worker   == Module \cup {Op}
Starting == {"setup", "launch", "probe", "post", "active"}
Down     == {"stop", "unbind", "rest"}
Taken    == {"drain", "take"} \cup Down
Tearing  == {"monitor", "ready"} \cup Taken

\* Op brings its module up, or takes it down again because that failed.
Working == pc[Op] \in Starting \cup {"fail"} \/ rolling

\* Op reads the list of modules to activate.
Listing == pc[Op] \in {"prepass", "flags", "next", "record"} \/ Working

PcInv ==
    /\ pc[Op] \in {"idle", "prepass", "flags", "next", "record", "unflag", "lookup", "busy", "fail"}
                  \cup Starting \cup Tearing
    /\ \A m \in Module : pc[m] \in {"idle", "check", "count"} \cup (Tearing \ {"drain"})
    /\ pc[Face] \in {"idle", "monitors", "supervisors", "done"}
    /\ pc[Face] # "idle" => core = "closing"

\* What is initial while core is down, and what boot does not do.
CoreInv ==
    /\ core = "down" => /\ \A t \in Thread : pc[t] = "idle"
                        /\ \A n \in Instance : run[n] = "none"
                        /\ \A m \in Module : state[m] # "active" /\ mux[m] = None
    /\ core = "boot" => pc[Op] \notin {"idle", "flags"}
    /\ pc[Op] = "prepass" => /\ core = "boot"
                             /\ \A n \in Instance : run[n] = "none"
                             /\ \A t \in Thread : t # Op => pc[t] = "idle"
                             /\ \A m \in Module : state[m] # "active"

OpInv ==
    /\ at = None <=> pc[Op] \in {"idle", "prepass", "flags", "next"}
    /\ rolling => pc[Op] \in {"busy", "fail"} \cup Tearing
    /\ ~Listing => todo = <<>>
    /\ Working => pc[at] = "idle" /\ state[at] = "ready"

\* Which module a thread's work is about; hands are full only on the way.
HandInv ==
    /\ hand[Face] = None
    /\ \A m \in Module : hand[m] # None => pc[m] = "stop"
    /\ hand[Op] # None => pc[Op] \in {"probe", "post", "active", "fail", "stop"}
    /\ pc[Op] \in {"probe", "post", "active"} => hand[Op] # None
    /\ \A t \in Worker : hand[t] # None => owner[hand[t]] = Subject(t)

\* Instances are numbered as they are launched, each for a module.
NumInv == \E k \in 0 .. MaxInstance : Launched = 1 .. k

RunInv == \A n \in Instance : run[n] # "none" <=> owner[n] # None

\* A module that is monitored is active, and no other loop goes on.
MonInv ==
    /\ \A m \in Module : mon[m] # None => state[m] = "active" /\ owner[mon[m]] = m
    /\ \A n \in watching : owner[n] # None /\ mon[owner[n]] = n

\* How far a teardown has come.
TearInv ==
    /\ \A t \in Worker :
           /\ pc[t] = "ready" => mon[Subject(t)] = None
           /\ pc[t] \in Taken => state[Subject(t)] \in {"ready", "failed"}
           /\ pc[t] \in Down => sup[Subject(t)] = None
    /\ \A m \in Module : pc[m] # "idle" => state[m] # "unavailable"
    /\ pc[Op] \in {"busy"} \cup Tearing => state[at] # "unavailable"

\* The supervisor on a record is one of that module; on a record that is not
\* active it is there because somebody is about to take it, or is still starting.
SupInv ==
    /\ \A m \in Module : sup[m] # None => owner[sup[m]] = m
    /\ \A m \in Module : sup[m] # None /\ state[m] \in {"ready", "failed"} =>
           \/ pc[m] = "take"
           \/ at = m /\ (Working \/ pc[Op] \in {"drain", "take"})
    /\ pc[Op] \in {"setup", "launch", "probe"} => sup[at] = None

\* Owned, and what of a launch is on the record while it is under way.
UpInv ==
    /\ \A n \in Instance : run[n] = "up" =>
           \/ sup[owner[n]] = n
           \/ \E t \in Worker : hand[t] = n
           \/ state[owner[n]] = "unavailable"
    /\ pc[Op] \in {"post", "active"} /\ run[hand[Op]] = "up" => sup[at] = hand[Op]

\* Until core is shut down: wires are those of processes that are up, or are about
\* to be dropped, and an active module has both.
ServeInv ==
    core \in {"boot", "up"} =>
        /\ \A m \in Module : mux[m] # None =>
               /\ owner[mux[m]] = m
               /\ run[mux[m]] = "up" \/ \E t \in Worker : pc[t] = "unbind" /\ Subject(t) = m
        /\ pc[Op] \in {"probe", "post", "active"} =>
               run[hand[Op]] = "up" /\ mux[at] = hand[Op]
        /\ \A m \in Module : sup[m] # None => run[sup[m]] = "up"
        /\ \A m \in Module : state[m] = "active" => sup[m] # None /\ mux[m] = sup[m]

\* What is still to be activated is untouched.
TodoInv ==
    /\ Distinct(todo)
    /\ \A i \in DOMAIN todo : pc[todo[i]] = "idle" /\ state[todo[i]] # "active" /\ todo[i] # at

LInv ==
    /\ TypeOK /\ PcInv /\ CoreInv /\ OpInv /\ HandInv /\ NumInv /\ RunInv /\ MonInv
    /\ TearInv /\ SupInv /\ UpInv /\ ServeInv /\ TodoInv

\* No module depends on itself.
Acyclic == \A m \in Module : ~OnCycle(m)

\* p is up, has failed or is on its way to either.
Settled(p) ==
    \/ state[p] # "ready"
    \/ pc[p] \in {"take"} \cup Down
    \/ at = p /\ Working

\* Of what a module on the list needs, the rest is settled or before it.
OrderInv ==
    core # "boot" =>
        \A i \in DOMAIN todo : \A p \in Requires[todo[i]] :
            Settled(p) \/ \E j \in 1 .. i - 1 : todo[j] = p

------------------------------------------------------------------------------
\* A set of natural numbers that is not empty has a least element.
LEMMA Least == ASSUME NEW S \in SUBSET Nat, S # {} PROVE \E n \in S : \A k \in S : n <= k
<1>1. PICK n \in S : \A k \in S : ~ (<<k, n>> \in OpToRel(<, Nat))
  BY NatLessThanWellFounded, WFMin
<1>2. \A k \in S : ~(k < n)
  BY <1>1, Zenon DEF OpToRel
<1> QED BY <1>2

\* The last number of an interval, and the others.
LEMMA UpTo == \A n \in Nat : \A k \in 1 .. n : k = n \/ k \in 1 .. n - 1
OBVIOUS

\* f computes Kept(s, S) up to the index n.
Keeps(f, s, S, n) ==
    /\ f[0] = <<>>
    /\ \A i \in 1 .. n : f[i] = IF s[i] \in S THEN Append(f[i - 1], s[i]) ELSE f[i - 1]

\* The function that defines Kept exists, so that it is what its definition says.
LEMMA KeptExists ==
    ASSUME NEW X, NEW s \in Seq(X), NEW S
    PROVE  \E f \in [0 .. Len(s) -> Seq(X)] : Keeps(f, s, S, Len(s)) /\ Kept(s, S) = f[Len(s)]
<1> DEFINE Has(n) == \E f \in [0 .. n -> Seq(X)] : Keeps(f, s, S, n)
           Bad == {n \in 0 .. Len(s) : ~Has(n)}
<1>0. Len(s) \in Nat /\ \A i \in 1 .. Len(s) : s[i] \in X
  OBVIOUS
<1>1. Bad = {}
  <2> SUFFICES ASSUME NEW x \in Bad PROVE FALSE
    OBVIOUS
  <2>0. Bad \in SUBSET Nat /\ Bad # {}
    <3>1. \A k \in Bad : k \in Nat
      BY <1>0
    <3> QED BY <3>1
  <2>1. PICK n \in Bad : \A k \in Bad : n <= k
    <3> HIDE DEF Bad
    <3> QED BY <2>0, Least
  <2> n \in Nat /\ n <= Len(s)
    BY <1>0, <2>1
  <2>2. CASE n = 0
    <3>1. [i \in 0 .. 0 |-> <<>>] \in [0 .. 0 -> Seq(X)]
      OBVIOUS
    <3>2. Keeps([i \in 0 .. 0 |-> <<>>], s, S, 0)
      BY DEF Keeps
    <3> QED BY <2>1, <2>2, <3>1, <3>2
  <2>3. CASE n # 0
    <3>1. n - 1 \in 0 .. Len(s) /\ n - 1 \notin Bad
      BY <2>1, <2>3, <1>0, SMTT(20)
    <3>2. PICK f \in [0 .. n - 1 -> Seq(X)] : Keeps(f, s, S, n - 1)
      BY <3>1
    <3> DEFINE last == IF s[n] \in S THEN Append(f[n - 1], s[n]) ELSE f[n - 1]
               g == [i \in 0 .. n |-> IF i = n THEN last ELSE f[i]]
    <3>3. last \in Seq(X)
      BY <3>2, <2>3, <1>0
    <3>4. g \in [0 .. n -> Seq(X)]
      BY <3>3
    <3>5. Keeps(g, s, S, n)
      BY <3>2, <2>3, <1>0 DEF Keeps
    <3> QED BY <2>1, <3>4, <3>5
  <2> QED BY <2>2, <2>3
<1>2. PICK f \in [0 .. Len(s) -> Seq(X)] : Keeps(f, s, S, Len(s))
  BY <1>0, <1>1
<1> DEFINE Rec(k) == k = [i \in 0 .. Len(s) |->
                             IF i = 0 THEN <<>>
                             ELSE IF s[i] \in S THEN Append(k[i - 1], s[i]) ELSE k[i - 1]]
<1>3. Rec(f)
  <2>1. \A i \in 0 .. Len(s) : f[i] = IF i = 0 THEN <<>>
                             ELSE IF s[i] \in S THEN Append(f[i - 1], s[i]) ELSE f[i - 1]
    <3>1. f[0] = <<>> /\ \A i \in 1 .. Len(s) :
                             f[i] = IF s[i] \in S THEN Append(f[i - 1], s[i]) ELSE f[i - 1]
      BY <1>2 DEF Keeps
    <3>2. \A i \in 0 .. Len(s) : i = 0 \/ i \in 1 .. Len(s)
      BY <1>0
    <3> QED BY <3>1, <3>2
  <2> QED BY <1>2, <2>1
<1> DEFINE kept == CHOOSE k : Rec(k)
<1>4. Rec(kept)
  BY <1>3
<1>5. Kept(s, S) = kept[Len(s)]
  BY DEF Kept
<1> DEFINE Differ == {i \in 0 .. Len(s) : kept[i] # f[i]}
<1>6. \A i \in 0 .. Len(s) : kept[i] = IF i = 0 THEN <<>>
                             ELSE IF s[i] \in S THEN Append(kept[i - 1], s[i]) ELSE kept[i - 1]
  BY <1>4
<1> HIDE DEF kept
<1>7. Differ = {}
  <2> SUFFICES ASSUME NEW x \in Differ PROVE FALSE
    OBVIOUS
  <2>0. Differ \in SUBSET Nat /\ Differ # {}
    BY <1>0
  <2>1. PICK n \in Differ : \A k \in Differ : n <= k
    <3> HIDE DEF Differ
    <3> QED BY <2>0, Least
  <2>2. n # 0
    BY <1>2, <1>6 DEF Keeps
  <2>3. n - 1 \in 0 .. Len(s) /\ n - 1 \notin Differ
    BY <2>1, <2>2, <1>0
  <2> QED BY <1>0, <1>2, <1>6, <2>1, <2>2, <2>3 DEF Keeps
<1> QED BY <1>0, <1>2, <1>5, <1>7

\* g leads from the entries of Kept(s, S) to the places in s that they are taken from.
Origin(g, s, S) ==
    /\ g \in [DOMAIN Kept(s, S) -> DOMAIN s]
    /\ \A i \in DOMAIN g : Kept(s, S)[i] = s[g[i]] /\ s[g[i]] \in S
    /\ \A i, j \in DOMAIN g : i < j => g[i] < g[j]

\* What Kept keeps, and in which order.
LEMMA KeptPlaces ==
    ASSUME NEW X, NEW s \in Seq(X), NEW S
    PROVE  Kept(s, S) \in Seq(X) /\ \E g : Origin(g, s, S)
<1>0. Len(s) \in Nat /\ DOMAIN s = 1 .. Len(s) /\ \A i \in 1 .. Len(s) : s[i] \in X
  OBVIOUS
<1>1. PICK f \in [0 .. Len(s) -> Seq(X)] : Keeps(f, s, S, Len(s)) /\ Kept(s, S) = f[Len(s)]
  BY KeptExists
<1> DEFINE Places(n) ==
        \E g \in [DOMAIN f[n] -> 1 .. n] :
            /\ \A i \in DOMAIN f[n] : f[n][i] = s[g[i]] /\ s[g[i]] \in S
            /\ \A i, j \in DOMAIN f[n] : i < j => g[i] < g[j]
            /\ \A k \in 1 .. n : s[k] \in S => \E i \in DOMAIN f[n] : g[i] = k
       Bad == {n \in 0 .. Len(s) : ~Places(n)}
<1>2. Places(0)
  <2>1. f[0] = <<>>
    BY <1>1 DEF Keeps
  <2> QED BY <2>1
<1>3. ASSUME NEW n \in 1 .. Len(s), Places(n - 1) PROVE Places(n)
  <2>0. n \in Nat /\ n - 1 \in Nat /\ f[n - 1] \in Seq(X)
    <3>1. n \in Nat /\ n - 1 \in Nat /\ n - 1 \in 0 .. Len(s)
      BY <1>0
    <3> QED BY <1>1, <3>1
  <2>1. PICK g \in [DOMAIN f[n - 1] -> 1 .. n - 1] :
            /\ \A i \in DOMAIN f[n - 1] : f[n - 1][i] = s[g[i]] /\ s[g[i]] \in S
            /\ \A i, j \in DOMAIN f[n - 1] : i < j => g[i] < g[j]
            /\ \A k \in 1 .. n - 1 : s[k] \in S => \E i \in DOMAIN f[n - 1] : g[i] = k
    BY <1>3
  <2>2. CASE s[n] \notin S
    <3>1. f[n] = f[n - 1]
      BY <1>1, <2>2 DEF Keeps
    <3>2. g \in [DOMAIN f[n] -> 1 .. n]
      BY <2>0, <2>1, <3>1
    <3>3. \A k \in 1 .. n : k = n \/ k \in 1 .. n - 1
      BY <2>0, UpTo, Zenon
    <3>4. /\ \A i \in DOMAIN f[n] : f[n][i] = s[g[i]] /\ s[g[i]] \in S
          /\ \A i, j \in DOMAIN f[n] : i < j => g[i] < g[j]
      BY <2>1, <3>1
    <3>5. \A k \in 1 .. n : s[k] \in S => \E i \in DOMAIN f[n] : g[i] = k
      BY <2>1, <2>2, <3>1, <3>3
    <3> QED BY <3>2, <3>4, <3>5
  <2>3. CASE s[n] \in S
    <3> DEFINE r == Len(f[n - 1]) + 1
               h == [i \in 1 .. r |-> IF i = r THEN n ELSE g[i]]
    <3>1. f[n] = Append(f[n - 1], s[n])
      BY <1>1, <2>3 DEF Keeps
    <3>2. r \in Nat /\ DOMAIN f[n - 1] = 1 .. r - 1 /\ DOMAIN f[n] = 1 .. r
          /\ f[n][r] = s[n] /\ \A i \in 1 .. r - 1 : f[n][i] = f[n - 1][i]
      BY <2>0, <3>1, <1>0
    <3>3. \A i \in 1 .. r : i = r \/ i \in 1 .. r - 1
      BY <3>2
    <3>4. h \in [DOMAIN f[n] -> 1 .. n]
      BY <2>0, <2>1, <3>2, <3>3
    <3>5. h[r] = n /\ \A i \in 1 .. r - 1 : h[i] = g[i] /\ g[i] \in 1 .. n - 1
      BY <2>1, <3>2
    <3> HIDE DEF r, h
    <3>6. \A i \in DOMAIN f[n] : f[n][i] = s[h[i]] /\ s[h[i]] \in S
      BY <2>1, <2>3, <3>2, <3>3, <3>5, ZenonT(30)
    <3>7. \A i, j \in DOMAIN f[n] : i < j => h[i] < h[j]
      <4> SUFFICES ASSUME NEW i \in 1 .. r, NEW j \in 1 .. r, i < j PROVE h[i] < h[j]
        BY <3>2
      <4>1. i \in 1 .. r - 1
        BY <3>2
      <4>2. CASE j = r
        BY <2>0, <3>5, <4>1, <4>2
      <4>3. CASE j \in 1 .. r - 1
        BY <2>1, <3>2, <3>5, <4>1, <4>3
      <4> QED BY <3>3, <4>2, <4>3
    <3>8. \A k \in 1 .. n : s[k] \in S => \E i \in DOMAIN f[n] : h[i] = k
      <4> SUFFICES ASSUME NEW k \in 1 .. n, s[k] \in S PROVE \E i \in 1 .. r : h[i] = k
        BY <3>2
      <4>1. CASE k = n
        <5>1. r \in 1 .. r
          BY <3>2 DEF r
        <5> QED BY <3>5, <4>1, <5>1
      <4>2. CASE k \in 1 .. n - 1
        <5>1. PICK i \in 1 .. r - 1 : g[i] = k
          BY <2>1, <3>2, <4>2
        <5>2. i \in 1 .. r /\ h[i] = k
          BY <3>2, <3>5, <5>1
        <5> QED BY <5>2
      <4> QED BY <2>0, <4>1, <4>2
    <3> QED BY <3>4, <3>6, <3>7, <3>8
  <2> QED BY <2>2, <2>3
<1>4. Bad = {}
  <2> SUFFICES ASSUME Bad # {} PROVE FALSE
    OBVIOUS
  <2>0. Bad \in SUBSET Nat
    <3>1. \A k \in Bad : k \in Nat
      BY <1>0
    <3> QED BY <3>1
  <2>1. PICK n \in Bad : \A k \in Bad : n <= k
    <3> HIDE DEF Bad
    <3> QED BY <2>0, Least
  <2>2. n \in 1 .. Len(s)
    BY <1>0, <1>2, <2>1
  <2>3. n - 1 \in 0 .. Len(s) /\ n - 1 \notin Bad
    <3> HIDE DEF Places
    <3>1. n - 1 \in 0 .. Len(s) /\ n - 1 \in Nat /\ n \in Nat /\ ~(n <= n - 1)
      BY <1>0, <2>2
    <3> QED BY <2>1, <3>1
  <2>4. Places(n - 1)
    <3> HIDE DEF Places
    <3> QED BY <2>3
  <2>5. Places(n)
    <3> HIDE DEF Places
    <3> QED BY <1>3, <2>2, <2>4
  <2> QED BY <2>1, <2>5
<1>5. Places(Len(s))
  <2>1. Len(s) \in 0 .. Len(s)
    BY <1>0
  <2> HIDE DEF Places
  <2> QED BY <1>4, <2>1
<1>6. Kept(s, S) \in Seq(X)
  BY <1>0, <1>1
<1>7. PICK g \in [DOMAIN f[Len(s)] -> 1 .. Len(s)] :
            /\ \A i \in DOMAIN f[Len(s)] : f[Len(s)][i] = s[g[i]] /\ s[g[i]] \in S
            /\ \A i, j \in DOMAIN f[Len(s)] : i < j => g[i] < g[j]
            /\ \A k \in 1 .. Len(s) : s[k] \in S => \E i \in DOMAIN f[Len(s)] : g[i] = k
  BY <1>5
<1>8. DOMAIN g = DOMAIN Kept(s, S) /\ Kept(s, S) = f[Len(s)]
  BY <1>1, <1>7
<1>9. g \in [DOMAIN Kept(s, S) -> DOMAIN s]
  BY <1>0, <1>7, <1>8
<1>10. \A i \in DOMAIN g : Kept(s, S)[i] = s[g[i]] /\ s[g[i]] \in S
  BY <1>7, <1>8
<1>11. \A i, j \in DOMAIN g : i < j => g[i] < g[j]
  BY <1>7, <1>8
<1>12. Origin(g, s, S)
  BY <1>9, <1>10, <1>11 DEF Origin
<1> QED BY <1>6, <1>12

------------------------------------------------------------------------------
\* What the variables that the invariant is about are functions of.
Shape ==
    /\ state \in [Module -> {"ready", "active", "unavailable", "failed"}]
    /\ sup \in [Module -> Instance \cup {None}] /\ mon \in [Module -> Instance \cup {None}]
    /\ mux \in [Module -> Instance \cup {None}]
    /\ owner \in [Instance -> Module \cup {None}]
    /\ run \in [Instance -> {"none", "up", "stopped"}]
    /\ watching \subseteq Instance
    /\ pc \in [Thread -> Place] /\ hand \in [Thread -> Instance \cup {None}]
    /\ at \in Module \cup {None} /\ rolling \in BOOLEAN

\* Names are told apart.
LEMMA Names ==
    /\ None \notin Instance /\ None \notin Module
    /\ Op \in Thread /\ Face \in Thread /\ Op # Face /\ Op \in Worker /\ Face \notin Worker
    /\ \A m \in Module : m \in Thread /\ m \in Worker /\ m # Op /\ m # Face
    /\ \A t \in Worker : t \in Thread /\ t # Face /\ (t = Op \/ t \in Module)
    /\ \A t \in Thread : t = Op \/ t = Face \/ t \in Module
BY LifecycleAssumption DEF None, Instance, Thread, Worker

LEMMA Shaped == TypeOK => Shape
BY DEF TypeOK, Shape
\* A function stays one when one of its values is replaced.
LEMMA Replaced ==
    ASSUME NEW A, NEW B, NEW f \in [A -> B], NEW x, NEW y \in B
    PROVE  [f EXCEPT ![x] = y] \in [A -> B]
OBVIOUS

\* What Launch launches has not been launched before.
LEMMA FreshInstance ==
    ASSUME TypeOK, NumInv, Launched # Instance
    PROVE  /\ Cardinality(Launched) + 1 \in Instance
           /\ run[Cardinality(Launched) + 1] = "none"
           /\ Launched \cup {Cardinality(Launched) + 1} = 1 .. Cardinality(Launched) + 1
<1>1. PICK k \in 0 .. MaxInstance : Launched = 1 .. k
  BY DEF NumInv
<1>2. k \in Nat /\ MaxInstance \in Nat /\ k <= MaxInstance
  BY LifecycleAssumption
<1>3. Cardinality(Launched) = k
  BY <1>1, <1>2, FS_Interval
<1>4. k # MaxInstance
  BY <1>1 DEF Instance
<1>5. k + 1 \in Instance /\ k + 1 \notin Launched
  BY <1>1, <1>2, <1>4 DEF Instance
<1>6. Launched \cup {k + 1} = 1 .. k + 1
  BY <1>1, <1>2
<1> QED BY <1>3, <1>5, <1>6 DEF TypeOK, Launched

\* A worker at work has a module it works on.
LEMMA HasSubject ==
    ASSUME TypeOK, OpInv, NEW t \in Worker,
           pc[t] \notin {"idle", "prepass", "flags", "next"}
    PROVE  Subject(t) \in Module
BY LifecycleAssumption DEF TypeOK, OpInv, Worker, Subject, None

\* What is left of a list without its first entry.
LEMMA Behead ==
    ASSUME NEW s \in Seq(Module), s # <<>>
    PROVE  /\ Head(s) \in Module /\ Tail(s) \in Seq(Module) /\ 1 \in DOMAIN s /\ Head(s) = s[1]
           /\ \A i \in DOMAIN Tail(s) : i + 1 \in DOMAIN s /\ Tail(s)[i] = s[i + 1]
           /\ \A i \in DOMAIN s : i = 1 \/ (i - 1 \in DOMAIN Tail(s) /\ Tail(s)[i - 1] = s[i])
           /\ DOMAIN s \subseteq Nat /\ DOMAIN Tail(s) \subseteq Nat
<1>1. Len(s) \in Nat /\ Len(s) >= 1 /\ DOMAIN s = 1 .. Len(s)
  OBVIOUS
<1>2. Len(Tail(s)) = Len(s) - 1 /\ DOMAIN Tail(s) = 1 .. Len(s) - 1
  BY <1>1
<1>3. \A i \in 1 .. Len(s) - 1 : Tail(s)[i] = s[i + 1]
  BY <1>1
<1>4. ASSUME NEW i \in 1 .. Len(s), i # 1
      PROVE  i - 1 \in 1 .. Len(s) - 1 /\ Tail(s)[i - 1] = s[i]
  <2>1. i - 1 \in 1 .. Len(s) - 1 /\ (i - 1) + 1 = i
    BY <1>1, <1>4
  <2> QED BY <1>3, <2>1
<1>5. \A i \in 1 .. Len(s) - 1 : i + 1 \in 1 .. Len(s)
  BY <1>1
<1>6. Head(s) = s[1] /\ s[1] \in Module /\ Tail(s) \in Seq(Module) /\ 1 \in 1 .. Len(s)
  BY <1>1
<1>7. ASSUME NEW i \in DOMAIN s, i # 1 PROVE i - 1 \in DOMAIN Tail(s) /\ Tail(s)[i - 1] = s[i]
  <2>1. i \in 1 .. Len(s)
    BY <1>1
  <2> QED BY <1>2, <1>4, <1>7, <2>1
<1>8. DOMAIN s \subseteq Nat /\ DOMAIN Tail(s) \subseteq Nat
  BY <1>1, <1>2
<1>9. \A i \in DOMAIN Tail(s) : i + 1 \in DOMAIN s /\ Tail(s)[i] = s[i + 1]
  BY <1>1, <1>2, <1>3, <1>5
<1>10. 1 \in DOMAIN s
  BY <1>1
<1> QED BY <1>6, <1>7, <1>8, <1>9, <1>10, Zenon

\* What Launch does: it gives an instance that nobody has to the module Op is at.
LEMMA Launching ==
    ASSUME TypeOK, NumInv, RunInv, Launch
    PROVE  /\ At(Op, "launch")
           /\ UNCHANGED <<state, sup, mon, restarts, watching, disk, life, opvars, left>>
           /\ \/ \E n \in Instance :
                     /\ owner[n] = None /\ run[n] = "none"
                     /\ owner' = [owner EXCEPT ![n] = at]
                     /\ run' = [run EXCEPT ![n] = "up"]
                     /\ mux' = [mux EXCEPT ![at] = n]
                     /\ hand' = [hand EXCEPT ![Op] = n]
                     /\ Go(Op, "probe")
              \/ Go(Op, "fail") /\ UNCHANGED <<owner, run, mux, hand>>
<1>1. CASE Launched # Instance
  <2> DEFINE n == Cardinality(Launched) + 1
  <2>1. n \in Instance /\ run[n] = "none"
    BY <1>1, FreshInstance
  <2>2. owner[n] = None
    BY <2>1 DEF RunInv
  <2> QED BY <2>1, <2>2 DEF Launch
<1>2. CASE Launched = Instance
  BY <1>2 DEF Launch
<1> QED BY <1>1, <1>2

\* What is kept of a list without repetition is one.
LEMMA KeptDistinct ==
    ASSUME NEW X, NEW s \in Seq(X), NEW S, Distinct(s)
    PROVE  /\ Kept(s, S) \in Seq(X) /\ Distinct(Kept(s, S))
           /\ \A i \in DOMAIN Kept(s, S) :
                  /\ Kept(s, S)[i] \in S /\ Kept(s, S)[i] \in X
                  /\ \E k \in DOMAIN s : Kept(s, S)[i] = s[k]
<1>1. Kept(s, S) \in Seq(X)
  BY KeptPlaces
<1>2. PICK g : Origin(g, s, S)
  BY KeptPlaces
<1>3. \A i \in DOMAIN Kept(s, S) :
          /\ Kept(s, S)[i] \in S /\ Kept(s, S)[i] \in X
          /\ \E k \in DOMAIN s : Kept(s, S)[i] = s[k]
  BY <1>1, <1>2 DEF Origin
<1>4. ASSUME NEW i \in DOMAIN Kept(s, S), NEW j \in DOMAIN Kept(s, S), i # j
      PROVE  Kept(s, S)[i] # Kept(s, S)[j]
  <2>1. i \in Nat /\ j \in Nat /\ g[i] \in Nat /\ g[j] \in Nat
        /\ g[i] \in DOMAIN s /\ g[j] \in DOMAIN s
    BY <1>1, <1>2 DEF Origin
  <2>2. g[i] # g[j]
    BY <1>2, <1>4, <2>1 DEF Origin
  <2> QED BY <1>2, <2>1, <2>2 DEF Distinct, Origin
<1> QED BY <1>1, <1>3, <1>4 DEF Distinct

\* A list without repetition, and one entry that is not on it.
LEMMA AppendDistinct ==
    ASSUME NEW X, NEW s \in Seq(X), NEW x \in X, Distinct(s), \A i \in DOMAIN s : s[i] # x
    PROVE  /\ Append(s, x) \in Seq(X) /\ Distinct(Append(s, x))
           /\ \A i \in DOMAIN Append(s, x) :
                  Append(s, x)[i] = x \/ (i \in DOMAIN s /\ Append(s, x)[i] = s[i])
<1> DEFINE n == Len(s) + 1
<1>1. Len(s) \in Nat /\ DOMAIN s = 1 .. Len(s) /\ DOMAIN Append(s, x) = 1 .. n
      /\ Append(s, x)[n] = x /\ \A i \in 1 .. Len(s) : Append(s, x)[i] = s[i]
  OBVIOUS
<1>2. \A i \in 1 .. n : i = n \/ i \in 1 .. Len(s)
  BY <1>1
<1>3. Append(s, x) \in Seq(X)
  OBVIOUS
<1> DEFINE a == Append(s, x)
<1> HIDE DEF n, a
<1>4. n \in Nat /\ DOMAIN a = 1 .. n /\ a[n] = x /\ \A i \in 1 .. Len(s) : i \in DOMAIN s /\ a[i] = s[i]
  BY <1>1 DEF a, n
<1>5. ASSUME NEW i \in DOMAIN a PROVE i = n \/ (i \in 1 .. Len(s) /\ i \in DOMAIN s /\ a[i] = s[i])
  <2>1. i \in 1 .. n
    BY <1>4
  <2> QED BY <1>2, <1>4, <2>1
<1>6. ASSUME NEW i \in DOMAIN a, NEW j \in DOMAIN a, a[i] = a[j] PROVE i = j
  BY <1>4, <1>5, <1>6 DEF Distinct
<1>7. \A i \in DOMAIN a : a[i] = x \/ (i \in DOMAIN s /\ a[i] = s[i])
  BY <1>4, <1>5
<1> QED BY <1>3, <1>6, <1>7 DEF Distinct, a

\* The rest of a list without repetition is one, and its first entry is not on it.
LEMMA TailDistinct ==
    ASSUME NEW s \in Seq(Module), s # <<>>, Distinct(s)
    PROVE  Distinct(Tail(s)) /\ \A i \in DOMAIN Tail(s) : Tail(s)[i] # Head(s)
<1>1. /\ 1 \in DOMAIN s /\ Head(s) = s[1]
      /\ \A i \in DOMAIN Tail(s) : i + 1 \in DOMAIN s /\ Tail(s)[i] = s[i + 1]
      /\ DOMAIN Tail(s) \subseteq Nat
      /\ \A i \in DOMAIN Tail(s) : i + 1 # 1
  <2>1. Len(s) \in Nat /\ Len(s) >= 1 /\ DOMAIN Tail(s) = 1 .. Len(s) - 1
    OBVIOUS
  <2> QED BY <2>1, Behead
<1>2. ASSUME NEW i \in DOMAIN Tail(s), NEW j \in DOMAIN Tail(s), i # j PROVE s[i + 1] # s[j + 1]
  <2>1. i + 1 # j + 1
    BY <1>1, <1>2
  <2> QED BY <1>1, <2>1 DEF Distinct
<1>3. ASSUME NEW i \in DOMAIN Tail(s) PROVE s[i + 1] # s[1]
  BY <1>1 DEF Distinct
<1> QED BY <1>1, <1>2, <1>3 DEF Distinct

\* Providers are modules.
LEMMA RequiresModules == \A m \in Module : Requires[m] \subseteq Module
BY LifecycleAssumption

\* What a cascade lists.
LEMMA CascadeLists ==
    ASSUME NEW m \in Module, NEW s \in Cascades(m)
    PROVE  /\ s \in Seq(Module) /\ Distinct(s)
           /\ \A i \in DOMAIN s : s[i] \in Ready /\ s[i] # m
           /\ \A p \in Requires[m] : p \in Ready /\ p # m => \E j \in DOMAIN s : s[j] = p
           /\ \A i \in DOMAIN s : \A p \in Requires[s[i]] :
                  p \in Ready => OnCycle(s[i]) \/ \E j \in DOMAIN s : j < i /\ s[j] = p
<1>1. PICK n \in Nat : s \in [1 .. n -> Ready \ {m}]
  BY DEF Cascades
<1>2. \A i \in DOMAIN s : s[i] \in Ready /\ s[i] # m
  BY <1>1
<1>3. s \in Seq(Module)
  <2>1. s \in [1 .. n -> Module]
    BY <1>1 DEF Ready
  <2> QED BY <2>1, SeqDef
<1>4. Distinct(s)
  BY DEF Cascades
<1>5. \A p \in Requires[m] : p \in Ready /\ p # m => \E j \in DOMAIN s : s[j] = p
  BY DEF Cascades
<1>6. \A i \in DOMAIN s : \A p \in Requires[s[i]] :
          p \in Ready => OnCycle(s[i]) \/ \E j \in DOMAIN s : j < i /\ s[j] = p
  BY DEF Cascades
<1> QED BY <1>2, <1>3, <1>4, <1>5, <1>6

------------------------------------------------------------------------------
\* The type invariant.
LEMMA TypePreserved ==
    ASSUME TypeOK, PcInv, OpInv, HandInv, NumInv, MonInv, [Next]_vars
    PROVE  TypeOK'
<1> USE DEF TypeOK, None, record, procs, disk, life, opvars
<1>1. ASSUME Boot PROVE TypeOK'
  <2>1. Kept(Order, {m \in Module : flag[m] # "none"}) \in Seq(Module)
    BY KeptPlaces, LifecycleAssumption
  <2>2. state' \in [Module -> {"ready", "active", "unavailable", "failed"}]
    BY <1>1, <2>1 DEF Boot, life
  <2>3. core' \in {"down", "boot", "up", "closing"}
    BY <1>1, <2>1 DEF Boot, life
  <2>4. boots' \in 0 .. MaxBoots
    BY <1>1, <2>1, LifecycleAssumption DEF Boot, life
  <2>5. todo' \in Seq(Module)
    BY <1>1, <2>1 DEF Boot, life
  <2>6. pc' \in [Thread -> Place]
    BY <1>1, <2>1 DEF Boot, life, Go, Thread, Place
  <2> QED BY <1>1, <2>2, <2>3, <2>4, <2>5, <2>6 DEF Boot, life
<1>2. ASSUME Gone PROVE TypeOK'
  <2>1. core' \in {"down", "boot", "up", "closing"}
    BY <1>2 DEF Gone
  <2>2. state' \in [Module -> {"ready", "active", "unavailable", "failed"}]
    BY <1>2 DEF Gone
  <2>3. sup' \in [Module -> Instance \cup {None}]
    BY <1>2 DEF Gone
  <2>4. mon' \in [Module -> Instance \cup {None}]
    BY <1>2 DEF Gone
  <2>5. mux' \in [Module -> Instance \cup {None}]
    BY <1>2 DEF Gone
  <2>6. restarts' \in [Module -> 0 .. HealthMaxRestarts]
    BY <1>2, LifecycleAssumption DEF Gone
  <2>7. owner' \in [Instance -> Module \cup {None}]
    BY <1>2 DEF Gone
  <2>8. run' \in [Instance -> {"none", "up", "stopped"}]
    BY <1>2 DEF Gone
  <2>9. watching' \subseteq Instance
    BY <1>2 DEF Gone
  <2>10. pc' \in [Thread -> Place]
    BY <1>2 DEF Gone, Go, Thread, Place
  <2>11. hand' \in [Thread -> Instance \cup {None}]
    BY <1>2 DEF Gone, Thread
  <2>12. todo' \in Seq(Module)
    BY <1>2 DEF Gone
  <2>13. at' \in Module \cup {None}
    BY <1>2 DEF Gone
  <2>14. hook' \in {"none", "on-start", "pre-activate"}
    BY <1>2 DEF Gone
  <2>15. rolling' \in BOOLEAN
    BY <1>2 DEF Gone
  <2>16. left' \in Seq(Module)
    BY <1>2 DEF Gone
  <2> QED BY <1>2, <2>1, <2>2, <2>3, <2>4, <2>5, <2>6, <2>7, <2>8, <2>9, <2>10, <2>11, <2>12, <2>13, <2>14, <2>15, <2>16 DEF Gone
<1>3. ASSUME PrePass PROVE TypeOK'
  <2>1. state' \in [Module -> {"ready", "active", "unavailable", "failed"}]
    BY <1>3 DEF PrePass
  <2>2. pc' \in [Thread -> Place]
    BY <1>3 DEF PrePass, Go, Thread, Place
  <2> QED BY <1>3, <2>1, <2>2 DEF PrePass
<1>4. ASSUME BootNext PROVE TypeOK'
  <2>1. Head(todo) \in Module /\ Tail(todo) \in Seq(Module)
    BY <1>4, Behead DEF BootNext
  <2>2. todo' \in Seq(Module)
    BY <1>4, <2>1 DEF BootNext, Drifted
  <2>3. at' \in Module \cup {None}
    BY <1>4, <2>1 DEF BootNext, Drifted
  <2>4. hook' \in {"none", "on-start", "pre-activate"}
    BY <1>4, <2>1 DEF BootNext, Drifted
  <2>5. pc' \in [Thread -> Place]
    BY <1>4, <2>1 DEF BootNext, Drifted, Go, Thread, Place
  <2> QED BY <1>4, <2>2, <2>3, <2>4, <2>5 DEF BootNext, Drifted
<1>5. ASSUME Booted PROVE TypeOK'
  <2>1. core' \in {"down", "boot", "up", "closing"}
    BY <1>5 DEF Booted
  <2>2. pc' \in [Thread -> Place]
    BY <1>5 DEF Booted, Go, Thread, Place
  <2> QED BY <1>5, <2>1, <2>2 DEF Booted
<1>6. ASSUME NEW m \in Module, ActivateRequest(m) PROVE TypeOK'
  <2>1. PICK s \in Cascades(m) : todo' = Append(s, m)
    BY <1>6 DEF ActivateRequest
  <2>2. s \in Seq(Module)
    BY CascadeLists
  <2>3. todo' \in Seq(Module)
    BY <1>6, <2>1, <2>2 DEF ActivateRequest
  <2>4. pc' \in [Thread -> Place]
    BY <1>6, <2>1, <2>2 DEF ActivateRequest, Go, Thread, Place
  <2> QED BY <1>6, <2>3, <2>4 DEF ActivateRequest
<1>7. ASSUME WriteFlag PROVE TypeOK'
  <2>1. pc' \in [Thread -> Place]
    BY <1>7 DEF WriteFlag, Go, Thread, Place
  <2>2. flag' = flag \/ \E m : flag' = [flag EXCEPT ![m] = "empty"]
    BY <1>7 DEF WriteFlag
  <2>3. flag' \in [Module -> {"none", "empty", "current", "stale"}]
    BY <2>2, Replaced
  <2> QED BY <1>7, <2>1, <2>3 DEF WriteFlag
<1>8. ASSUME ActivateNext PROVE TypeOK'
  <2>1. Head(todo) \in Module /\ Tail(todo) \in Seq(Module)
    BY <1>8, Behead DEF ActivateNext
  <2>2. todo' \in Seq(Module)
    BY <1>8, <2>1 DEF ActivateNext
  <2>3. state' \in [Module -> {"ready", "active", "unavailable", "failed"}]
    BY <1>8, <2>1 DEF ActivateNext
  <2>4. at' \in Module \cup {None}
    BY <1>8, <2>1 DEF ActivateNext
  <2>5. hook' \in {"none", "on-start", "pre-activate"}
    BY <1>8, <2>1 DEF ActivateNext
  <2>6. pc' \in [Thread -> Place]
    BY <1>8, <2>1 DEF ActivateNext, Go, Thread, Place
  <2> QED BY <1>8, <2>2, <2>3, <2>4, <2>5, <2>6 DEF ActivateNext
<1>9. ASSUME Answered PROVE TypeOK'
  <2>1. pc' \in [Thread -> Place]
    BY <1>9 DEF Answered, Go, Thread, Place
  <2> QED BY <1>9, <2>1 DEF Answered
<1>10. ASSUME Setup PROVE TypeOK'
  <2>1. at \in Module
    BY <1>10 DEF Setup, OpInv, At
  <2>2. prepared' \subseteq Module
    BY <1>10, <2>1 DEF Setup, HookRuns
  <2>3. pc' \in [Thread -> Place]
    BY <1>10, <2>1 DEF Setup, HookRuns, Go, Thread, Place
  <2> QED BY <1>10, <2>2, <2>3 DEF Setup, HookRuns
<1>11. ASSUME Launch PROVE TypeOK'
  <2>1. at \in Module
    BY <1>11 DEF Launch, OpInv, At
  <2>2. Launched # Instance => Cardinality(Launched) + 1 \in Instance
    BY FreshInstance
  <2>3. pc' \in [Thread -> Place]
    BY <1>11, <2>1, <2>2 DEF Launch, Go, Thread, Place
  <2>4. owner' \in [Instance -> Module \cup {None}]
    BY <1>11, <2>1, <2>2 DEF Launch
  <2>5. run' \in [Instance -> {"none", "up", "stopped"}]
    BY <1>11, <2>1, <2>2 DEF Launch
  <2>6. mux' \in [Module -> Instance \cup {None}]
    BY <1>11, <2>1, <2>2 DEF Launch
  <2>7. hand' \in [Thread -> Instance \cup {None}]
    BY <1>11, <2>1, <2>2 DEF Launch, Thread
  <2> QED BY <1>11, <2>3, <2>4, <2>5, <2>6, <2>7 DEF Launch
<1>12. ASSUME Probe PROVE TypeOK'
  <2>1. at \in Module
    BY <1>12 DEF Probe, OpInv, At
  <2>2. sup' \in [Module -> Instance \cup {None}]
    BY <1>12, <2>1 DEF Probe, Thread
  <2>3. pc' \in [Thread -> Place]
    BY <1>12, <2>1 DEF Probe, Go, Thread, Place
  <2> QED BY <1>12, <2>2, <2>3 DEF Probe
<1>13. ASSUME FailActivation PROVE TypeOK'
  <2>1. at \in Module
    BY <1>13 DEF FailActivation, OpInv, At
  <2>2. state' \in [Module -> {"ready", "active", "unavailable", "failed"}]
    BY <1>13, <2>1 DEF FailActivation
  <2>3. hand' \in [Thread -> Instance \cup {None}]
    BY <1>13, <2>1 DEF FailActivation, Thread
  <2>4. at' \in Module \cup {None}
    BY <1>13, <2>1 DEF FailActivation
  <2>5. hook' \in {"none", "on-start", "pre-activate"}
    BY <1>13, <2>1 DEF FailActivation
  <2>6. rolling' \in BOOLEAN
    BY <1>13, <2>1 DEF FailActivation
  <2>7. pc' \in [Thread -> Place]
    BY <1>13, <2>1 DEF FailActivation, Go, Thread, Place
  <2> QED BY <1>13, <2>2, <2>3, <2>4, <2>5, <2>6, <2>7 DEF FailActivation
<1>14. ASSUME PostActivate PROVE TypeOK'
  <2>1. pc' \in [Thread -> Place]
    BY <1>14 DEF PostActivate, HookRuns, Go, Thread, Place
  <2>2. rolling' \in BOOLEAN
    BY <1>14 DEF PostActivate, HookRuns
  <2>3. hand' \in [Thread -> Instance \cup {None}]
    BY <1>14 DEF PostActivate, HookRuns, Thread
  <2> QED BY <1>14, <2>1, <2>2, <2>3 DEF PostActivate, HookRuns
<1>15. ASSUME Activated PROVE TypeOK'
  <2>1. at \in Module /\ hand[Op] \in Instance
    BY <1>15, LifecycleAssumption DEF Activated, OpInv, HandInv, At, Thread
  <2>2. state' \in [Module -> {"ready", "active", "unavailable", "failed"}]
    BY <1>15, <2>1 DEF Activated
  <2>3. watching' \subseteq Instance
    BY <1>15, <2>1 DEF Activated
  <2>4. mon' \in [Module -> Instance \cup {None}]
    BY <1>15, <2>1 DEF Activated
  <2>5. hand' \in [Thread -> Instance \cup {None}]
    BY <1>15, <2>1 DEF Activated, Thread
  <2>6. pc' \in [Thread -> Place]
    BY <1>15, <2>1 DEF Activated, Go, Thread, Place
  <2> QED BY <1>15, <2>2, <2>3, <2>4, <2>5, <2>6 DEF Activated
<1>16. ASSUME SetChecksum PROVE TypeOK'
  <2>1. at \in Module
    BY <1>16 DEF SetChecksum, OpInv, At
  <2>2. flag' \in [Module -> {"none", "empty", "current", "stale"}]
    BY <1>16, <2>1 DEF SetChecksum
  <2>3. at' \in Module \cup {None}
    BY <1>16, <2>1 DEF SetChecksum
  <2>4. hook' \in {"none", "on-start", "pre-activate"}
    BY <1>16, <2>1 DEF SetChecksum
  <2>5. pc' \in [Thread -> Place]
    BY <1>16, <2>1 DEF SetChecksum, Go, Thread, Place
  <2> QED BY <1>16, <2>2, <2>3, <2>4, <2>5 DEF SetChecksum
<1>17. ASSUME NEW m \in Module, DeactivateRequest(m) PROVE TypeOK'
  <2>1. at' \in Module \cup {None}
    BY <1>17 DEF DeactivateRequest
  <2>2. pc' \in [Thread -> Place]
    BY <1>17 DEF DeactivateRequest, Go, Thread, Place
  <2> QED BY <1>17, <2>1, <2>2 DEF DeactivateRequest
<1>18. ASSUME RemoveFlag PROVE TypeOK'
  <2>1. at \in Module
    BY <1>18 DEF RemoveFlag, OpInv, At
  <2>2. flag' \in [Module -> {"none", "empty", "current", "stale"}]
    BY <1>18, <2>1 DEF RemoveFlag
  <2>3. pc' \in [Thread -> Place]
    BY <1>18, <2>1 DEF RemoveFlag, Go, Thread, Place
  <2> QED BY <1>18, <2>2, <2>3 DEF RemoveFlag
<1>19. ASSUME DeactivateModule PROVE TypeOK'
  <2>1. at \in Module
    BY <1>19 DEF DeactivateModule, OpInv, At
  <2>2. state' \in [Module -> {"ready", "active", "unavailable", "failed"}]
    BY <1>19, <2>1, SMTT(20) DEF DeactivateModule
  <2>3. at' \in Module \cup {None}
    BY <1>19, <2>1 DEF DeactivateModule
  <2>4. pc' \in [Thread -> Place]
    BY <1>19, <2>1 DEF DeactivateModule, Go, Thread, Place
  <2> QED BY <1>19, <2>2, <2>3, <2>4 DEF DeactivateModule
<1>20. ASSUME CheckBusy PROVE TypeOK'
  <2>1. at' \in Module \cup {None}
    BY <1>20 DEF CheckBusy
  <2>2. pc' \in [Thread -> Place]
    BY <1>20 DEF CheckBusy, Go, Thread, Place
  <2> QED BY <1>20, <2>1, <2>2 DEF CheckBusy
<1>21. ASSUME NEW t \in Worker, TakeMonitor(t) PROVE TypeOK'
  <2>1. Subject(t) \in Module
    BY <1>21, HasSubject DEF TakeMonitor, At
  <2>2. watching' \subseteq Instance
    BY <1>21, <2>1 DEF TakeMonitor
  <2>3. mon' \in [Module -> Instance \cup {None}]
    BY <1>21, <2>1 DEF TakeMonitor
  <2>4. pc' \in [Thread -> Place]
    BY <1>21, <2>1 DEF TakeMonitor, Go, Thread, Place
  <2> QED BY <1>21, <2>2, <2>3, <2>4 DEF TakeMonitor
<1>22. ASSUME NEW t \in Worker, Deregister(t) PROVE TypeOK'
  <2>1. Subject(t) \in Module
    BY <1>22, HasSubject DEF Deregister, At
  <2>2. state' \in [Module -> {"ready", "active", "unavailable", "failed"}]
    BY <1>22, <2>1 DEF Deregister
  <2>3. pc' \in [Thread -> Place]
    BY <1>22, <2>1 DEF Deregister, Go, Thread, Place
  <2> QED BY <1>22, <2>2, <2>3 DEF Deregister
<1>23. ASSUME Drain PROVE TypeOK'
  <2>1. pc' \in [Thread -> Place]
    BY <1>23 DEF Drain, Go, Thread, Place
  <2> QED BY <1>23, <2>1 DEF Drain
<1>24. ASSUME NEW t \in Worker, TakeSupervisor(t) PROVE TypeOK'
  <2>1. Subject(t) \in Module
    BY <1>24, HasSubject DEF TakeSupervisor, At
  <2>2. hand' \in [Thread -> Instance \cup {None}]
    BY <1>24, <2>1 DEF TakeSupervisor, Thread
  <2>3. sup' \in [Module -> Instance \cup {None}]
    BY <1>24, <2>1 DEF TakeSupervisor
  <2>4. pc' \in [Thread -> Place]
    BY <1>24, <2>1 DEF TakeSupervisor, Go, Thread, Place
  <2> QED BY <1>24, <2>2, <2>3, <2>4 DEF TakeSupervisor
<1>25. ASSUME NEW t \in Worker, StopProcess(t) PROVE TypeOK'
  <2>1. run' \in [Instance -> {"none", "up", "stopped"}]
    BY <1>25 DEF StopProcess
  <2>2. hand' \in [Thread -> Instance \cup {None}]
    BY <1>25 DEF StopProcess, Thread
  <2>3. pc' \in [Thread -> Place]
    BY <1>25 DEF StopProcess, Go, Thread, Place
  <2> QED BY <1>25, <2>1, <2>2, <2>3 DEF StopProcess
<1>26. ASSUME NEW t \in Worker, DropMux(t) PROVE TypeOK'
  <2>1. Subject(t) \in Module
    BY <1>26, HasSubject DEF DropMux, At
  <2>2. mux' \in [Module -> Instance \cup {None}]
    BY <1>26, <2>1 DEF DropMux
  <2>3. restarts' \in [Module -> 0 .. HealthMaxRestarts]
    BY <1>26, <2>1, LifecycleAssumption DEF DropMux
  <2>4. pc' \in [Thread -> Place]
    BY <1>26, <2>1 DEF DropMux, Go, Thread, Place
  <2> QED BY <1>26, <2>2, <2>3, <2>4 DEF DropMux
<1>27. ASSUME NEW t \in Worker, Rest(t) PROVE TypeOK'
  <2>1. Subject(t) \in Module
    BY <1>27, HasSubject DEF Rest, At
  <2>2. state' \in [Module -> {"ready", "active", "unavailable", "failed"}]
    BY <1>27, <2>1 DEF Rest
  <2>3. at' \in Module \cup {None}
    BY <1>27, <2>1 DEF Rest
  <2>4. pc' \in [Thread -> Place]
    BY <1>27, <2>1 DEF Rest, Go, Thread, Place
  <2> QED BY <1>27, <2>2, <2>3, <2>4 DEF Rest
<1>28. ASSUME NEW n \in Instance, StreakFails(n) PROVE TypeOK'
  <2>1. owner[n] \in Module
    BY <1>28 DEF StreakFails, MonInv
  <2>2. pc' \in [Thread -> Place]
    BY <1>28, <2>1 DEF StreakFails, Go, Thread, Place
  <2> QED BY <1>28, <2>2 DEF StreakFails
<1>29. ASSUME NEW m \in Module, OnHealthFail(m) PROVE TypeOK'
  <2>1. pc' \in [Thread -> Place]
    BY <1>29 DEF OnHealthFail, Go, Thread, Place
  <2> QED BY <1>29, <2>1 DEF OnHealthFail
<1>30. ASSUME NEW m \in Module, CountRestart(m) PROVE TypeOK'
  <2>1. HealthMaxRestarts \in Nat /\ restarts[m] \in 0 .. HealthMaxRestarts
    BY LifecycleAssumption
  <2>2. restarts[m] < HealthMaxRestarts => restarts[m] + 1 \in 0 .. HealthMaxRestarts
    BY <2>1
  <2>3. restarts' \in [Module -> 0 .. HealthMaxRestarts]
    <3>1. CASE restarts[m] >= HealthMaxRestarts
      BY <1>30, <3>1 DEF CountRestart
    <3>2. CASE ~(restarts[m] >= HealthMaxRestarts)
      <4>1. restarts' = [restarts EXCEPT ![m] = restarts[m] + 1]
        BY <1>30, <3>2 DEF CountRestart
      <4>2. restarts[m] + 1 \in 0 .. HealthMaxRestarts
        BY <2>1, <2>2, <3>2
      <4> QED BY <4>1, <4>2, Replaced
    <3> QED BY <3>1, <3>2
  <2>4. pc' \in [Thread -> Place]
    BY <1>30 DEF CountRestart, Go, Thread, Place
  <2> QED BY <1>30, <2>3, <2>4 DEF CountRestart
<1>31. ASSUME NEW n \in Instance, OnHealthRecover(n) PROVE TypeOK'
  <2>1. 0 \in 0 .. HealthMaxRestarts
    BY LifecycleAssumption
  <2>2. restarts' \in [Module -> 0 .. HealthMaxRestarts]
    BY <1>31, <2>1, Replaced DEF OnHealthRecover
  <2> QED BY <1>31, <2>2 DEF OnHealthRecover
<1>32. ASSUME NEW n \in Instance, Relaunch(n) PROVE TypeOK'
  <2>1. mux' \in [Module -> Instance \cup {None}]
    BY <1>32 DEF Relaunch
  <2> QED BY <1>32, <2>1 DEF Relaunch
<1>33. ASSUME Shutdown PROVE TypeOK'
  <2>1. core' \in {"down", "boot", "up", "closing"}
    BY <1>33 DEF Shutdown
  <2>2. pc' \in [Thread -> Place]
    BY <1>33 DEF Shutdown, Go, Thread, Place
  <2> QED BY <1>33, <2>1, <2>2 DEF Shutdown
<1>34. ASSUME StopMonitors PROVE TypeOK'
  <2>1. watching' \subseteq Instance
    BY <1>34 DEF StopMonitors
  <2>2. mon' \in [Module -> Instance \cup {None}]
    BY <1>34 DEF StopMonitors
  <2>3. left' \in Seq(Module)
    BY <1>34, LifecycleAssumption DEF StopMonitors
  <2>4. pc' \in [Thread -> Place]
    BY <1>34 DEF StopMonitors, Go, Thread, Place
  <2> QED BY <1>34, <2>1, <2>2, <2>3, <2>4 DEF StopMonitors
<1>35. ASSUME StopSupervisors PROVE TypeOK'
  <2>1. left # <<>> => Head(left) \in Module /\ Tail(left) \in Seq(Module)
    BY Behead
  <2>2. pc' \in [Thread -> Place]
    BY <1>35, <2>1 DEF StopSupervisors, Go, Thread, Place
  <2>3. left' \in Seq(Module)
    BY <1>35, <2>1 DEF StopSupervisors
  <2>4. run' \in [Instance -> {"none", "up", "stopped"}]
    BY <1>35, <2>1 DEF StopSupervisors
  <2>5. sup' \in [Module -> Instance \cup {None}]
    BY <1>35, <2>1 DEF StopSupervisors
  <2> QED BY <1>35, <2>2, <2>3, <2>4, <2>5 DEF StopSupervisors
<1>36. ASSUME NEW m \in Module, Install(m) PROVE TypeOK'
  <2>1. flag' \in [Module -> {"none", "empty", "current", "stale"}]
    BY <1>36 DEF Install
  <2>2. prepared' \subseteq Module
    BY <1>36 DEF Install
  <2> QED BY <1>36, <2>1, <2>2 DEF Install
<1>37. CASE UNCHANGED vars
  BY <1>37 DEF vars
<1> QED
  BY <1>1, <1>2, <1>3, <1>4, <1>5, <1>6, <1>7, <1>8, <1>9, <1>10, <1>11, <1>12, <1>13, <1>14,
     <1>15, <1>16, <1>17, <1>18, <1>19, <1>20, <1>21, <1>22, <1>23, <1>24, <1>25, <1>26, <1>27,
     <1>28, <1>29, <1>30, <1>31, <1>32, <1>33, <1>34, <1>35, <1>36, <1>37
  DEF Next, OpStep, HealthStep, Teardown, Worker

\* Where threads can be.
LEMMA PcPreserved ==
    ASSUME TypeOK, PcInv, OpInv, MonInv, [Next]_vars
    PROVE  PcInv'
<1> Shape
  BY Shaped
<1> USE Names DEF Shape, PcInv, OpInv, MonInv, Starting, Taken, Down, Tearing, Working,
        Listing, Shape, At, Go, Subject, record, procs, disk, life, opvars
<1>1. ASSUME Boot PROVE PcInv'
  BY <1>1 DEF Boot, life
<1>2. ASSUME Gone PROVE PcInv'
  BY <1>2 DEF Gone
<1>3. ASSUME PrePass PROVE PcInv'
  BY <1>3 DEF PrePass
<1>4. ASSUME BootNext PROVE PcInv'
  BY <1>4 DEF BootNext, Drifted
<1>5. ASSUME Booted PROVE PcInv'
  BY <1>5 DEF Booted
<1>6. ASSUME NEW m \in Module, ActivateRequest(m) PROVE PcInv'
  BY <1>6 DEF ActivateRequest
<1>7. ASSUME WriteFlag PROVE PcInv'
  BY <1>7 DEF WriteFlag
<1>8. ASSUME ActivateNext PROVE PcInv'
  BY <1>8 DEF ActivateNext
<1>9. ASSUME Answered PROVE PcInv'
  BY <1>9 DEF Answered
<1>10. ASSUME Setup PROVE PcInv'
  BY <1>10 DEF Setup, HookRuns
<1>11. ASSUME Launch PROVE PcInv'
  BY <1>11 DEF Launch
<1>12. ASSUME Probe PROVE PcInv'
  BY <1>12 DEF Probe
<1>13. ASSUME FailActivation PROVE PcInv'
  BY <1>13 DEF FailActivation
<1>14. ASSUME PostActivate PROVE PcInv'
  BY <1>14 DEF PostActivate, HookRuns
<1>15. ASSUME Activated PROVE PcInv'
  BY <1>15 DEF Activated
<1>16. ASSUME SetChecksum PROVE PcInv'
  BY <1>16 DEF SetChecksum
<1>17. ASSUME NEW m \in Module, DeactivateRequest(m) PROVE PcInv'
  BY <1>17 DEF DeactivateRequest
<1>18. ASSUME RemoveFlag PROVE PcInv'
  BY <1>18 DEF RemoveFlag
<1>19. ASSUME DeactivateModule PROVE PcInv'
  BY <1>19 DEF DeactivateModule
<1>20. ASSUME CheckBusy PROVE PcInv'
  BY <1>20 DEF CheckBusy
<1>21. ASSUME NEW t \in Worker, TakeMonitor(t) PROVE PcInv'
  BY <1>21 DEF TakeMonitor
<1>22. ASSUME NEW t \in Worker, Deregister(t) PROVE PcInv'
  BY <1>22 DEF Deregister
<1>23. ASSUME Drain PROVE PcInv'
  BY <1>23 DEF Drain
<1>24. ASSUME NEW t \in Worker, TakeSupervisor(t) PROVE PcInv'
  BY <1>24 DEF TakeSupervisor
<1>25. ASSUME NEW t \in Worker, StopProcess(t) PROVE PcInv'
  BY <1>25 DEF StopProcess
<1>26. ASSUME NEW t \in Worker, DropMux(t) PROVE PcInv'
  BY <1>26 DEF DropMux
<1>27. ASSUME NEW t \in Worker, Rest(t) PROVE PcInv'
  BY <1>27 DEF Rest
<1>28. ASSUME NEW n \in Instance, StreakFails(n) PROVE PcInv'
  BY <1>28 DEF StreakFails
<1>29. ASSUME NEW m \in Module, OnHealthFail(m) PROVE PcInv'
  BY <1>29 DEF OnHealthFail
<1>30. ASSUME NEW m \in Module, CountRestart(m) PROVE PcInv'
  BY <1>30 DEF CountRestart
<1>31. ASSUME NEW n \in Instance, OnHealthRecover(n) PROVE PcInv'
  BY <1>31 DEF OnHealthRecover
<1>32. ASSUME NEW n \in Instance, Relaunch(n) PROVE PcInv'
  BY <1>32 DEF Relaunch
<1>33. ASSUME Shutdown PROVE PcInv'
  BY <1>33 DEF Shutdown
<1>34. ASSUME StopMonitors PROVE PcInv'
  BY <1>34 DEF StopMonitors
<1>35. ASSUME StopSupervisors PROVE PcInv'
  BY <1>35 DEF StopSupervisors
<1>36. ASSUME NEW m \in Module, Install(m) PROVE PcInv'
  BY <1>36 DEF Install
<1>37. CASE UNCHANGED vars
  BY <1>37 DEF vars
<1> QED
  BY <1>1, <1>2, <1>3, <1>4, <1>5, <1>6, <1>7, <1>8, <1>9, <1>10, <1>11, <1>12, <1>13, <1>14,
     <1>15, <1>16, <1>17, <1>18, <1>19, <1>20, <1>21, <1>22, <1>23, <1>24, <1>25, <1>26, <1>27,
     <1>28, <1>29, <1>30, <1>31, <1>32, <1>33, <1>34, <1>35, <1>36, <1>37
  DEF Next, OpStep, HealthStep, Teardown, Worker

\* What holds while core is down, and while it boots.
LEMMA CorePreserved ==
    ASSUME TypeOK, NumInv, PcInv, OpInv, CoreInv, MonInv, [Next]_vars
    PROVE  CoreInv'
<1> Shape
  BY Shaped
<1> USE Names DEF Shape, PcInv, OpInv, CoreInv, MonInv, Starting, Taken, Down, Tearing,
        Working, Listing, Shape, At, Go, Subject, record, procs, disk, life, opvars
<1>1. ASSUME Boot PROVE CoreInv'
  BY <1>1 DEF Boot, life
<1>2. ASSUME Gone PROVE CoreInv'
  BY <1>2 DEF Gone
<1>3. ASSUME PrePass PROVE CoreInv'
  BY <1>3 DEF PrePass
<1>4. ASSUME BootNext PROVE CoreInv'
  BY <1>4 DEF BootNext, Drifted
<1>5. ASSUME Booted PROVE CoreInv'
  BY <1>5 DEF Booted
<1>6. ASSUME NEW m \in Module, ActivateRequest(m) PROVE CoreInv'
  BY <1>6 DEF ActivateRequest
<1>7. ASSUME WriteFlag PROVE CoreInv'
  BY <1>7 DEF WriteFlag
<1>8. ASSUME ActivateNext PROVE CoreInv'
  BY <1>8 DEF ActivateNext
<1>9. ASSUME Answered PROVE CoreInv'
  BY <1>9 DEF Answered
<1>10. ASSUME Setup PROVE CoreInv'
  BY <1>10 DEF Setup, HookRuns
<1>11. ASSUME Launch PROVE CoreInv'
  BY <1>11 DEF Launch
<1>12. ASSUME Probe PROVE CoreInv'
  BY <1>12 DEF Probe
<1>13. ASSUME FailActivation PROVE CoreInv'
  BY <1>13 DEF FailActivation
<1>14. ASSUME PostActivate PROVE CoreInv'
  BY <1>14 DEF PostActivate, HookRuns
<1>15. ASSUME Activated PROVE CoreInv'
  BY <1>15 DEF Activated
<1>16. ASSUME SetChecksum PROVE CoreInv'
  BY <1>16 DEF SetChecksum
<1>17. ASSUME NEW m \in Module, DeactivateRequest(m) PROVE CoreInv'
  BY <1>17 DEF DeactivateRequest
<1>18. ASSUME RemoveFlag PROVE CoreInv'
  BY <1>18 DEF RemoveFlag
<1>19. ASSUME DeactivateModule PROVE CoreInv'
  BY <1>19 DEF DeactivateModule
<1>20. ASSUME CheckBusy PROVE CoreInv'
  BY <1>20 DEF CheckBusy
<1>21. ASSUME NEW t \in Worker, TakeMonitor(t) PROVE CoreInv'
  BY <1>21 DEF TakeMonitor
<1>22. ASSUME NEW t \in Worker, Deregister(t) PROVE CoreInv'
  BY <1>22 DEF Deregister
<1>23. ASSUME Drain PROVE CoreInv'
  BY <1>23 DEF Drain
<1>24. ASSUME NEW t \in Worker, TakeSupervisor(t) PROVE CoreInv'
  BY <1>24 DEF TakeSupervisor
<1>25. ASSUME NEW t \in Worker, StopProcess(t) PROVE CoreInv'
  BY <1>25 DEF StopProcess
<1>26. ASSUME NEW t \in Worker, DropMux(t) PROVE CoreInv'
  BY <1>26 DEF DropMux
<1>27. ASSUME NEW t \in Worker, Rest(t) PROVE CoreInv'
  BY <1>27 DEF Rest
<1>28. ASSUME NEW n \in Instance, StreakFails(n) PROVE CoreInv'
  BY <1>28 DEF StreakFails
<1>29. ASSUME NEW m \in Module, OnHealthFail(m) PROVE CoreInv'
  BY <1>29 DEF OnHealthFail
<1>30. ASSUME NEW m \in Module, CountRestart(m) PROVE CoreInv'
  BY <1>30 DEF CountRestart
<1>31. ASSUME NEW n \in Instance, OnHealthRecover(n) PROVE CoreInv'
  BY <1>31 DEF OnHealthRecover
<1>32. ASSUME NEW n \in Instance, Relaunch(n) PROVE CoreInv'
  BY <1>32 DEF Relaunch
<1>33. ASSUME Shutdown PROVE CoreInv'
  BY <1>33 DEF Shutdown
<1>34. ASSUME StopMonitors PROVE CoreInv'
  BY <1>34 DEF StopMonitors
<1>35. ASSUME StopSupervisors PROVE CoreInv'
  BY <1>35 DEF StopSupervisors
<1>36. ASSUME NEW m \in Module, Install(m) PROVE CoreInv'
  BY <1>36 DEF Install
<1>37. CASE UNCHANGED vars
  BY <1>37 DEF vars
<1> QED
  BY <1>1, <1>2, <1>3, <1>4, <1>5, <1>6, <1>7, <1>8, <1>9, <1>10, <1>11, <1>12, <1>13, <1>14,
     <1>15, <1>16, <1>17, <1>18, <1>19, <1>20, <1>21, <1>22, <1>23, <1>24, <1>25, <1>26, <1>27,
     <1>28, <1>29, <1>30, <1>31, <1>32, <1>33, <1>34, <1>35, <1>36, <1>37
  DEF Next, OpStep, HealthStep, Teardown, Worker

\* What Op works on, and that its module is left alone meanwhile.
LEMMA OpPreserved ==
    ASSUME TypeOK, NumInv, PcInv, OpInv, CoreInv, MonInv, TodoInv, HandInv, [Next]_vars
    PROVE  OpInv'
<1> Shape
  BY Shaped
<1> USE Names DEF Shape, PcInv, OpInv, CoreInv, MonInv, TodoInv, HandInv, Starting, Taken,
        Down, Tearing, Working, Listing, Shape, At, Go, Subject, record, procs, disk, life, opvars
<1>1. ASSUME Boot PROVE OpInv'
  BY <1>1 DEF Boot, life
<1>2. ASSUME Gone PROVE OpInv'
  BY <1>2 DEF Gone
<1>3. ASSUME PrePass PROVE OpInv'
  BY <1>3 DEF PrePass
<1>4. ASSUME BootNext PROVE OpInv'
  <2>1. Head(todo) \in Module /\ 1 \in DOMAIN todo /\ Head(todo) = todo[1]
    BY <1>4, Behead DEF BootNext, TypeOK
  <2>2. pc[Head(todo)] = "idle" /\ state[Head(todo)] # "active" /\ Head(todo) # at
    BY <2>1
  <2> QED BY <1>4, <2>1, <2>2 DEF BootNext, Drifted
<1>5. ASSUME Booted PROVE OpInv'
  BY <1>5 DEF Booted
<1>6. ASSUME NEW m \in Module, ActivateRequest(m) PROVE OpInv'
  BY <1>6 DEF ActivateRequest
<1>7. ASSUME WriteFlag PROVE OpInv'
  BY <1>7 DEF WriteFlag
<1>8. ASSUME ActivateNext PROVE OpInv'
  <2>1. Head(todo) \in Module /\ 1 \in DOMAIN todo /\ Head(todo) = todo[1]
    BY <1>8, Behead DEF ActivateNext, TypeOK
  <2>2. pc[Head(todo)] = "idle" /\ state[Head(todo)] # "active" /\ Head(todo) # at
    BY <2>1
  <2> QED BY <1>8, <2>1, <2>2 DEF ActivateNext
<1>9. ASSUME Answered PROVE OpInv'
  BY <1>9 DEF Answered
<1>10. ASSUME Setup PROVE OpInv'
  BY <1>10 DEF Setup, HookRuns
<1>11. ASSUME Launch PROVE OpInv'
  BY <1>11 DEF Launch
<1>12. ASSUME Probe PROVE OpInv'
  BY <1>12 DEF Probe
<1>13. ASSUME FailActivation PROVE OpInv'
  BY <1>13 DEF FailActivation
<1>14. ASSUME PostActivate PROVE OpInv'
  BY <1>14 DEF PostActivate, HookRuns
<1>15. ASSUME Activated PROVE OpInv'
  BY <1>15 DEF Activated
<1>16. ASSUME SetChecksum PROVE OpInv'
  BY <1>16 DEF SetChecksum
<1>17. ASSUME NEW m \in Module, DeactivateRequest(m) PROVE OpInv'
  BY <1>17 DEF DeactivateRequest
<1>18. ASSUME RemoveFlag PROVE OpInv'
  BY <1>18 DEF RemoveFlag
<1>19. ASSUME DeactivateModule PROVE OpInv'
  BY <1>19 DEF DeactivateModule
<1>20. ASSUME CheckBusy PROVE OpInv'
  BY <1>20 DEF CheckBusy
<1>21. ASSUME NEW t \in Worker, TakeMonitor(t) PROVE OpInv'
  BY <1>21 DEF TakeMonitor
<1>22. ASSUME NEW t \in Worker, Deregister(t) PROVE OpInv'
  BY <1>22 DEF Deregister
<1>23. ASSUME Drain PROVE OpInv'
  BY <1>23 DEF Drain
<1>24. ASSUME NEW t \in Worker, TakeSupervisor(t) PROVE OpInv'
  BY <1>24 DEF TakeSupervisor
<1>25. ASSUME NEW t \in Worker, StopProcess(t) PROVE OpInv'
  BY <1>25 DEF StopProcess
<1>26. ASSUME NEW t \in Worker, DropMux(t) PROVE OpInv'
  BY <1>26 DEF DropMux
<1>27. ASSUME NEW t \in Worker, Rest(t) PROVE OpInv'
  BY <1>27 DEF Rest
<1>28. ASSUME NEW n \in Instance, StreakFails(n) PROVE OpInv'
  BY <1>28 DEF StreakFails
<1>29. ASSUME NEW m \in Module, OnHealthFail(m) PROVE OpInv'
  BY <1>29 DEF OnHealthFail
<1>30. ASSUME NEW m \in Module, CountRestart(m) PROVE OpInv'
  BY <1>30 DEF CountRestart
<1>31. ASSUME NEW n \in Instance, OnHealthRecover(n) PROVE OpInv'
  BY <1>31 DEF OnHealthRecover
<1>32. ASSUME NEW n \in Instance, Relaunch(n) PROVE OpInv'
  BY <1>32 DEF Relaunch
<1>33. ASSUME Shutdown PROVE OpInv'
  BY <1>33 DEF Shutdown
<1>34. ASSUME StopMonitors PROVE OpInv'
  BY <1>34 DEF StopMonitors
<1>35. ASSUME StopSupervisors PROVE OpInv'
  BY <1>35 DEF StopSupervisors
<1>36. ASSUME NEW m \in Module, Install(m) PROVE OpInv'
  BY <1>36 DEF Install
<1>37. CASE UNCHANGED vars
  BY <1>37 DEF vars
<1> QED
  BY <1>1, <1>2, <1>3, <1>4, <1>5, <1>6, <1>7, <1>8, <1>9, <1>10, <1>11, <1>12, <1>13, <1>14,
     <1>15, <1>16, <1>17, <1>18, <1>19, <1>20, <1>21, <1>22, <1>23, <1>24, <1>25, <1>26, <1>27,
     <1>28, <1>29, <1>30, <1>31, <1>32, <1>33, <1>34, <1>35, <1>36, <1>37
  DEF Next, OpStep, HealthStep, Teardown, Worker

\* What threads hold.
LEMMA HandPreserved ==
    ASSUME TypeOK, NumInv, CoreInv, PcInv, OpInv, HandInv, RunInv, SupInv, [Next]_vars
    PROVE  HandInv'
<1> Shape
  BY Shaped
<1> USE Names DEF Shape, CoreInv, PcInv, OpInv, HandInv, RunInv, SupInv, Starting, Taken,
        Down, Tearing, Working, Listing, Shape, At, Go, Subject, record, procs, disk, life, opvars
<1>1. ASSUME Boot PROVE HandInv'
  BY <1>1 DEF Boot, life
<1>2. ASSUME Gone PROVE HandInv'
  BY <1>2 DEF Gone
<1>3. ASSUME PrePass PROVE HandInv'
  BY <1>3 DEF PrePass
<1>4. ASSUME BootNext PROVE HandInv'
  BY <1>4 DEF BootNext, Drifted
<1>5. ASSUME Booted PROVE HandInv'
  BY <1>5 DEF Booted
<1>6. ASSUME NEW m \in Module, ActivateRequest(m) PROVE HandInv'
  BY <1>6 DEF ActivateRequest
<1>7. ASSUME WriteFlag PROVE HandInv'
  BY <1>7 DEF WriteFlag
<1>8. ASSUME ActivateNext PROVE HandInv'
  BY <1>8 DEF ActivateNext
<1>9. ASSUME Answered PROVE HandInv'
  BY <1>9 DEF Answered
<1>10. ASSUME Setup PROVE HandInv'
  BY <1>10 DEF Setup, HookRuns
<1>11. ASSUME Launch PROVE HandInv'
  BY <1>11, Launching
<1>12. ASSUME Probe PROVE HandInv'
  BY <1>12 DEF Probe
<1>13. ASSUME FailActivation PROVE HandInv'
  BY <1>13 DEF FailActivation
<1>14. ASSUME PostActivate PROVE HandInv'
  BY <1>14 DEF PostActivate, HookRuns
<1>15. ASSUME Activated PROVE HandInv'
  BY <1>15 DEF Activated
<1>16. ASSUME SetChecksum PROVE HandInv'
  BY <1>16 DEF SetChecksum
<1>17. ASSUME NEW m \in Module, DeactivateRequest(m) PROVE HandInv'
  BY <1>17 DEF DeactivateRequest
<1>18. ASSUME RemoveFlag PROVE HandInv'
  BY <1>18 DEF RemoveFlag
<1>19. ASSUME DeactivateModule PROVE HandInv'
  BY <1>19 DEF DeactivateModule
<1>20. ASSUME CheckBusy PROVE HandInv'
  BY <1>20 DEF CheckBusy
<1>21. ASSUME NEW t \in Worker, TakeMonitor(t) PROVE HandInv'
  BY <1>21 DEF TakeMonitor
<1>22. ASSUME NEW t \in Worker, Deregister(t) PROVE HandInv'
  BY <1>22 DEF Deregister
<1>23. ASSUME Drain PROVE HandInv'
  BY <1>23 DEF Drain
<1>24. ASSUME NEW t \in Worker, TakeSupervisor(t) PROVE HandInv'
  BY <1>24 DEF TakeSupervisor
<1>25. ASSUME NEW t \in Worker, StopProcess(t) PROVE HandInv'
  BY <1>25 DEF StopProcess
<1>26. ASSUME NEW t \in Worker, DropMux(t) PROVE HandInv'
  BY <1>26 DEF DropMux
<1>27. ASSUME NEW t \in Worker, Rest(t) PROVE HandInv'
  BY <1>27 DEF Rest
<1>28. ASSUME NEW n \in Instance, StreakFails(n) PROVE HandInv'
  BY <1>28 DEF StreakFails
<1>29. ASSUME NEW m \in Module, OnHealthFail(m) PROVE HandInv'
  BY <1>29 DEF OnHealthFail
<1>30. ASSUME NEW m \in Module, CountRestart(m) PROVE HandInv'
  BY <1>30 DEF CountRestart
<1>31. ASSUME NEW n \in Instance, OnHealthRecover(n) PROVE HandInv'
  BY <1>31 DEF OnHealthRecover
<1>32. ASSUME NEW n \in Instance, Relaunch(n) PROVE HandInv'
  BY <1>32 DEF Relaunch
<1>33. ASSUME Shutdown PROVE HandInv'
  BY <1>33 DEF Shutdown
<1>34. ASSUME StopMonitors PROVE HandInv'
  BY <1>34 DEF StopMonitors
<1>35. ASSUME StopSupervisors PROVE HandInv'
  BY <1>35 DEF StopSupervisors
<1>36. ASSUME NEW m \in Module, Install(m) PROVE HandInv'
  BY <1>36 DEF Install
<1>37. CASE UNCHANGED vars
  BY <1>37 DEF vars
<1> QED
  BY <1>1, <1>2, <1>3, <1>4, <1>5, <1>6, <1>7, <1>8, <1>9, <1>10, <1>11, <1>12, <1>13, <1>14,
     <1>15, <1>16, <1>17, <1>18, <1>19, <1>20, <1>21, <1>22, <1>23, <1>24, <1>25, <1>26, <1>27,
     <1>28, <1>29, <1>30, <1>31, <1>32, <1>33, <1>34, <1>35, <1>36, <1>37
  DEF Next, OpStep, HealthStep, Teardown, Worker

\* Instances are numbered as they are launched.
LEMMA NumPreserved ==
    ASSUME TypeOK, PcInv, OpInv, HandInv, NumInv, RunInv, SupInv, [Next]_vars
    PROVE  NumInv'
<1> Shape
  BY Shaped
<1> USE Names DEF Shape
<1>1. CASE run' = run
  BY <1>1 DEF NumInv, Launched
<1>2. CASE run' = [n \in Instance |-> "none"]
  <2>1. Launched' = 1 .. 0
    BY <1>2 DEF Launched
  <2>2. 0 \in 0 .. MaxInstance
    BY LifecycleAssumption
  <2> QED BY <2>1, <2>2 DEF NumInv
<1>3. CASE Launch
  <2>1. CASE Launched # Instance
    <3> DEFINE n == Cardinality(Launched) + 1
    <3>1. (n \in Instance /\ run' = [run EXCEPT ![n] = "up"]) \/ run' = run
      BY <1>3, <2>1, FreshInstance DEF Launch
    <3>2. Launched \cup {n} = 1 .. n /\ n \in 0 .. MaxInstance
      BY <2>1, FreshInstance, LifecycleAssumption DEF Instance
    <3> HIDE DEF n
    <3>3. CASE run' = [run EXCEPT ![n] = "up"] /\ n \in Instance
      <4>1. Launched' = Launched \cup {n}
        BY <3>3 DEF Launched
      <4> QED BY <3>2, <4>1 DEF NumInv
    <3> QED BY <1>1, <3>1, <3>3
  <2>2. CASE Launched = Instance
    BY <1>1, <1>3, <2>2 DEF Launch
  <2> QED BY <2>1, <2>2
<1>4. ASSUME NEW x \in Instance \cup {None}, x # None => owner[x] # None,
             run' = [n \in Instance |-> IF n = x THEN "stopped" ELSE run[n]]
      PROVE  NumInv'
  <2>1. x \in Instance => run[x] # "none"
    BY <1>4 DEF RunInv
  <2>2. Launched' = Launched
    BY <1>4, <2>1 DEF Launched
  <2> QED BY <2>2 DEF NumInv
<1>5. ASSUME NEW t \in Worker, StopProcess(t) PROVE NumInv'
  <2>1. hand[t] # None => owner[hand[t]] # None
    BY <1>5, HasSubject DEF StopProcess, HandInv, At
  <2>2. run' = [n \in Instance |-> IF n = hand[t] THEN "stopped" ELSE run[n]]
    BY <1>5 DEF StopProcess
  <2>3. hand[t] \in Instance \cup {None}
    OBVIOUS
  <2> QED BY <1>4, <2>1, <2>2, <2>3
<1>6. CASE StopSupervisors /\ left # <<>>
  <2>1. Head(left) \in Module
    BY <1>6, Behead DEF TypeOK
  <2>2. sup[Head(left)] \in Instance \cup {None}
        /\ (sup[Head(left)] # None => owner[sup[Head(left)]] # None)
    BY <2>1 DEF SupInv
  <2>3. run' = [n \in Instance |-> IF n = sup[Head(left)] THEN "stopped" ELSE run[n]]
    BY <1>6 DEF StopSupervisors
  <2> QED BY <1>4, <2>2, <2>3
<1>7. CASE StopSupervisors /\ left = <<>>
  BY <1>1, <1>7 DEF StopSupervisors
<1>8. CASE UNCHANGED vars
  BY <1>1, <1>8 DEF vars, procs
<1>9. CASE \/ Boot \/ PrePass \/ BootNext \/ Booted \/ WriteFlag \/ ActivateNext \/ Answered
           \/ Setup \/ Probe \/ FailActivation \/ PostActivate \/ Activated \/ SetChecksum
           \/ RemoveFlag \/ DeactivateModule \/ CheckBusy \/ Drain \/ Shutdown \/ StopMonitors
  BY <1>1, <1>9 DEF Boot, PrePass, BootNext, Booted, WriteFlag, ActivateNext, Answered, Setup,
     Probe, FailActivation, PostActivate, Activated, SetChecksum, RemoveFlag, DeactivateModule,
     CheckBusy, Drain, Shutdown, StopMonitors, procs, HookRuns
<1>10. ASSUME NEW m \in Module,
              ActivateRequest(m) \/ DeactivateRequest(m) \/ OnHealthFail(m) \/ CountRestart(m) \/ Install(m)
       PROVE  NumInv'
  BY <1>1, <1>10 DEF ActivateRequest, DeactivateRequest, OnHealthFail, CountRestart, Install, procs
<1>11. ASSUME NEW n \in Instance, StreakFails(n) \/ OnHealthRecover(n) \/ Relaunch(n) PROVE NumInv'
  BY <1>1, <1>11 DEF StreakFails, OnHealthRecover, Relaunch, procs
<1>12. ASSUME NEW t \in Worker,
              TakeMonitor(t) \/ Deregister(t) \/ TakeSupervisor(t) \/ DropMux(t) \/ Rest(t)
       PROVE  NumInv'
  BY <1>1, <1>12 DEF TakeMonitor, Deregister, TakeSupervisor, DropMux, Rest, procs
<1>13. CASE Gone
  BY <1>2, <1>13 DEF Gone
<1> QED BY <1>3, <1>5, <1>6, <1>7, <1>8, <1>9, <1>10, <1>11, <1>12, <1>13
     DEF Next, OpStep, HealthStep, Teardown

\* Instances have a module from the launch on.
LEMMA RunPreserved ==
    ASSUME TypeOK, NumInv, PcInv, OpInv, HandInv, RunInv, SupInv, [Next]_vars
    PROVE  RunInv'
<1> Shape
  BY Shaped
<1> USE Names DEF Shape, PcInv, OpInv, HandInv, RunInv, SupInv, Starting, Taken, Down,
        Tearing, Working, Listing, Shape, At, Go, Subject, record, procs, disk, life, opvars
<1>1. ASSUME Boot PROVE RunInv'
  BY <1>1 DEF Boot, life
<1>2. ASSUME Gone PROVE RunInv'
  BY <1>2 DEF Gone
<1>3. ASSUME PrePass PROVE RunInv'
  BY <1>3 DEF PrePass
<1>4. ASSUME BootNext PROVE RunInv'
  BY <1>4 DEF BootNext, Drifted
<1>5. ASSUME Booted PROVE RunInv'
  BY <1>5 DEF Booted
<1>6. ASSUME NEW m \in Module, ActivateRequest(m) PROVE RunInv'
  BY <1>6 DEF ActivateRequest
<1>7. ASSUME WriteFlag PROVE RunInv'
  BY <1>7 DEF WriteFlag
<1>8. ASSUME ActivateNext PROVE RunInv'
  BY <1>8 DEF ActivateNext
<1>9. ASSUME Answered PROVE RunInv'
  BY <1>9 DEF Answered
<1>10. ASSUME Setup PROVE RunInv'
  BY <1>10 DEF Setup, HookRuns
<1>11. ASSUME Launch PROVE RunInv'
  BY <1>11 DEF Launch
<1>12. ASSUME Probe PROVE RunInv'
  BY <1>12 DEF Probe
<1>13. ASSUME FailActivation PROVE RunInv'
  BY <1>13 DEF FailActivation
<1>14. ASSUME PostActivate PROVE RunInv'
  BY <1>14 DEF PostActivate, HookRuns
<1>15. ASSUME Activated PROVE RunInv'
  BY <1>15 DEF Activated
<1>16. ASSUME SetChecksum PROVE RunInv'
  BY <1>16 DEF SetChecksum
<1>17. ASSUME NEW m \in Module, DeactivateRequest(m) PROVE RunInv'
  BY <1>17 DEF DeactivateRequest
<1>18. ASSUME RemoveFlag PROVE RunInv'
  BY <1>18 DEF RemoveFlag
<1>19. ASSUME DeactivateModule PROVE RunInv'
  BY <1>19 DEF DeactivateModule
<1>20. ASSUME CheckBusy PROVE RunInv'
  BY <1>20 DEF CheckBusy
<1>21. ASSUME NEW t \in Worker, TakeMonitor(t) PROVE RunInv'
  BY <1>21 DEF TakeMonitor
<1>22. ASSUME NEW t \in Worker, Deregister(t) PROVE RunInv'
  BY <1>22 DEF Deregister
<1>23. ASSUME Drain PROVE RunInv'
  BY <1>23 DEF Drain
<1>24. ASSUME NEW t \in Worker, TakeSupervisor(t) PROVE RunInv'
  BY <1>24 DEF TakeSupervisor
<1>25. ASSUME NEW t \in Worker, StopProcess(t) PROVE RunInv'
  BY <1>25 DEF StopProcess
<1>26. ASSUME NEW t \in Worker, DropMux(t) PROVE RunInv'
  BY <1>26 DEF DropMux
<1>27. ASSUME NEW t \in Worker, Rest(t) PROVE RunInv'
  BY <1>27 DEF Rest
<1>28. ASSUME NEW n \in Instance, StreakFails(n) PROVE RunInv'
  BY <1>28 DEF StreakFails
<1>29. ASSUME NEW m \in Module, OnHealthFail(m) PROVE RunInv'
  BY <1>29 DEF OnHealthFail
<1>30. ASSUME NEW m \in Module, CountRestart(m) PROVE RunInv'
  BY <1>30 DEF CountRestart
<1>31. ASSUME NEW n \in Instance, OnHealthRecover(n) PROVE RunInv'
  BY <1>31 DEF OnHealthRecover
<1>32. ASSUME NEW n \in Instance, Relaunch(n) PROVE RunInv'
  BY <1>32 DEF Relaunch
<1>33. ASSUME Shutdown PROVE RunInv'
  BY <1>33 DEF Shutdown
<1>34. ASSUME StopMonitors PROVE RunInv'
  BY <1>34 DEF StopMonitors
<1>35. ASSUME StopSupervisors PROVE RunInv'
  <2>1. left # <<>> => Head(left) \in Module
    BY Behead DEF TypeOK
  <2>2. CASE left = <<>>
    BY <1>35, <2>2 DEF StopSupervisors
  <2>3. CASE left # <<>>
    <3> DEFINE h == Head(left)
    <3>1. /\ h \in Module /\ sup' = [sup EXCEPT ![h] = None]
          /\ run' = [n \in Instance |-> IF n = sup[h] THEN "stopped" ELSE run[n]]
          /\ UNCHANGED <<pc, hand, owner, state, opvars, core, mon>>
      BY <1>35, <2>1, <2>3 DEF StopSupervisors
    <3> HIDE DEF h
    <3> QED BY <3>1
  <2> QED BY <2>2, <2>3
<1>36. ASSUME NEW m \in Module, Install(m) PROVE RunInv'
  BY <1>36 DEF Install
<1>37. CASE UNCHANGED vars
  BY <1>37 DEF vars
<1> QED
  BY <1>1, <1>2, <1>3, <1>4, <1>5, <1>6, <1>7, <1>8, <1>9, <1>10, <1>11, <1>12, <1>13, <1>14,
     <1>15, <1>16, <1>17, <1>18, <1>19, <1>20, <1>21, <1>22, <1>23, <1>24, <1>25, <1>26, <1>27,
     <1>28, <1>29, <1>30, <1>31, <1>32, <1>33, <1>34, <1>35, <1>36, <1>37
  DEF Next, OpStep, HealthStep, Teardown, Worker

\* Monitors are those of active modules.
LEMMA MonPreserved ==
    ASSUME TypeOK, NumInv, CoreInv, PcInv, OpInv, HandInv, RunInv, TearInv, MonInv,
           TodoInv, [Next]_vars
    PROVE  MonInv'
<1> Shape
  BY Shaped
<1> USE Names DEF Shape, CoreInv, PcInv, OpInv, HandInv, RunInv, TearInv, MonInv, TodoInv,
        Starting, Taken, Down, Tearing, Working, Listing, Shape, At, Go, Subject, record, procs,
        disk, life, opvars
<1>1. ASSUME Boot PROVE MonInv'
  BY <1>1 DEF Boot, life
<1>2. ASSUME Gone PROVE MonInv'
  BY <1>2 DEF Gone
<1>3. ASSUME PrePass PROVE MonInv'
  BY <1>3 DEF PrePass
<1>4. ASSUME BootNext PROVE MonInv'
  BY <1>4 DEF BootNext, Drifted
<1>5. ASSUME Booted PROVE MonInv'
  BY <1>5 DEF Booted
<1>6. ASSUME NEW m \in Module, ActivateRequest(m) PROVE MonInv'
  BY <1>6 DEF ActivateRequest
<1>7. ASSUME WriteFlag PROVE MonInv'
  BY <1>7 DEF WriteFlag
<1>8. ASSUME ActivateNext PROVE MonInv'
  BY <1>8 DEF ActivateNext
<1>9. ASSUME Answered PROVE MonInv'
  BY <1>9 DEF Answered
<1>10. ASSUME Setup PROVE MonInv'
  BY <1>10 DEF Setup, HookRuns
<1>11. ASSUME Launch PROVE MonInv'
  BY <1>11, Launching
<1>12. ASSUME Probe PROVE MonInv'
  BY <1>12 DEF Probe
<1>13. ASSUME FailActivation PROVE MonInv'
  BY <1>13 DEF FailActivation
<1>14. ASSUME PostActivate PROVE MonInv'
  BY <1>14 DEF PostActivate, HookRuns
<1>15. ASSUME Activated PROVE MonInv'
  BY <1>15 DEF Activated
<1>16. ASSUME SetChecksum PROVE MonInv'
  BY <1>16 DEF SetChecksum
<1>17. ASSUME NEW m \in Module, DeactivateRequest(m) PROVE MonInv'
  BY <1>17 DEF DeactivateRequest
<1>18. ASSUME RemoveFlag PROVE MonInv'
  BY <1>18 DEF RemoveFlag
<1>19. ASSUME DeactivateModule PROVE MonInv'
  BY <1>19 DEF DeactivateModule
<1>20. ASSUME CheckBusy PROVE MonInv'
  BY <1>20 DEF CheckBusy
<1>21. ASSUME NEW t \in Worker, TakeMonitor(t) PROVE MonInv'
  BY <1>21 DEF TakeMonitor
<1>22. ASSUME NEW t \in Worker, Deregister(t) PROVE MonInv'
  BY <1>22 DEF Deregister
<1>23. ASSUME Drain PROVE MonInv'
  BY <1>23 DEF Drain
<1>24. ASSUME NEW t \in Worker, TakeSupervisor(t) PROVE MonInv'
  BY <1>24 DEF TakeSupervisor
<1>25. ASSUME NEW t \in Worker, StopProcess(t) PROVE MonInv'
  BY <1>25 DEF StopProcess
<1>26. ASSUME NEW t \in Worker, DropMux(t) PROVE MonInv'
  BY <1>26 DEF DropMux
<1>27. ASSUME NEW t \in Worker, Rest(t) PROVE MonInv'
  BY <1>27 DEF Rest
<1>28. ASSUME NEW n \in Instance, StreakFails(n) PROVE MonInv'
  BY <1>28 DEF StreakFails
<1>29. ASSUME NEW m \in Module, OnHealthFail(m) PROVE MonInv'
  BY <1>29 DEF OnHealthFail
<1>30. ASSUME NEW m \in Module, CountRestart(m) PROVE MonInv'
  BY <1>30 DEF CountRestart
<1>31. ASSUME NEW n \in Instance, OnHealthRecover(n) PROVE MonInv'
  BY <1>31 DEF OnHealthRecover
<1>32. ASSUME NEW n \in Instance, Relaunch(n) PROVE MonInv'
  BY <1>32 DEF Relaunch
<1>33. ASSUME Shutdown PROVE MonInv'
  BY <1>33 DEF Shutdown
<1>34. ASSUME StopMonitors PROVE MonInv'
  BY <1>34 DEF StopMonitors
<1>35. ASSUME StopSupervisors PROVE MonInv'
  BY <1>35 DEF StopSupervisors
<1>36. ASSUME NEW m \in Module, Install(m) PROVE MonInv'
  BY <1>36 DEF Install
<1>37. CASE UNCHANGED vars
  BY <1>37 DEF vars
<1> QED
  BY <1>1, <1>2, <1>3, <1>4, <1>5, <1>6, <1>7, <1>8, <1>9, <1>10, <1>11, <1>12, <1>13, <1>14,
     <1>15, <1>16, <1>17, <1>18, <1>19, <1>20, <1>21, <1>22, <1>23, <1>24, <1>25, <1>26, <1>27,
     <1>28, <1>29, <1>30, <1>31, <1>32, <1>33, <1>34, <1>35, <1>36, <1>37
  DEF Next, OpStep, HealthStep, Teardown, Worker

\* How far teardowns have come.
LEMMA TearPreserved ==
    ASSUME TypeOK, NumInv, PcInv, CoreInv, OpInv, HandInv, TearInv, MonInv, TodoInv,
           [Next]_vars
    PROVE  TearInv'
<1> Shape
  BY Shaped
<1> USE Names DEF Shape, PcInv, CoreInv, OpInv, HandInv, TearInv, MonInv, TodoInv, Starting,
        Taken, Down, Tearing, Working, Listing, Shape, At, Go, Subject, record, procs, disk, life,
        opvars
<1>1. ASSUME Boot PROVE TearInv'
  BY <1>1 DEF Boot, life
<1>2. ASSUME Gone PROVE TearInv'
  BY <1>2 DEF Gone
<1>3. ASSUME PrePass PROVE TearInv'
  BY <1>3 DEF PrePass
<1>4. ASSUME BootNext PROVE TearInv'
  <2>1. Head(todo) \in Module /\ 1 \in DOMAIN todo /\ Head(todo) = todo[1]
    BY <1>4, Behead DEF BootNext, TypeOK
  <2>2. pc[Head(todo)] = "idle" /\ state[Head(todo)] # "active" /\ Head(todo) # at
    BY <2>1
  <2> QED BY <1>4, <2>1, <2>2 DEF BootNext, Drifted
<1>5. ASSUME Booted PROVE TearInv'
  BY <1>5 DEF Booted
<1>6. ASSUME NEW m \in Module, ActivateRequest(m) PROVE TearInv'
  BY <1>6 DEF ActivateRequest
<1>7. ASSUME WriteFlag PROVE TearInv'
  BY <1>7 DEF WriteFlag
<1>8. ASSUME ActivateNext PROVE TearInv'
  <2>1. Head(todo) \in Module /\ 1 \in DOMAIN todo /\ Head(todo) = todo[1]
    BY <1>8, Behead DEF ActivateNext, TypeOK
  <2>2. pc[Head(todo)] = "idle" /\ state[Head(todo)] # "active" /\ Head(todo) # at
    BY <2>1
  <2> QED BY <1>8, <2>1, <2>2 DEF ActivateNext
<1>9. ASSUME Answered PROVE TearInv'
  BY <1>9 DEF Answered
<1>10. ASSUME Setup PROVE TearInv'
  BY <1>10 DEF Setup, HookRuns
<1>11. ASSUME Launch PROVE TearInv'
  BY <1>11 DEF Launch
<1>12. ASSUME Probe PROVE TearInv'
  BY <1>12 DEF Probe
<1>13. ASSUME FailActivation PROVE TearInv'
  BY <1>13 DEF FailActivation
<1>14. ASSUME PostActivate PROVE TearInv'
  BY <1>14 DEF PostActivate, HookRuns
<1>15. ASSUME Activated PROVE TearInv'
  BY <1>15 DEF Activated
<1>16. ASSUME SetChecksum PROVE TearInv'
  BY <1>16 DEF SetChecksum
<1>17. ASSUME NEW m \in Module, DeactivateRequest(m) PROVE TearInv'
  BY <1>17 DEF DeactivateRequest
<1>18. ASSUME RemoveFlag PROVE TearInv'
  BY <1>18 DEF RemoveFlag
<1>19. ASSUME DeactivateModule PROVE TearInv'
  BY <1>19 DEF DeactivateModule
<1>20. ASSUME CheckBusy PROVE TearInv'
  BY <1>20 DEF CheckBusy
<1>21. ASSUME NEW t \in Worker, TakeMonitor(t) PROVE TearInv'
  BY <1>21 DEF TakeMonitor
<1>22. ASSUME NEW t \in Worker, Deregister(t) PROVE TearInv'
  BY <1>22 DEF Deregister
<1>23. ASSUME Drain PROVE TearInv'
  BY <1>23 DEF Drain
<1>24. ASSUME NEW t \in Worker, TakeSupervisor(t) PROVE TearInv'
  BY <1>24 DEF TakeSupervisor
<1>25. ASSUME NEW t \in Worker, StopProcess(t) PROVE TearInv'
  BY <1>25 DEF StopProcess
<1>26. ASSUME NEW t \in Worker, DropMux(t) PROVE TearInv'
  BY <1>26 DEF DropMux
<1>27. ASSUME NEW t \in Worker, Rest(t) PROVE TearInv'
  BY <1>27 DEF Rest
<1>28. ASSUME NEW n \in Instance, StreakFails(n) PROVE TearInv'
  BY <1>28 DEF StreakFails
<1>29. ASSUME NEW m \in Module, OnHealthFail(m) PROVE TearInv'
  BY <1>29 DEF OnHealthFail
<1>30. ASSUME NEW m \in Module, CountRestart(m) PROVE TearInv'
  BY <1>30 DEF CountRestart
<1>31. ASSUME NEW n \in Instance, OnHealthRecover(n) PROVE TearInv'
  BY <1>31 DEF OnHealthRecover
<1>32. ASSUME NEW n \in Instance, Relaunch(n) PROVE TearInv'
  BY <1>32 DEF Relaunch
<1>33. ASSUME Shutdown PROVE TearInv'
  BY <1>33 DEF Shutdown
<1>34. ASSUME StopMonitors PROVE TearInv'
  BY <1>34 DEF StopMonitors
<1>35. ASSUME StopSupervisors PROVE TearInv'
  BY <1>35 DEF StopSupervisors
<1>36. ASSUME NEW m \in Module, Install(m) PROVE TearInv'
  BY <1>36 DEF Install
<1>37. CASE UNCHANGED vars
  BY <1>37 DEF vars
<1> QED
  BY <1>1, <1>2, <1>3, <1>4, <1>5, <1>6, <1>7, <1>8, <1>9, <1>10, <1>11, <1>12, <1>13, <1>14,
     <1>15, <1>16, <1>17, <1>18, <1>19, <1>20, <1>21, <1>22, <1>23, <1>24, <1>25, <1>26, <1>27,
     <1>28, <1>29, <1>30, <1>31, <1>32, <1>33, <1>34, <1>35, <1>36, <1>37
  DEF Next, OpStep, HealthStep, Teardown, Worker

\* Supervisors are on their module's record, and off it at rest.
LEMMA SupPreserved ==
    ASSUME TypeOK, NumInv, PcInv, CoreInv, OpInv, HandInv, RunInv, TearInv, SupInv, MonInv,
           TodoInv, [Next]_vars
    PROVE  SupInv'
<1> Shape
  BY Shaped
<1> USE Names DEF Shape, PcInv, CoreInv, OpInv, HandInv, RunInv, TearInv, SupInv, MonInv,
        TodoInv, Starting, Taken, Down, Tearing, Working, Listing, Shape, At, Go, Subject, record,
        procs, disk, life, opvars
<1>1. ASSUME Boot PROVE SupInv'
  BY <1>1 DEF Boot, life
<1>2. ASSUME Gone PROVE SupInv'
  BY <1>2 DEF Gone
<1>3. ASSUME PrePass PROVE SupInv'
  BY <1>3 DEF PrePass
<1>4. ASSUME BootNext PROVE SupInv'
  <2>1. Head(todo) \in Module /\ 1 \in DOMAIN todo /\ Head(todo) = todo[1]
    BY <1>4, Behead DEF BootNext, TypeOK
  <2>2. pc[Head(todo)] = "idle" /\ state[Head(todo)] # "active" /\ Head(todo) # at
    BY <2>1
  <2> QED BY <1>4, <2>1, <2>2 DEF BootNext, Drifted
<1>5. ASSUME Booted PROVE SupInv'
  BY <1>5 DEF Booted
<1>6. ASSUME NEW m \in Module, ActivateRequest(m) PROVE SupInv'
  BY <1>6 DEF ActivateRequest
<1>7. ASSUME WriteFlag PROVE SupInv'
  BY <1>7 DEF WriteFlag
<1>8. ASSUME ActivateNext PROVE SupInv'
  <2>1. Head(todo) \in Module /\ 1 \in DOMAIN todo /\ Head(todo) = todo[1]
    BY <1>8, Behead DEF ActivateNext, TypeOK
  <2>2. pc[Head(todo)] = "idle" /\ state[Head(todo)] # "active" /\ Head(todo) # at
    BY <2>1
  <2> QED BY <1>8, <2>1, <2>2 DEF ActivateNext
<1>9. ASSUME Answered PROVE SupInv'
  BY <1>9 DEF Answered
<1>10. ASSUME Setup PROVE SupInv'
  BY <1>10 DEF Setup, HookRuns
<1>11. ASSUME Launch PROVE SupInv'
  BY <1>11, Launching
<1>12. ASSUME Probe PROVE SupInv'
  BY <1>12 DEF Probe
<1>13. ASSUME FailActivation PROVE SupInv'
  BY <1>13 DEF FailActivation
<1>14. ASSUME PostActivate PROVE SupInv'
  BY <1>14 DEF PostActivate, HookRuns
<1>15. ASSUME Activated PROVE SupInv'
  BY <1>15 DEF Activated
<1>16. ASSUME SetChecksum PROVE SupInv'
  BY <1>16 DEF SetChecksum
<1>17. ASSUME NEW m \in Module, DeactivateRequest(m) PROVE SupInv'
  BY <1>17 DEF DeactivateRequest
<1>18. ASSUME RemoveFlag PROVE SupInv'
  BY <1>18 DEF RemoveFlag
<1>19. ASSUME DeactivateModule PROVE SupInv'
  BY <1>19 DEF DeactivateModule
<1>20. ASSUME CheckBusy PROVE SupInv'
  BY <1>20 DEF CheckBusy
<1>21. ASSUME NEW t \in Worker, TakeMonitor(t) PROVE SupInv'
  BY <1>21 DEF TakeMonitor
<1>22. ASSUME NEW t \in Worker, Deregister(t) PROVE SupInv'
  BY <1>22 DEF Deregister
<1>23. ASSUME Drain PROVE SupInv'
  BY <1>23 DEF Drain
<1>24. ASSUME NEW t \in Worker, TakeSupervisor(t) PROVE SupInv'
  BY <1>24 DEF TakeSupervisor
<1>25. ASSUME NEW t \in Worker, StopProcess(t) PROVE SupInv'
  BY <1>25 DEF StopProcess
<1>26. ASSUME NEW t \in Worker, DropMux(t) PROVE SupInv'
  BY <1>26 DEF DropMux
<1>27. ASSUME NEW t \in Worker, Rest(t) PROVE SupInv'
  BY <1>27 DEF Rest
<1>28. ASSUME NEW n \in Instance, StreakFails(n) PROVE SupInv'
  BY <1>28 DEF StreakFails
<1>29. ASSUME NEW m \in Module, OnHealthFail(m) PROVE SupInv'
  BY <1>29 DEF OnHealthFail
<1>30. ASSUME NEW m \in Module, CountRestart(m) PROVE SupInv'
  BY <1>30 DEF CountRestart
<1>31. ASSUME NEW n \in Instance, OnHealthRecover(n) PROVE SupInv'
  BY <1>31 DEF OnHealthRecover
<1>32. ASSUME NEW n \in Instance, Relaunch(n) PROVE SupInv'
  BY <1>32 DEF Relaunch
<1>33. ASSUME Shutdown PROVE SupInv'
  BY <1>33 DEF Shutdown
<1>34. ASSUME StopMonitors PROVE SupInv'
  BY <1>34 DEF StopMonitors
<1>35. ASSUME StopSupervisors PROVE SupInv'
  <2>1. left # <<>> => Head(left) \in Module
    BY Behead DEF TypeOK
  <2>2. CASE left = <<>>
    BY <1>35, <2>2 DEF StopSupervisors
  <2>3. CASE left # <<>>
    <3> DEFINE h == Head(left)
    <3>1. /\ h \in Module /\ sup' = [sup EXCEPT ![h] = None]
          /\ run' = [n \in Instance |-> IF n = sup[h] THEN "stopped" ELSE run[n]]
          /\ UNCHANGED <<pc, hand, owner, state, opvars, core, mon>>
      BY <1>35, <2>1, <2>3 DEF StopSupervisors
    <3> HIDE DEF h
    <3> QED BY <3>1
  <2> QED BY <2>2, <2>3
<1>36. ASSUME NEW m \in Module, Install(m) PROVE SupInv'
  BY <1>36 DEF Install
<1>37. CASE UNCHANGED vars
  BY <1>37 DEF vars
<1> QED
  BY <1>1, <1>2, <1>3, <1>4, <1>5, <1>6, <1>7, <1>8, <1>9, <1>10, <1>11, <1>12, <1>13, <1>14,
     <1>15, <1>16, <1>17, <1>18, <1>19, <1>20, <1>21, <1>22, <1>23, <1>24, <1>25, <1>26, <1>27,
     <1>28, <1>29, <1>30, <1>31, <1>32, <1>33, <1>34, <1>35, <1>36, <1>37
  DEF Next, OpStep, HealthStep, Teardown, Worker

\* No process is lost.
LEMMA UpPreserved ==
    ASSUME TypeOK, NumInv, PcInv, CoreInv, OpInv, HandInv, RunInv, TearInv, SupInv, MonInv,
           TodoInv, UpInv, [Next]_vars
    PROVE  UpInv'
<1> Shape
  BY Shaped
<1> USE Names DEF Shape, PcInv, CoreInv, OpInv, HandInv, RunInv, TearInv, SupInv, MonInv,
        TodoInv, UpInv, Starting, Taken, Down, Tearing, Working, Listing, Shape, At, Go, Subject,
        record, procs, disk, life, opvars
<1>1. ASSUME Boot PROVE UpInv'
  BY <1>1 DEF Boot, life
<1>2. ASSUME Gone PROVE UpInv'
  BY <1>2 DEF Gone
<1>3. ASSUME PrePass PROVE UpInv'
  BY <1>3 DEF PrePass
<1>4. ASSUME BootNext PROVE UpInv'
  BY <1>4 DEF BootNext, Drifted
<1>5. ASSUME Booted PROVE UpInv'
  BY <1>5 DEF Booted
<1>6. ASSUME NEW m \in Module, ActivateRequest(m) PROVE UpInv'
  BY <1>6 DEF ActivateRequest
<1>7. ASSUME WriteFlag PROVE UpInv'
  BY <1>7 DEF WriteFlag
<1>8. ASSUME ActivateNext PROVE UpInv'
  BY <1>8 DEF ActivateNext
<1>9. ASSUME Answered PROVE UpInv'
  BY <1>9 DEF Answered
<1>10. ASSUME Setup PROVE UpInv'
  BY <1>10 DEF Setup, HookRuns
<1>11. ASSUME Launch PROVE UpInv'
  BY <1>11 DEF Launch
<1>12. ASSUME Probe PROVE UpInv'
  BY <1>12 DEF Probe
<1>13. ASSUME FailActivation PROVE UpInv'
  BY <1>13 DEF FailActivation
<1>14. ASSUME PostActivate PROVE UpInv'
  BY <1>14 DEF PostActivate, HookRuns
<1>15. ASSUME Activated PROVE UpInv'
  BY <1>15 DEF Activated
<1>16. ASSUME SetChecksum PROVE UpInv'
  BY <1>16 DEF SetChecksum
<1>17. ASSUME NEW m \in Module, DeactivateRequest(m) PROVE UpInv'
  BY <1>17 DEF DeactivateRequest
<1>18. ASSUME RemoveFlag PROVE UpInv'
  BY <1>18 DEF RemoveFlag
<1>19. ASSUME DeactivateModule PROVE UpInv'
  BY <1>19 DEF DeactivateModule
<1>20. ASSUME CheckBusy PROVE UpInv'
  BY <1>20 DEF CheckBusy
<1>21. ASSUME NEW t \in Worker, TakeMonitor(t) PROVE UpInv'
  BY <1>21 DEF TakeMonitor
<1>22. ASSUME NEW t \in Worker, Deregister(t) PROVE UpInv'
  BY <1>22 DEF Deregister
<1>23. ASSUME Drain PROVE UpInv'
  BY <1>23 DEF Drain
<1>24. ASSUME NEW t \in Worker, TakeSupervisor(t) PROVE UpInv'
  BY <1>24 DEF TakeSupervisor
<1>25. ASSUME NEW t \in Worker, StopProcess(t) PROVE UpInv'
  BY <1>25 DEF StopProcess
<1>26. ASSUME NEW t \in Worker, DropMux(t) PROVE UpInv'
  BY <1>26 DEF DropMux
<1>27. ASSUME NEW t \in Worker, Rest(t) PROVE UpInv'
  BY <1>27 DEF Rest
<1>28. ASSUME NEW n \in Instance, StreakFails(n) PROVE UpInv'
  BY <1>28 DEF StreakFails
<1>29. ASSUME NEW m \in Module, OnHealthFail(m) PROVE UpInv'
  BY <1>29 DEF OnHealthFail
<1>30. ASSUME NEW m \in Module, CountRestart(m) PROVE UpInv'
  BY <1>30 DEF CountRestart
<1>31. ASSUME NEW n \in Instance, OnHealthRecover(n) PROVE UpInv'
  BY <1>31 DEF OnHealthRecover
<1>32. ASSUME NEW n \in Instance, Relaunch(n) PROVE UpInv'
  BY <1>32 DEF Relaunch
<1>33. ASSUME Shutdown PROVE UpInv'
  BY <1>33 DEF Shutdown
<1>34. ASSUME StopMonitors PROVE UpInv'
  BY <1>34 DEF StopMonitors
<1>35. ASSUME StopSupervisors PROVE UpInv'
  BY <1>35 DEF StopSupervisors
<1>36. ASSUME NEW m \in Module, Install(m) PROVE UpInv'
  BY <1>36 DEF Install
<1>37. CASE UNCHANGED vars
  BY <1>37 DEF vars
<1> QED
  BY <1>1, <1>2, <1>3, <1>4, <1>5, <1>6, <1>7, <1>8, <1>9, <1>10, <1>11, <1>12, <1>13, <1>14,
     <1>15, <1>16, <1>17, <1>18, <1>19, <1>20, <1>21, <1>22, <1>23, <1>24, <1>25, <1>26, <1>27,
     <1>28, <1>29, <1>30, <1>31, <1>32, <1>33, <1>34, <1>35, <1>36, <1>37
  DEF Next, OpStep, HealthStep, Teardown, Worker

\* Wires lead to processes that are up, and active modules have one.
LEMMA ServePreserved ==
    ASSUME TypeOK, NumInv, PcInv, CoreInv, OpInv, HandInv, RunInv, TearInv, SupInv, MonInv,
           TodoInv, UpInv, ServeInv, [Next]_vars
    PROVE  ServeInv'
<1> Shape
  BY Shaped
<1> USE Names DEF Shape, PcInv, CoreInv, OpInv, HandInv, RunInv, TearInv, SupInv, MonInv,
        TodoInv, UpInv, ServeInv, Starting, Taken, Down, Tearing, Working, Listing, Shape, At, Go,
        Subject, record, procs, disk, life, opvars
<1>1. ASSUME Boot PROVE ServeInv'
  BY <1>1 DEF Boot, life
<1>2. ASSUME Gone PROVE ServeInv'
  BY <1>2 DEF Gone
<1>3. ASSUME PrePass PROVE ServeInv'
  BY <1>3 DEF PrePass
<1>4. ASSUME BootNext PROVE ServeInv'
  <2>1. Head(todo) \in Module /\ 1 \in DOMAIN todo /\ Head(todo) = todo[1]
    BY <1>4, Behead DEF BootNext, TypeOK
  <2>2. pc[Head(todo)] = "idle" /\ state[Head(todo)] # "active" /\ Head(todo) # at
    BY <2>1
  <2> QED BY <1>4, <2>1, <2>2 DEF BootNext, Drifted
<1>5. ASSUME Booted PROVE ServeInv'
  BY <1>5 DEF Booted
<1>6. ASSUME NEW m \in Module, ActivateRequest(m) PROVE ServeInv'
  BY <1>6 DEF ActivateRequest
<1>7. ASSUME WriteFlag PROVE ServeInv'
  BY <1>7 DEF WriteFlag
<1>8. ASSUME ActivateNext PROVE ServeInv'
  <2>1. Head(todo) \in Module /\ 1 \in DOMAIN todo /\ Head(todo) = todo[1]
    BY <1>8, Behead DEF ActivateNext, TypeOK
  <2>2. pc[Head(todo)] = "idle" /\ state[Head(todo)] # "active" /\ Head(todo) # at
    BY <2>1
  <2> QED BY <1>8, <2>1, <2>2 DEF ActivateNext
<1>9. ASSUME Answered PROVE ServeInv'
  BY <1>9 DEF Answered
<1>10. ASSUME Setup PROVE ServeInv'
  BY <1>10 DEF Setup, HookRuns
<1>11. ASSUME Launch PROVE ServeInv'
  BY <1>11, Launching
<1>12. ASSUME Probe PROVE ServeInv'
  BY <1>12 DEF Probe
<1>13. ASSUME FailActivation PROVE ServeInv'
  BY <1>13 DEF FailActivation
<1>14. ASSUME PostActivate PROVE ServeInv'
  BY <1>14 DEF PostActivate, HookRuns
<1>15. ASSUME Activated PROVE ServeInv'
  BY <1>15 DEF Activated
<1>16. ASSUME SetChecksum PROVE ServeInv'
  BY <1>16 DEF SetChecksum
<1>17. ASSUME NEW m \in Module, DeactivateRequest(m) PROVE ServeInv'
  BY <1>17 DEF DeactivateRequest
<1>18. ASSUME RemoveFlag PROVE ServeInv'
  BY <1>18 DEF RemoveFlag
<1>19. ASSUME DeactivateModule PROVE ServeInv'
  BY <1>19 DEF DeactivateModule
<1>20. ASSUME CheckBusy PROVE ServeInv'
  BY <1>20 DEF CheckBusy
<1>21. ASSUME NEW t \in Worker, TakeMonitor(t) PROVE ServeInv'
  BY <1>21 DEF TakeMonitor
<1>22. ASSUME NEW t \in Worker, Deregister(t) PROVE ServeInv'
  BY <1>22 DEF Deregister
<1>23. ASSUME Drain PROVE ServeInv'
  BY <1>23 DEF Drain
<1>24. ASSUME NEW t \in Worker, TakeSupervisor(t) PROVE ServeInv'
  BY <1>24 DEF TakeSupervisor
<1>25. ASSUME NEW t \in Worker, StopProcess(t) PROVE ServeInv'
  BY <1>25 DEF StopProcess
<1>26. ASSUME NEW t \in Worker, DropMux(t) PROVE ServeInv'
  BY <1>26 DEF DropMux
<1>27. ASSUME NEW t \in Worker, Rest(t) PROVE ServeInv'
  BY <1>27 DEF Rest
<1>28. ASSUME NEW n \in Instance, StreakFails(n) PROVE ServeInv'
  BY <1>28 DEF StreakFails
<1>29. ASSUME NEW m \in Module, OnHealthFail(m) PROVE ServeInv'
  BY <1>29 DEF OnHealthFail
<1>30. ASSUME NEW m \in Module, CountRestart(m) PROVE ServeInv'
  BY <1>30 DEF CountRestart
<1>31. ASSUME NEW n \in Instance, OnHealthRecover(n) PROVE ServeInv'
  BY <1>31 DEF OnHealthRecover
<1>32. ASSUME NEW n \in Instance, Relaunch(n) PROVE ServeInv'
  BY <1>32 DEF Relaunch
<1>33. ASSUME Shutdown PROVE ServeInv'
  BY <1>33 DEF Shutdown
<1>34. ASSUME StopMonitors PROVE ServeInv'
  BY <1>34 DEF StopMonitors
<1>35. ASSUME StopSupervisors PROVE ServeInv'
  BY <1>35 DEF StopSupervisors
<1>36. ASSUME NEW m \in Module, Install(m) PROVE ServeInv'
  BY <1>36 DEF Install
<1>37. CASE UNCHANGED vars
  BY <1>37 DEF vars
<1> QED
  BY <1>1, <1>2, <1>3, <1>4, <1>5, <1>6, <1>7, <1>8, <1>9, <1>10, <1>11, <1>12, <1>13, <1>14,
     <1>15, <1>16, <1>17, <1>18, <1>19, <1>20, <1>21, <1>22, <1>23, <1>24, <1>25, <1>26, <1>27,
     <1>28, <1>29, <1>30, <1>31, <1>32, <1>33, <1>34, <1>35, <1>36, <1>37
  DEF Next, OpStep, HealthStep, Teardown, Worker

\* Nobody else works on what is still to be activated.
LEMMA TodoPreserved ==
    ASSUME Patient, TypeOK, NumInv, PcInv, CoreInv, OpInv, HandInv, MonInv, TodoInv,
           [Next]_vars
    PROVE  TodoInv'
<1> \A i \in DOMAIN todo : todo[i] \in Module
  BY DEF TypeOK
<1> Shape
  BY Shaped
<1> USE Names DEF Shape, PcInv, CoreInv, OpInv, HandInv, MonInv, TodoInv, Starting, Taken,
        Down, Tearing, Working, Listing, Shape, At, Go, Subject, record, procs, disk, life, opvars
<1>1. ASSUME Boot PROVE TodoInv'
  <2>1. todo' = Kept(Order, {m \in Module : flag[m] # "none"})
    BY <1>1 DEF Boot
  <2>2. Distinct(todo') /\ \A i \in DOMAIN todo' : todo'[i] \in Module
    BY <2>1, KeptDistinct, LifecycleAssumption
  <2>3. at' = None /\ \A m \in Module : pc'[m] = "idle" /\ state'[m] # "active"
    BY <1>1 DEF Boot, life
  <2> QED BY <2>2, <2>3
<1>2. ASSUME Gone PROVE TodoInv'
  <2>1. todo' = <<>> /\ DOMAIN todo' = {}
    BY <1>2 DEF Gone
  <2> QED BY <2>1 DEF Distinct
<1>3. ASSUME PrePass PROVE TodoInv'
  BY <1>3 DEF PrePass
<1>4. ASSUME BootNext PROVE TodoInv'
  <2>1. /\ todo # <<>> /\ todo' = Tail(todo)
        /\ at' = at \/ at' = Head(todo)
        /\ pc' = pc \/ Go(Op, "setup")
        /\ state' = state \/ state' = [state EXCEPT ![Head(todo)] = "unavailable"]
    BY <1>4 DEF BootNext, record
  <2>2. Distinct(todo') /\ \A i \in DOMAIN todo' : todo'[i] # Head(todo)
    BY <2>1, TailDistinct DEF TypeOK
  <2>3. \A i \in DOMAIN todo' : i + 1 \in DOMAIN todo /\ todo'[i] = todo[i + 1] /\ todo'[i] \in Module
    BY <2>1, Behead DEF TypeOK
  <2>4. \A i \in DOMAIN todo' : pc[todo'[i]] = "idle" /\ state[todo'[i]] # "active" /\ todo'[i] # at
    BY <2>3
  <2> QED BY <2>1, <2>2, <2>3, <2>4
<1>5. ASSUME Booted PROVE TodoInv'
  BY <1>5 DEF Booted
<1>6. ASSUME NEW m \in Module, ActivateRequest(m) PROVE TodoInv'
  <2>1. PICK s \in Cascades(m) : todo' = Append(s, m)
    BY <1>6 DEF ActivateRequest
  <2>2. s \in Seq(Module) /\ Distinct(s) /\ \A i \in DOMAIN s : s[i] \in Ready /\ s[i] # m
    BY CascadeLists
  <2>3. Distinct(todo') /\ \A i \in DOMAIN todo' : todo'[i] = m \/ todo'[i] \in Ready
    BY <2>1, <2>2, AppendDistinct
  <2>0. \A i \in DOMAIN todo' : pc[todo'[i]] = "idle"
    BY <1>6 DEF ActivateRequest
  <2>4. at' = None /\ pc'= [pc EXCEPT ![Op] = "flags"] /\ state' = state /\ state[m] # "active"
    BY <1>6 DEF ActivateRequest
  <2>5. \A i \in DOMAIN todo' : todo'[i] \in Module /\ state[todo'[i]] # "active"
    BY <2>3, <2>4 DEF Ready
  <2> QED BY <2>0, <2>3, <2>4, <2>5
<1>7. ASSUME WriteFlag PROVE TodoInv'
  BY <1>7 DEF WriteFlag
<1>8. ASSUME ActivateNext PROVE TodoInv'
  <2>1. /\ todo # <<>> /\ todo' = Tail(todo)
        /\ at' = at \/ at' = Head(todo)
        /\ pc' = pc \/ Go(Op, "setup")
        /\ state' = state \/ state' = [state EXCEPT ![Head(todo)] = "unavailable"]
    BY <1>8 DEF ActivateNext
  <2>2. Distinct(todo') /\ \A i \in DOMAIN todo' : todo'[i] # Head(todo)
    BY <2>1, TailDistinct DEF TypeOK
  <2>3. \A i \in DOMAIN todo' : i + 1 \in DOMAIN todo /\ todo'[i] = todo[i + 1] /\ todo'[i] \in Module
    BY <2>1, Behead DEF TypeOK
  <2>4. \A i \in DOMAIN todo' : pc[todo'[i]] = "idle" /\ state[todo'[i]] # "active" /\ todo'[i] # at
    BY <2>3
  <2> QED BY <2>1, <2>2, <2>3, <2>4
<1>9. ASSUME Answered PROVE TodoInv'
  BY <1>9 DEF Answered
<1>10. ASSUME Setup PROVE TodoInv'
  BY <1>10 DEF Setup, HookRuns
<1>11. ASSUME Launch PROVE TodoInv'
  BY <1>11 DEF Launch
<1>12. ASSUME Probe PROVE TodoInv'
  BY <1>12 DEF Probe
<1>13. ASSUME FailActivation PROVE TodoInv'
  BY <1>13 DEF FailActivation
<1>14. ASSUME PostActivate PROVE TodoInv'
  BY <1>14 DEF PostActivate, HookRuns
<1>15. ASSUME Activated PROVE TodoInv'
  BY <1>15 DEF Activated
<1>16. ASSUME SetChecksum PROVE TodoInv'
  BY <1>16 DEF SetChecksum
<1>17. ASSUME NEW m \in Module, DeactivateRequest(m) PROVE TodoInv'
  BY <1>17 DEF DeactivateRequest
<1>18. ASSUME RemoveFlag PROVE TodoInv'
  BY <1>18 DEF RemoveFlag
<1>19. ASSUME DeactivateModule PROVE TodoInv'
  BY <1>19 DEF DeactivateModule
<1>20. ASSUME CheckBusy PROVE TodoInv'
  BY <1>20 DEF CheckBusy
<1>21. ASSUME NEW t \in Worker, TakeMonitor(t) PROVE TodoInv'
  BY <1>21 DEF TakeMonitor
<1>22. ASSUME NEW t \in Worker, Deregister(t) PROVE TodoInv'
  BY <1>22 DEF Deregister
<1>23. ASSUME Drain PROVE TodoInv'
  BY <1>23 DEF Drain
<1>24. ASSUME NEW t \in Worker, TakeSupervisor(t) PROVE TodoInv'
  BY <1>24 DEF TakeSupervisor
<1>25. ASSUME NEW t \in Worker, StopProcess(t) PROVE TodoInv'
  BY <1>25 DEF StopProcess
<1>26. ASSUME NEW t \in Worker, DropMux(t) PROVE TodoInv'
  BY <1>26 DEF DropMux
<1>27. ASSUME NEW t \in Worker, Rest(t) PROVE TodoInv'
  BY <1>27 DEF Rest
<1>28. ASSUME NEW n \in Instance, StreakFails(n) PROVE TodoInv'
  BY <1>28 DEF StreakFails
<1>29. ASSUME NEW m \in Module, OnHealthFail(m) PROVE TodoInv'
  BY <1>29 DEF OnHealthFail
<1>30. ASSUME NEW m \in Module, CountRestart(m) PROVE TodoInv'
  BY <1>30 DEF CountRestart
<1>31. ASSUME NEW n \in Instance, OnHealthRecover(n) PROVE TodoInv'
  BY <1>31 DEF OnHealthRecover
<1>32. ASSUME NEW n \in Instance, Relaunch(n) PROVE TodoInv'
  BY <1>32 DEF Relaunch
<1>33. ASSUME Shutdown PROVE TodoInv'
  BY <1>33 DEF Shutdown
<1>34. ASSUME StopMonitors PROVE TodoInv'
  BY <1>34 DEF StopMonitors
<1>35. ASSUME StopSupervisors PROVE TodoInv'
  BY <1>35 DEF StopSupervisors
<1>36. ASSUME NEW m \in Module, Install(m) PROVE TodoInv'
  BY <1>36 DEF Install
<1>37. CASE UNCHANGED vars
  BY <1>37 DEF vars
<1> QED
  BY <1>1, <1>2, <1>3, <1>4, <1>5, <1>6, <1>7, <1>8, <1>9, <1>10, <1>11, <1>12, <1>13, <1>14,
     <1>15, <1>16, <1>17, <1>18, <1>19, <1>20, <1>21, <1>22, <1>23, <1>24, <1>25, <1>26, <1>27,
     <1>28, <1>29, <1>30, <1>31, <1>32, <1>33, <1>34, <1>35, <1>36, <1>37
  DEF Next, OpStep, HealthStep, Teardown, Worker

------------------------------------------------------------------------------
\* The initial states satisfy all parts.
LEMMA Initially == Init => LInv
<1> SUFFICES ASSUME Init PROVE LInv
  OBVIOUS
<1>1. TypeOK
  <2>1. boots \in 0 .. MaxBoots /\ restarts \in [Module -> 0 .. HealthMaxRestarts]
    BY LifecycleAssumption DEF Init
  <2>2. pc \in [Thread -> Place]
    BY DEF Init, Place
  <2>3. todo \in Seq(Module) /\ left \in Seq(Module)
    BY DEF Init
  <2> QED BY <2>1, <2>2, <2>3 DEF Init, TypeOK
<1> Shape
  BY <1>1, Shaped
<1> USE Names DEF Shape, Starting, Down, Taken, Tearing, Working, Listing
<1>2. PcInv /\ OpInv /\ HandInv
  BY DEF Init, PcInv, OpInv, HandInv
<1>3. CoreInv /\ RunInv /\ MonInv /\ TearInv
  BY DEF Init, CoreInv, RunInv, MonInv, TearInv
<1>4. NumInv
  <2>1. Launched = 1 .. 0
    BY DEF Init, Launched
  <2>2. 0 \in 0 .. MaxInstance
    BY LifecycleAssumption
  <2> QED BY <2>1, <2>2 DEF NumInv
<1>5. SupInv /\ UpInv /\ ServeInv
  BY DEF Init, SupInv, UpInv, ServeInv
<1>6. TodoInv
  <2>1. todo = <<>> /\ DOMAIN todo = {}
    BY DEF Init
  <2> QED BY <2>1 DEF TodoInv, Distinct
<1> QED BY <1>1, <1>2, <1>3, <1>4, <1>5, <1>6 DEF LInv

\* All parts together are inductive.
LEMMA Inductive == ASSUME Patient PROVE Spec => []LInv
<1>1. Init => LInv
  BY Initially
<1>2. LInv /\ [Next]_vars => LInv'
  <2> SUFFICES ASSUME LInv, [Next]_vars PROVE LInv'
    OBVIOUS
  <2>1. /\ TypeOK /\ PcInv /\ CoreInv /\ OpInv /\ HandInv /\ NumInv /\ RunInv /\ MonInv
        /\ TearInv /\ SupInv /\ UpInv /\ ServeInv /\ TodoInv
    BY DEF LInv
  <2>2. TypeOK' /\ PcInv' /\ CoreInv' /\ OpInv'
    BY <2>1, TypePreserved, PcPreserved, CorePreserved, OpPreserved
  <2>3. HandInv' /\ NumInv' /\ RunInv' /\ MonInv'
    BY <2>1, HandPreserved, NumPreserved, RunPreserved, MonPreserved
  <2>4. TearInv' /\ SupInv' /\ UpInv' /\ ServeInv'
    BY <2>1, TearPreserved, SupPreserved, UpPreserved, ServePreserved
  <2>5. TodoInv'
    BY <2>1, TodoPreserved
  <2> QED BY <2>2, <2>3, <2>4, <2>5 DEF LInv
<1> QED BY <1>1, <1>2, PTL DEF Spec

\* Every variable has its type, and no process is lost: one that is up is on its
\* record, in a goroutine's hands, or was left behind by an activation that failed.
THEOREM NoProcessLost == ASSUME Patient PROVE Spec => []Owned
<1>1. LInv => Owned
  BY Names DEF LInv, Owned, UpInv
<1> QED BY <1>1, Inductive, PTL

\* As long as core is not shutting down, an active module has a supervisor that
\* is not stopped, and its wire is that supervisor's.
THEOREM ActiveServed == ASSUME Patient PROVE Spec => []ActiveIsServed
<1>1. LInv => ActiveIsServed
  BY DEF LInv, ServeInv, ActiveIsServed
<1> QED BY <1>1, Inductive, PTL

\* Once nobody works on it, a module at rest has no supervisor, monitor or wire, no
\* monitor loop of it goes on, and every process it had is stopped.
THEOREM RestDown == ASSUME Patient PROVE Spec => []RestIsDown
<1>1. LInv => RestIsDown
  <2> SUFFICES ASSUME LInv, NEW m \in Module, core = "up", state[m] \in {"ready", "failed"},
                      pc[m] = "idle", at # m
               PROVE  /\ sup[m] = None /\ mon[m] = None /\ mux[m] = None
                      /\ \A n \in Instance : owner[n] = m => run[n] = "stopped" /\ n \notin watching
    BY DEF RestIsDown, At
  <2> Shape
    BY Shaped DEF LInv
  <2> USE Names DEF Shape
  <2>1. sup[m] = None
    BY DEF LInv, SupInv
  <2>2. mon[m] = None
    BY DEF LInv, MonInv
  <2>3. ASSUME NEW n \in Instance, owner[n] = m PROVE run[n] = "stopped" /\ n \notin watching
    <3>1. run[n] # "none"
      BY <2>3 DEF LInv, RunInv
    <3>2. \A t \in Worker : hand[t] # n
      BY <2>3 DEF LInv, HandInv, Subject
    <3>3. run[n] # "up"
      BY <2>1, <2>3, <3>2 DEF LInv, UpInv
    <3>4. n \notin watching
      BY <2>2, <2>3 DEF LInv, MonInv
    <3> QED BY <3>1, <3>3, <3>4
  <2>4. mux[m] = None
    <3>1. \A t \in Worker : pc[t] = "unbind" => Subject(t) # m
      BY DEF Subject
    <3> QED BY <2>3, <3>1 DEF LInv, ServeInv
  <2> QED BY <2>1, <2>2, <2>3, <2>4
<1> QED BY <1>1, Inductive, PTL

------------------------------------------------------------------------------
\* Providers are settled before their dependents, or listed before them.
LEMMA OrderPreserved ==
    ASSUME Acyclic, TypeOK, PcInv, CoreInv, OpInv, OrderInv, [Next]_vars
    PROVE  OrderInv'
<1> \A i \in DOMAIN todo : todo[i] \in Module
  BY DEF TypeOK
<1> \A m \in Module : Requires[m] \subseteq Module
  BY RequiresModules
<1> Shape
  BY Shaped
<1> USE Names DEF Shape, PcInv, CoreInv, OpInv, OrderInv, Settled, Starting, Taken, Down,
        Tearing, Working, Listing, Shape, At, Go, Subject, record, procs, disk, life, opvars
<1>1. ASSUME Boot PROVE OrderInv'
  BY <1>1 DEF Boot, life
<1>2. ASSUME Gone PROVE OrderInv'
  <2>1. todo' = <<>> /\ DOMAIN todo' = {}
    BY <1>2 DEF Gone
  <2> QED BY <2>1
<1>3. ASSUME PrePass PROVE OrderInv'
  BY <1>3 DEF PrePass
<1>4. ASSUME BootNext PROVE OrderInv'
  BY <1>4 DEF BootNext, Drifted
<1>5. ASSUME Booted PROVE OrderInv'
  BY <1>5 DEF Booted
<1>6. ASSUME NEW m \in Module, ActivateRequest(m) PROVE OrderInv'
  <2>1. PICK s \in Cascades(m) : todo' = Append(s, m)
    BY <1>6 DEF ActivateRequest
  <2>2. /\ s \in Seq(Module)
        /\ \A p \in Requires[m] : p \in Ready /\ p # m => \E j \in DOMAIN s : s[j] = p
        /\ \A i \in DOMAIN s : \A p \in Requires[s[i]] :
               p \in Ready => OnCycle(s[i]) \/ \E j \in DOMAIN s : j < i /\ s[j] = p
        /\ \A i \in DOMAIN s : s[i] \in Ready
    BY CascadeLists
  <2> DEFINE n == Len(s) + 1
  <2>3. /\ Len(s) \in Nat /\ DOMAIN s = 1 .. Len(s) /\ DOMAIN todo' = 1 .. n /\ n - 1 = Len(s)
        /\ todo'[n] = m /\ (\A i \in 1 .. Len(s) : todo'[i] = s[i]) /\ n \in Nat
    BY <2>1, <2>2
  <2>4. \A i \in 1 .. n : i = n \/ i \in 1 .. Len(s)
    BY <2>3
  <2> HIDE DEF n
  <2>5. state' = state
    BY <1>6 DEF ActivateRequest
  <2>6. SUFFICES ASSUME NEW i \in 1 .. n, NEW p \in Requires[todo'[i]], state[p] = "ready"
                 PROVE  \E j \in 1 .. i - 1 : todo'[j] = p
    BY <2>3, <2>5 DEF OrderInv, Settled
  <2>7. CASE i = n
    <3>1. p \in Requires[m] /\ p \in Ready
      BY <2>3, <2>6, <2>7 DEF Ready
    <3>2. p # m
      BY <3>1 DEF Acyclic, OnCycle
    <3>3. PICK j \in 1 .. Len(s) : s[j] = p
      BY <2>2, <2>3, <3>1, <3>2
    <3> QED BY <2>3, <2>7, <3>3
  <2>8. CASE i \in 1 .. Len(s)
    <3>0. s[i] \in Module /\ todo'[i] = s[i]
      BY <2>2, <2>3, <2>8
    <3>1. p \in Requires[s[i]] /\ p \in Ready
      BY <2>6, <3>0, RequiresModules DEF Ready
    <3>2. ~OnCycle(s[i])
      BY <3>0 DEF Acyclic
    <3>3. i \in DOMAIN s
      BY <2>3, <2>8
    <3>4. \E j \in DOMAIN s : j < i /\ s[j] = p
      BY <2>2, <3>1, <3>2, <3>3
    <3>5. PICK j \in 1 .. Len(s) : j < i /\ s[j] = p
      BY <2>3, <3>4
    <3>6. j \in 1 .. i - 1 /\ todo'[j] = p
      BY <2>3, <2>8, <3>5
    <3> QED BY <3>6
  <2> QED BY <2>4, <2>6, <2>7, <2>8
<1>7. ASSUME WriteFlag PROVE OrderInv'
  BY <1>7 DEF WriteFlag
<1>8. ASSUME ActivateNext PROVE OrderInv'
  <2>1. /\ todo # <<>> /\ todo' = Tail(todo) /\ core' = core
        /\ pc[Op] = "next" /\ rolling' = rolling
        /\ \/ /\ state[Head(todo)] # "ready"
              /\ UNCHANGED <<state, at, pc>>
           \/ /\ state' = [state EXCEPT ![Head(todo)] = "unavailable"]
              /\ UNCHANGED <<at, pc>>
           \/ at' = Head(todo) /\ Go(Op, "setup") /\ UNCHANGED state
    BY <1>8 DEF ActivateNext
  <2>2. /\ Head(todo) \in Module /\ Head(todo) = todo[1] /\ 1 \in DOMAIN todo
        /\ \A i \in DOMAIN todo' : i + 1 \in DOMAIN todo /\ todo'[i] = todo[i + 1] /\ i \in Nat
        /\ \A i \in DOMAIN todo : i \in Nat /\ (i = 1 \/ (i - 1 \in DOMAIN todo' /\ todo'[i - 1] = todo[i]))
    <3>1. todo \in Seq(Module)
      BY DEF TypeOK
    <3>2. /\ Head(todo) \in Module /\ 1 \in DOMAIN todo /\ Head(todo) = todo[1]
          /\ \A i \in DOMAIN Tail(todo) : i + 1 \in DOMAIN todo /\ Tail(todo)[i] = todo[i + 1]
          /\ \A i \in DOMAIN todo : i = 1 \/ (i - 1 \in DOMAIN Tail(todo) /\ Tail(todo)[i - 1] = todo[i])
          /\ DOMAIN todo \subseteq Nat /\ DOMAIN Tail(todo) \subseteq Nat
      BY <2>1, <3>1, Behead
    <3> QED BY <2>1, <3>2
  <2>3. \A p \in Module : p = Head(todo) => Settled(p)'
    BY <2>1, <2>2
  <2>4. \A p \in Module : Settled(p) => Settled(p)'
    BY <2>1, <2>2
  <2>5. SUFFICES ASSUME core' # "boot", NEW i \in DOMAIN todo', NEW p \in Requires[todo'[i]], ~Settled(p)'
                 PROVE  \E j \in 1 .. i - 1 : todo'[j] = p
    BY DEF OrderInv
  <2>6. PICK j \in 1 .. i : todo[j] = p
    <3>1. i + 1 \in DOMAIN todo /\ i + 1 - 1 = i /\ p \in Requires[todo[i + 1]] /\ p \in Module
      BY <2>2
    <3> QED BY <2>1, <2>4, <2>5, <3>1 DEF OrderInv
  <2>7. j # 1
    BY <2>2, <2>3, <2>5, <2>6 DEF Settled
  <2>8. j \in DOMAIN todo /\ j \in Nat /\ i \in Nat
    <3>1. todo \in Seq(Module) /\ DOMAIN todo = 1 .. Len(todo) /\ Len(todo) \in Nat
      BY DEF TypeOK
    <3> QED BY <2>2, <3>1
  <2>9. j - 1 \in 1 .. i - 1 /\ todo'[j - 1] = p
    <3>1. todo'[j - 1] = p
      BY <2>2, <2>6, <2>7, <2>8
    <3>2. j - 1 \in 1 .. i - 1
      BY <2>6, <2>7, <2>8
    <3> QED BY <3>1, <3>2
  <2> QED BY <2>9
<1>9. ASSUME Answered PROVE OrderInv'
  BY <1>9 DEF Answered
<1>10. ASSUME Setup PROVE OrderInv'
  BY <1>10 DEF Setup, HookRuns
<1>11. ASSUME Launch PROVE OrderInv'
  BY <1>11 DEF Launch
<1>12. ASSUME Probe PROVE OrderInv'
  BY <1>12 DEF Probe
<1>13. ASSUME FailActivation PROVE OrderInv'
  BY <1>13 DEF FailActivation
<1>14. ASSUME PostActivate PROVE OrderInv'
  BY <1>14 DEF PostActivate, HookRuns
<1>15. ASSUME Activated PROVE OrderInv'
  BY <1>15 DEF Activated
<1>16. ASSUME SetChecksum PROVE OrderInv'
  BY <1>16 DEF SetChecksum
<1>17. ASSUME NEW m \in Module, DeactivateRequest(m) PROVE OrderInv'
  BY <1>17 DEF DeactivateRequest
<1>18. ASSUME RemoveFlag PROVE OrderInv'
  BY <1>18 DEF RemoveFlag
<1>19. ASSUME DeactivateModule PROVE OrderInv'
  BY <1>19 DEF DeactivateModule
<1>20. ASSUME CheckBusy PROVE OrderInv'
  BY <1>20 DEF CheckBusy
<1>21. ASSUME NEW t \in Worker, TakeMonitor(t) PROVE OrderInv'
  BY <1>21 DEF TakeMonitor
<1>22. ASSUME NEW t \in Worker, Deregister(t) PROVE OrderInv'
  BY <1>22 DEF Deregister
<1>23. ASSUME Drain PROVE OrderInv'
  BY <1>23 DEF Drain
<1>24. ASSUME NEW t \in Worker, TakeSupervisor(t) PROVE OrderInv'
  BY <1>24 DEF TakeSupervisor
<1>25. ASSUME NEW t \in Worker, StopProcess(t) PROVE OrderInv'
  BY <1>25 DEF StopProcess
<1>26. ASSUME NEW t \in Worker, DropMux(t) PROVE OrderInv'
  BY <1>26 DEF DropMux
<1>27. ASSUME NEW t \in Worker, Rest(t) PROVE OrderInv'
  BY <1>27 DEF Rest
<1>28. ASSUME NEW n \in Instance, StreakFails(n) PROVE OrderInv'
  BY <1>28 DEF StreakFails
<1>29. ASSUME NEW m \in Module, OnHealthFail(m) PROVE OrderInv'
  BY <1>29 DEF OnHealthFail
<1>30. ASSUME NEW m \in Module, CountRestart(m) PROVE OrderInv'
  BY <1>30 DEF CountRestart
<1>31. ASSUME NEW n \in Instance, OnHealthRecover(n) PROVE OrderInv'
  BY <1>31 DEF OnHealthRecover
<1>32. ASSUME NEW n \in Instance, Relaunch(n) PROVE OrderInv'
  BY <1>32 DEF Relaunch
<1>33. ASSUME Shutdown PROVE OrderInv'
  BY <1>33 DEF Shutdown
<1>34. ASSUME StopMonitors PROVE OrderInv'
  BY <1>34 DEF StopMonitors
<1>35. ASSUME StopSupervisors PROVE OrderInv'
  BY <1>35 DEF StopSupervisors
<1>36. ASSUME NEW m \in Module, Install(m) PROVE OrderInv'
  BY <1>36 DEF Install
<1>37. CASE UNCHANGED vars
  BY <1>37 DEF vars
<1> QED
  BY <1>1, <1>2, <1>3, <1>4, <1>5, <1>6, <1>7, <1>8, <1>9, <1>10, <1>11, <1>12, <1>13, <1>14,
     <1>15, <1>16, <1>17, <1>18, <1>19, <1>20, <1>21, <1>22, <1>23, <1>24, <1>25, <1>26, <1>27,
     <1>28, <1>29, <1>30, <1>31, <1>32, <1>33, <1>34, <1>35, <1>36, <1>37
  DEF Next, OpStep, HealthStep, Teardown, Worker

\* The handler begins to activate a module only when each provider it requires is
\* up, or its health has failed or is failing.
THEOREM ProvidersBeforeDependents == ASSUME Patient, Acyclic PROVE Spec => ProvidersFirst
<1>1. Init => LInv /\ OrderInv
  <2>1. Init => todo = <<>> /\ DOMAIN todo = {}
    BY DEF Init
  <2> QED BY <2>1, Initially DEF OrderInv
<1>2. LInv /\ OrderInv /\ [Next]_vars => OrderInv'
  BY OrderPreserved DEF LInv
<1>3. LInv /\ OrderInv /\ [Next]_vars =>
          (core = "up" /\ At(Op, "next") /\ pc'[Op] = "setup"
           => \A p \in Requires[at'] : state[p] \in {"active", "failed"} \/ ~At(p, "idle"))
  <2> SUFFICES ASSUME LInv, OrderInv, [Next]_vars, core = "up", pc[Op] = "next",
                      pc'[Op] = "setup", NEW p \in Requires[at']
               PROVE  state[p] \in {"active", "failed"} \/ pc[p] # "idle"
    BY DEF At
  <2> Shape
    BY Shaped DEF LInv
  <2> USE Names DEF Shape, At, Go
  <2>1. ActivateNext /\ at' = Head(todo) /\ ~FirstMissing(Head(todo))
    <3>1. ActivateNext
      <4>1. ASSUME NEW t \in Worker, Teardown(t) PROVE FALSE
        BY <4>1 DEF Teardown, TakeMonitor, Deregister, TakeSupervisor, StopProcess, DropMux, Rest
      <4>2. ASSUME NEW m \in Module, HealthStep(m) PROVE FALSE
        BY <4>1, <4>2 DEF HealthStep, OnHealthFail, CountRestart
      <4>3. ASSUME NEW n \in Instance, StreakFails(n) \/ OnHealthRecover(n) \/ Relaunch(n) PROVE FALSE
        BY <4>3 DEF StreakFails, OnHealthRecover, Relaunch, LInv, MonInv
      <4>4. ASSUME NEW m \in Module, ActivateRequest(m) \/ DeactivateRequest(m) \/ Install(m) PROVE FALSE
        BY <4>4 DEF ActivateRequest, DeactivateRequest, Install
      <4>5. ~(Boot \/ Gone \/ Shutdown \/ StopMonitors \/ StopSupervisors)
        BY DEF Boot, Gone, Shutdown, StopMonitors, StopSupervisors
      <4>6. ~UNCHANGED vars
        BY DEF vars
      <4>7. OpStep
        BY <4>2, <4>3, <4>4, <4>5, <4>6 DEF Next
      <4> QED BY <4>1, <4>7 DEF OpStep, PrePass, BootNext, Booted, WriteFlag, Answered, Setup,
           Launch, Probe, FailActivation, PostActivate, Activated, SetChecksum, RemoveFlag,
           DeactivateModule, CheckBusy, Drain
    <3> QED BY <3>1 DEF ActivateNext
  <2>2. 1 \in DOMAIN todo /\ Head(todo) = todo[1] /\ Head(todo) \in Module
    BY <2>1, Behead DEF ActivateNext, LInv, TypeOK
  <2>3. p \in Module
    BY <2>1, <2>2, RequiresModules
  <2>4. Settled(p)
    <3>1. ~ \E j \in 1 .. 1 - 1 : todo[j] = p
      OBVIOUS
    <3> QED BY <2>1, <2>2, <3>1 DEF OrderInv
  <2>5. ~Working
    BY DEF LInv, OpInv, Working, Starting, Tearing, Taken, Down
  <2> QED BY <2>1, <2>3, <2>4, <2>5 DEF Settled, Taken, Down, FirstMissing, Inert
<1> QED BY <1>1, <1>2, <1>3, Inductive, PTL DEF Spec, ProvidersFirst
==============================================================================
