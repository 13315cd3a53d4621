------------------------------- MODULE Nginx -------------------------------
(***************************************************************************)
(* The nginx module (modules/suctl-mod-nginx): it keeps no state of its own, *)
(* "the nginx config tree is the source of truth".  The state is the disk:  *)
(* site files, their links, the overrides in conf.d, the certificates; and  *)
(* the configuration the running nginx has loaded.                          *)
(*                                                                         *)
(* The jobs of the module are serialized by the broker (Broker.Serialized), *)
(* so that a synchronous capability is one action; nginx.provision and the  *)
(* certbot job it starts are several.  A server block is what tells blocks  *)
(* apart here: its names, ports, what it answers with, the certificate it   *)
(* needs, and, when the operator wrote it, which one it is.                 *)
(***************************************************************************)
EXTENDS Naturals, Sequences, FiniteSets, FiniteSetsExt, SequencesExt

CONSTANTS
    Domain,           \* host names that do not start with www.
    Files,            \* the site files in the order nginx includes them
    Default,          \* the default site, one of them
    NoDomain,         \* not a domain
    Id,               \* tells the operator's blocks apart
    Disks,            \* initial site files: [available, enabled, certs]
    MaxJobs           \* bound: capabilities that are called

Www(d) == <<"www", d>>
Host   == Domain \cup {Www(d) : d \in Domain}
File   == ToSet(Files)
Kind   == {"maintenance", "suspended"}

ASSUME NginxAssumption ==
    /\ Files \in Seq(File) /\ Default \in File \ Host /\ File \ {Default} \subseteq Host /\ Domain \subseteq File
    /\ NoDomain \notin Host /\ Id \cap {"suctl", "added"} = {} /\ MaxJobs \in Nat

VARIABLES
    available,        \* the blocks of each file of sites-available, in order
    enabled,          \* the files with a link in sites-enabled
    overrides,        \* the blocks of each override file of conf.d
    certs,            \* domains with a live certificate
    broken,           \* the operator has left an error in some other file
    running,          \* the blocks the running nginx has loaded
    provision,        \* nginx.provision: the step it is at and its domain
    certbot,          \* domains an accepted certbot job is working on
    result,           \* what the last capability returned
    jobs,             \* bound: capabilities called so far
    own               \* history: the operator's blocks, live from the start

disk      == <<available, enabled, overrides>>
nginxVars == <<disk, certs, broken, running, provision, certbot, result, jobs, own>>

------------------------------------------------------------------------------
\* Blocks.

Block(id, names, ports) ==
    [id |-> id, names |-> names, ports |-> ports, redirect |-> FALSE,
     root |-> "site", cert |-> NoDomain]

\* suspendedBlock.., maintenanceBlock..: with a certificate port 80 redirects.
OverrideBlocks(kind, names, d, https) ==
    IF https
    THEN << [Block("suctl", names, {80}) EXCEPT !.redirect = TRUE],
            [Block("suctl", names, {443}) EXCEPT !.root = kind, !.cert = d] >>
    ELSE << [Block("suctl", names, {80}) EXCEPT !.root = kind] >>

\* isSuctlOverride.
IsOverride(b) == b.root \in Kind

\* blockPrimary: a name without www. first; a catch-all has none.
Primary(b) ==
    LET bare == SelectInSeq(b.names, LAMBDA n : n \in Domain)
    IN  IF bare # 0 THEN b.names[bare] ELSE IF b.names # <<>> THEN b.names[1] ELSE NoDomain

Blocks(ids, roots) ==
    [id : ids, names : Seq(Host), ports : SUBSET Nat, redirect : BOOLEAN,
     root : roots, cert : Host \cup {NoDomain}]

\* What suctl finds is written by the operator, and every site that can be moved
\* has a file to be moved to.
ASSUME DiskAssumption ==
    \A d \in Disks :
        /\ d.available \in [File -> Seq(Blocks(Id, {"site"}))]
        /\ d.enabled \subseteq File /\ d.certs \subseteq Domain
        /\ \A f \in File : \A b \in ToSet(d.available[f]) : Primary(b) \in File \cup {NoDomain}

SharesName(b, c) == ToSet(b.names) \cap ToSet(c.names) # {}
SameNames(b, c)  == ToSet(b.names) = ToSet(c.names)

\* blocksConflict.
Conflicts(b, c) == SharesName(b, c) /\ b.ports \cap c.ports # {}

\* domainInBlock.
Mentions(b, d) == \E n \in ToSet(b.names) : n = d \/ n = Www(d)

\* parseNginxTree: conf.d before sites-enabled, each in the order of its names.
TreeOf(avail, links, over) ==
    FlattenSeq([i \in DOMAIN Files |-> over["maintenance"][Files[i]]]) \o
    FlattenSeq([i \in DOMAIN Files |-> over["suspended"][Files[i]]]) \o
    FlattenSeq([i \in DOMAIN Files |-> IF Files[i] \in links THEN avail[Files[i]] ELSE <<>>])

Tree == TreeOf(available, enabled, overrides)

\* nginxTest.
Valid(tree, live) == ~broken /\ \A i \in DOMAIN tree : tree[i].cert \in live \cup {NoDomain}

\* Of the sites an operator keeps, what a property may depend on (README, section 6).
\* A file that is linked is named by a site in it, and the default site has one block
\* of a name.
OneHome(avail, links) ==
    /\ \A f \in links \ {Default} : \E b \in ToSet(avail[f]) : Mentions(b, f)
    /\ \A b, c \in ToSet(avail[Default]) : Primary(b) = Primary(c) /\ Primary(b) # NoDomain => b.id = c.id

\* Sites that are linked share all of their names or none.
Sites(avail, links) == UNION {ToSet(avail[f]) : f \in links}
NamesAgree(avail, links) ==
    Default \in links /\ \A b, c \in Sites(avail, links) : SharesName(b, c) => SameNames(b, c)

\* Every site with a name has the port 80.
OnEighty(avail) == \A f \in File : \A b \in ToSet(avail[f]) : b.names # <<>> => 80 \in b.ports

------------------------------------------------------------------------------
\* splitBlocks: the blocks of the tree that are no overrides, by their positions.
Serving == LET t == Tree IN {i \in DOMAIN t : ~IsOverride(t[i])}

\* ReadDomain: the serving block whose primary is n, or else one that names it.
ReadDomain(n) ==
    LET first == SelectInSeq(Tree, LAMBDA b : ~IsOverride(b) /\ Primary(b) = n)
        other == SelectInSeq(Tree, LAMBDA b : ~IsOverride(b) /\ Mentions(b, n))
    IN  IF first # 0 THEN first ELSE other

\* mutant: a pair of blocks is looked at once, from the first of them
Colliding_once(i) == LET t == Tree IN {j \in Serving : i < j /\ Conflicts(t[i], t[j])}

\* ListDomains: the serving blocks that serving block i collides with.
Colliding(i) == LET t == Tree IN {j \in Serving \ {i} : Conflicts(t[i], t[j])}

\* applyOverrides: what covers serving block i, under any of its names.
Covered(i) ==
    LET t == Tree IN {t[o].root : o \in {o \in DOMAIN t \ Serving : SharesName(t[i], t[o])}}

\* deriveStatus: a conflict before all else, since the operator has to act.
Status(i) ==
    IF Colliding(i) # {} THEN "conflict"
    ELSE IF "suspended" \in Covered(i) THEN "suspended"
    ELSE IF "maintenance" \in Covered(i) THEN "maintenance"
    ELSE "active"

\* cmdReplSurvey: a row for every block that has a name, and it is called by it.
Rows    == LET t == Tree IN {i \in Serving : Primary(t[i]) # NoDomain}
Name(i) == Primary(Tree[i])

\* inlineActionsFor, focusDomainActions: the overrides a row offers to write or to
\* take away; a redirect and a conflict offer nothing.
Offers(i) ==
    IF Tree[i].redirect THEN {}
    ELSE IF Status(i) = "active" THEN {[kind |-> k, on |-> TRUE] : k \in Kind}
    ELSE {[kind |-> k, on |-> FALSE] : k \in Kind \cap {Status(i)}}

\* cmdReplFocus: the page behind the row named n.
Focus(n) ==
    LET i == ReadDomain(n) IN
    IF i = 0 THEN [found |-> FALSE]
    ELSE [found |-> TRUE, names |-> ToSet(Tree[i].names), status |-> Status(i),
          with |-> Colliding(i), offers |-> Offers(i)]

\* toSourceBlock: the blocks of a file that can be lifted out of it.
Migratable(f) == IF f = Default THEN {b \in ToSet(available[f]) : Primary(b) # NoDomain} ELSE {}

\* ListSources.
Source(f) == [blocks |-> available[f], enabled |-> f \in enabled, migratable |-> Migratable(f)]

\* cmdSourceSurvey, cmdSourceFocus: a file with such a block offers to migrate all.
SourceOffers(f) == IF Source(f).migratable = {} THEN {} ELSE {NoDomain}

\* cmdBlockSurvey: below it, each such block offers to be migrated alone.
BlockOffers(f) == {Primary(b) : b \in Source(f).migratable}

\* nginxReload: the tree is tested before the running nginx is told.
Reload(tree, live) == running' = IF Valid(tree, live) THEN tree ELSE running

\* mutant: a failed reload goes unnoticed
ReloadOrPartial_quiet(tree) == Reload(tree, certs) /\ result' = "ok"

\* reloadOrPartial, and what the capability returns.
ReloadOrPartial(tree) ==
    /\ Reload(tree, certs)
    /\ result' = IF Valid(tree, certs) THEN "ok" ELSE "partial"

Refused(why) ==
    /\ result' = why
    /\ UNCHANGED <<disk, running>>

\* A capability runs while no other job of the module does.
Free == provision.step = "idle"

Called ==
    /\ Free
    /\ jobs < MaxJobs                                \* bound
    /\ jobs' = jobs + 1

outside == <<certs, broken, certbot, own>>

------------------------------------------------------------------------------
\* domain.add.

AddedFile(d, www) == << Block("added", IF www THEN <<d, Www(d)>> ELSE <<d>>, {80}) >>

Configured(d) == \E i \in DOMAIN Tree : ~IsOverride(Tree[i]) /\ Mentions(Tree[i], d)

\* cmdDomainAdd; the write or the link may fail.
DomainAdd(d, www) ==
    IF Configured(d) THEN Refused("refused")
    ELSE \/ Refused("failed")
         \/ /\ available' = [available EXCEPT ![d] = AddedFile(d, www)]
            /\ UNCHANGED overrides
            /\ \/ /\ enabled' = enabled \ {d}
                  /\ result' = "failed"
                  /\ UNCHANGED running
               \/ /\ enabled' = enabled \cup {d}
                  /\ ReloadOrPartial(TreeOf(available', enabled', overrides))

Add(d, www) ==
    /\ Called
    /\ DomainAdd(d, www)
    /\ UNCHANGED <<outside, provision>>

------------------------------------------------------------------------------
\* Overrides.

\* mutant: only the domain itself is overridden
OverrideOf_alone(kind, b) == OverrideBlocks(kind, <<Primary(b)>>, Primary(b), Primary(b) \in certs)

\* writeSuspensionConf, writeMaintenanceConf: of block b, under all of its names.
OverrideOf(kind, b) == OverrideBlocks(kind, b.names, Primary(b), Primary(b) \in certs)

Override(kind, files) ==
    /\ overrides' = [overrides EXCEPT ![kind] = files]
    /\ ReloadOrPartial(TreeOf(available, enabled, overrides'))
    /\ UNCHANGED <<available, enabled>>

\* cmdSuspend, cmdMaintenance on.
Enable(kind, n) ==
    /\ Called
    /\ LET i == ReadDomain(n) IN
       \/ i = 0 /\ Refused("refused")
       \/ i # 0 /\ Override(kind, [overrides[kind] EXCEPT ![Name(i)] = OverrideOf(kind, Tree[i])])
    /\ UNCHANGED <<outside, provision>>

\* cmdUnsuspend, cmdMaintenance off: the file is named by the argument.
Disable(kind, n) ==
    /\ Called
    /\ \/ ReadDomain(n) = 0 /\ Refused("refused")
       \/ ReadDomain(n) # 0 /\ Override(kind, [overrides[kind] EXCEPT ![n] = <<>>])
    /\ UNCHANGED <<outside, provision>>

\* applyMaintenanceAll: every row that is no redirect; of two of one name the
\* last is written last.
MaintenanceAll(on) ==
    /\ Called
    /\ LET rows     == {i \in Rows : ~Tree[i].redirect}
           named(n) == {i \in rows : Name(i) = n}
           files    == [n \in File |->
                           IF named(n) = {} THEN overrides["maintenance"][n]
                           ELSE IF on THEN OverrideOf("maintenance", Tree[Max(named(n))]) ELSE <<>>]
       IN  \/ rows = {} /\ Refused("nothing")
           \/ rows # {} /\ Override("maintenance", files)
    /\ UNCHANGED <<outside, provision>>

ReloadOnly ==
    /\ Called
    /\ ReloadOrPartial(Tree)
    /\ UNCHANGED <<disk, outside, provision>>

------------------------------------------------------------------------------
\* MigrateFromDefault.

Site(i) == available[Default][i]

\* The blocks of the default site that are to move, by their positions.
Targets(only) ==
    {i \in DOMAIN available[Default] :
        Primary(Site(i)) # NoDomain /\ only \in {NoDomain, Primary(Site(i))}}

\* The destinations are looked at before the first of them is written.
Movable(only) == {i \in Targets(only) : available[Primary(Site(i))] = <<>>}

\* The targets in live have been written, one after the other, and linked.
Moved(live) ==
    [f \in File |->
        LET here == {i \in live : Primary(Site(i)) = f}
        IN  IF here = {} THEN available[f] ELSE <<Site(Max(here))>>]

Linked(live) == enabled \cup {Primary(Site(i)) : i \in live}

\* The default site without them.
Kept(live) ==
    FlattenSeq([i \in DOMAIN available[Default] |-> IF i \in live THEN <<>> ELSE <<Site(i)>>])

\* A write fails, or a link after its write, or that of the rebuilt default does.
MigrateFails(only) ==
    /\ Called
    /\ \E m, n \in 0 .. Len(available[Default]) :
           LET linked  == {i \in Movable(only) : i <= m}
               written == {i \in Movable(only) : i <= n}
           IN  /\ linked \subseteq written
               /\ \A i, j \in written \ linked : i = j
               /\ available' = Moved(written)
               /\ enabled' = Linked(linked)
    /\ result' = "failed"
    /\ UNCHANGED <<overrides, running, outside, provision>>

\* mutant: the migrated files are not linked
Migrate_unlinked(only) ==
    /\ Called
    /\ LET live == Movable(only) IN
       /\ live # {}
       /\ available' = [Moved(live) EXCEPT ![Default] = Kept(live)]
       /\ ReloadOrPartial(TreeOf(available', enabled, overrides))
    /\ UNCHANGED <<enabled, overrides, outside, provision>>

\* cmdSourceMigrate: one block, or all of them (NoDomain).
Migrate(only) ==
    /\ Called
    /\ LET live == Movable(only) IN
       \/ Targets(only) = {} /\ Refused("refused")
       \/ Targets(only) # {} /\ live = {} /\ Refused("nothing")
       \/ /\ live # {}
          /\ available' = [Moved(live) EXCEPT ![Default] = Kept(live)]
          /\ enabled' = Linked(live)
          /\ ReloadOrPartial(TreeOf(available', enabled', overrides))
          /\ UNCHANGED overrides
    /\ UNCHANGED <<outside, provision>>

------------------------------------------------------------------------------
\* nginx.provision.

\* Step 1: domain.add; when it fails, provision returns there and then.
ProvisionAdd(d, www) ==
    /\ Called
    /\ DomainAdd(d, www)
    /\ provision' = [step |-> IF result' = "ok" THEN "cert" ELSE "idle", domain |-> d]
    /\ UNCHANGED outside

\* provisionRollback, and the error that is returned.
Rollback(d) ==
    /\ enabled' = enabled \ {d}
    /\ available' = [available EXCEPT ![d] = <<>>]
    /\ Reload(TreeOf(available', enabled', overrides), certs)
    /\ UNCHANGED overrides

\* Step 2: certbot.cert.provision is async: its acknowledgement is the answer.
ProvisionCert ==
    /\ provision.step = "cert"
    /\ \/ /\ certbot' = certbot \cup {provision.domain}
          /\ provision' = [provision EXCEPT !.step = "reload"]
          /\ UNCHANGED <<disk, running, result>>
       \/ /\ Rollback(provision.domain)
          /\ provision' = [provision EXCEPT !.step = "idle"]
          /\ result' = "rolledback"
          /\ UNCHANGED certbot
    /\ UNCHANGED <<certs, broken, jobs, own>>

\* Step 3: reload.
ProvisionReload ==
    /\ provision.step = "reload"
    /\ provision' = [provision EXCEPT !.step = "idle"]
    /\ \/ /\ Valid(Tree, certs)
          /\ Reload(Tree, certs)
          /\ result' = "provisioned"
          /\ UNCHANGED disk
       \/ /\ ~Valid(Tree, certs)
          /\ Rollback(provision.domain)
          /\ result' = "rolledback"
    /\ UNCHANGED <<outside, jobs>>

\* The module dies, or is stopped, half way.
ModuleDies ==
    /\ ~Free
    /\ provision' = [provision EXCEPT !.step = "idle"]
    /\ result' = "none"
    /\ UNCHANGED <<disk, certs, broken, running, certbot, jobs, own>>

------------------------------------------------------------------------------
\* Certbot and the operator.

Secured(b, d) == [b EXCEPT !.ports = @ \cup {443}, !.cert = d]

\* cmdCertProvision: certbot --nginx puts the certificate into the first site that
\* names the domain, or fails.
Certify(d) ==
    /\ d \in certbot
    /\ certbot' = certbot \ {d}
    /\ \/ UNCHANGED <<available, certs, running>>
       \/ \E f \in enabled :
              LET at == SelectInSeq(available[f], LAMBDA b : d \in ToSet(b.names)) IN
              /\ at # 0
              /\ available' = [available EXCEPT ![f][at] = Secured(@, d)]
              /\ certs' = certs \cup {d}
              /\ Reload(TreeOf(available', enabled, overrides), certs')
    /\ result' = "none"
    /\ UNCHANGED <<enabled, overrides, broken, provision, jobs, own>>

\* cmdCertRemove: the files that use the certificate stay as they are.
CertRemove(d) ==
    /\ Called /\ d \in certs
    /\ certs' = certs \ {d}
    /\ result' = "none"
    /\ UNCHANGED <<disk, broken, running, provision, certbot, own>>

\* The operator breaks another file, or mends it.
OperatorEdits ==
    /\ broken' = ~broken
    /\ result' = "none"
    /\ UNCHANGED <<disk, certs, running, provision, certbot, jobs, own>>

------------------------------------------------------------------------------
Ids(tree) == {tree[i].id : i \in DOMAIN tree} \ {"suctl", "added"}

NginxInit ==
    /\ \E d \in Disks : available = d.available /\ enabled = d.enabled /\ certs = d.certs
    /\ overrides = [k \in Kind |-> [f \in File |-> <<>>]]
    /\ broken = FALSE /\ running = Tree /\ own = Ids(Tree)
    /\ provision = [step |-> "idle", domain |-> NoDomain]
    /\ certbot = {} /\ result = "none" /\ jobs = 0

Operation ==
    \/ \E d \in Domain, www \in BOOLEAN : Add(d, www) \/ ProvisionAdd(d, www)
    \/ \E n \in File \ {Default}, k \in Kind : Enable(k, n) \/ Disable(k, n)
    \/ \E on \in BOOLEAN : MaintenanceAll(on)
    \/ \E n \in Domain \cup {NoDomain} : Migrate(n) \/ MigrateFails(n)
    \/ ReloadOnly \/ ProvisionCert \/ ProvisionReload

NginxNext ==
    \/ Operation \/ ModuleDies \/ OperatorEdits
    \/ \E d \in Domain : Certify(d) \/ CertRemove(d)

NginxSpec == NginxInit /\ [][NginxNext]_nginxVars

------------------------------------------------------------------------------
\* Every variable has its type.
NginxTypeOK ==
    /\ available \in [File -> Seq(Blocks(Id \cup {"added"}, {"site"}))]
    /\ overrides \in [Kind -> [File -> Seq(Blocks({"suctl"}, {"site"} \cup Kind))]]
    /\ enabled \subseteq File
    /\ certs \subseteq Domain /\ certbot \subseteq Domain
    /\ broken \in BOOLEAN /\ jobs \in 0 .. MaxJobs
    /\ provision \in [step : {"idle", "cert", "reload"}, domain : Domain \cup {NoDomain}]
    /\ result \in {"none", "ok", "partial", "refused", "failed", "nothing",
                   "rolledback", "provisioned"}

\* What the operator had configured, and was served, stays configured and enabled:
\* a migration moves it, and nothing else touches it.  And no link dangles, which
\* would make nginx refuse the whole configuration, and every reload with it.
StillLive ==
    /\ NginxTypeOK
    /\ own \subseteq Ids(Tree)
    /\ \A f \in enabled : f = Default \/ available[f] # <<>>

\* An operation that returned success has its change in the running nginx, not
\* only on the disk.
OkIsServed == result \in {"ok", "provisioned"} => running = Tree

\* The block that answers for name n on port p.
AnswersFor(tree, n, p) ==
    SelectInSeq(tree, LAMBDA b : n \in ToSet(b.names) /\ p \in b.ports)

\* A site with an override over any of its names is dark under all of them, on
\* the port every site has.
SiteDark ==
    \A i, j \in DOMAIN running :
        /\ IsOverride(running[i]) /\ running[j].id # "suctl"
        /\ SharesName(running[i], running[j])
        => \A n \in ToSet(running[j].names) : AnswersFor(running, n, 80) # j

\* A site shown as active is the one that answers for its names on its ports.
ActiveAnswers ==
    LET t == Tree IN
    running = t =>
        \A i \in Serving : Status(i) = "active" =>
            \A n \in ToSet(t[i].names), p \in t[i].ports : AnswersFor(t, n, p) = i

\* A row names the block it stands for: an action it offers finds a block in the
\* same state, under the same names, and its page offers the same; and a migration
\* that is offered finds something to migrate.
OfferFindsItsRow ==
    /\ \A i \in Rows : Offers(i) # {} =>
           LET page == Focus(Name(i)) IN
           /\ page.found /\ page.status = Status(i) /\ page.offers = Offers(i)
           /\ page.names = ToSet(Tree[i].names)
    /\ \A f \in File : \A only \in SourceOffers(f) \cup BlockOffers(f) : Targets(only) # {}

\* A row tells the truth: of what is served, and of what can be done about it.
RowsTellTheTruth == ActiveAnswers /\ OfferFindsItsRow

\* "we know it's success if err == nil": a domain that has been provisioned has
\* its certificate.  TLC refutes it (README, section 5).
Provisioned == result = "provisioned" => provision.domain \in certs

\* Blocks of suctl's own are folded onto the sites they cover: none is a row.
\* TLC refutes it (README, section 5).
Folded ==
    \A i \in Serving : \A k \in Kind, f \in File : Tree[i] \notin ToSet(overrides[k][f])
==============================================================================
