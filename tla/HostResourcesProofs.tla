------------------------ MODULE HostResourcesProofs ------------------------
(***************************************************************************)
(* Proofs about HostResources and MicroVMLaunch, for any number of calls:  *)
(* of two commands of a machine's package manager one always waits for the *)
(* other (generic_packagemanager.go); the commands of a docker manager     *)
(* come after what they refer to (docker/component.go); each volume of a   *)
(* micro-VM host is built once, and before the disks that are over it      *)
(* (libvirt.go, libvirt_fs.go).                                            *)
(***************************************************************************)
EXTENDS MicroVMLaunch, ResourceGraphProofs

IsMachine(m) ==
  m = [parent |-> m.parent, type |-> m.type, name |-> m.name, os |-> m.os,
       packages |-> m.packages, update |-> m.update, after |-> m.after]

(* What the manager remembers: every command that it has registered is one *)
(* of a package, or the update of the lists that one of these waits for.   *)
Remembered(G, m) ==
  /\ \A r \in PackageCommands(G, m.name) : r.urn \in m.packages \cup m.update
  /\ m.packages \cup m.update \subseteq Urns(G)
  /\ \A u \in m.update : \E p \in G : p.urn \in m.packages /\ u \in p.after

(* Of two commands of the package manager one waits for the other.         *)
Serialised(G, m) == Chain(G, PackageCommands(G, m.name))

(* The commands that wait for the machine are registered too.              *)
Managed(G, m) ==
  /\ SelfContained(G) /\ IsMachine(m) /\ m.after \subseteq Urns(G)
  /\ Remembered(G, m) /\ Serialised(G, m)

(* A command for a package, of the manager of machine m.                   *)
ForPackage(c, m) ==
  \E kind \in {"Package", "NoPackage"} : \E p : c.makes = {<<kind, m.name, p>>}

LEMMA OfPackage ==
  ASSUME NEW m, NEW c, ForPackage(c, m)
  PROVE  /\ PackageCommands({c}, m.name) = {c}
         /\ <<"PackageLists", m.name, Manager(m.os)>> \notin c.makes
<1> PICK kind \in {"Package", "NoPackage"} : \E p : c.makes = {<<kind, m.name, p>>}
  BY DEF ForPackage
<1>1. PICK p : c.makes = {<<kind, m.name, p>>}
  OBVIOUS
<1> DEFINE o == <<kind, m.name, p>>
           lists == <<"PackageLists", m.name, Manager(m.os)>>
<1>2. o \in c.makes /\ o[1] \in PackageKinds /\ o[2] = m.name
  BY <1>1 DEF PackageKinds
<1>3. o[1] # lists[1]
  OBVIOUS
<1> HIDE DEF o, lists
<1>4. c.makes = {o}
  BY <1>1 DEF o
<1>5. lists \notin c.makes
  BY <1>3, <1>4
<1>6. PackageCommands({c}, m.name) = {c}
  BY <1>2 DEF PackageCommands
<1> QED
  BY <1>5, <1>6 DEF lists

(* The update of the lists, of the manager of machine m.                   *)
ForLists(c, m) == c.makes = {<<"PackageLists", m.name, Manager(m.os)>>}

LEMMA OfLists ==
  ASSUME NEW m, NEW c, ForLists(c, m)
  PROVE  PackageCommands({c}, m.name) = {c}
<1> DEFINE o == <<"PackageLists", m.name, Manager(m.os)>>
<1>1. o[1] \in PackageKinds /\ o[2] = m.name
  BY DEF PackageKinds
<1> QED
  BY <1>1 DEF ForLists, PackageCommands

(* The machine after one command for a package.                            *)
LEMMA AfterPackage ==
  ASSUME NEW m, IsMachine(m), NEW c, ForPackage(c, m)
  PROVE  /\ IsMachine(After(m, {c})) /\ After(m, {c}).after = m.after
         /\ After(m, {c}).name = m.name
         /\ After(m, {c}).packages = m.packages \cup {c.urn}
         /\ After(m, {c}).update = m.update
<1>1. PackageCommands({c}, m.name) = {c}
  BY OfPackage
<1>2. {r \in {c} : <<"PackageLists", m.name, Manager(m.os)>> \in r.makes} = {}
  BY OfPackage
<1>3. After(m, {c}) = [m EXCEPT !.packages = @ \cup Urns({c} \ {}),
                                !.update = @ \cup Urns({})]
  BY <1>1, <1>2, Zenon DEF After
<1>4. Urns({c} \ {}) = {c.urn} /\ Urns({}) = {}
  BY DEF Urns
<1> QED
  BY <1>3, <1>4 DEF IsMachine

(* The machine after the update of the lists and a command for a package.  *)
LEMMA AfterBoth ==
  ASSUME NEW m, IsMachine(m), NEW c, ForPackage(c, m), NEW d, ForLists(d, m)
  PROVE  /\ IsMachine(After(m, {d, c})) /\ After(m, {d, c}).after = m.after
         /\ After(m, {d, c}).name = m.name
         /\ After(m, {d, c}).packages = m.packages \cup {c.urn}
         /\ After(m, {d, c}).update = m.update \cup {d.urn}
<1>1. PackageCommands({d, c}, m.name) = {d, c}
  <2>1. PackageCommands({d, c}, m.name) =
          PackageCommands({d}, m.name) \cup PackageCommands({c}, m.name)
    BY DEF PackageCommands
  <2>2. PackageCommands({c}, m.name) = {c}
    BY OfPackage, Zenon
  <2>3. PackageCommands({d}, m.name) = {d}
    BY OfLists, Zenon
  <2> QED
    BY <2>1, <2>2, <2>3
<1>2. {r \in {d, c} : <<"PackageLists", m.name, Manager(m.os)>> \in r.makes} = {d}
  BY OfPackage DEF ForLists
<1>3. After(m, {d, c}) = [m EXCEPT !.packages = @ \cup Urns({d, c} \ {d}),
                                   !.update = @ \cup Urns({d})]
  BY <1>1, <1>2, Zenon DEF After
<1>4. d # c
  BY OfPackage DEF ForLists
<1>5. Urns({d, c} \ {d}) = {c.urn} /\ Urns({d}) = {d.urn}
  BY <1>4 DEF Urns
<1> QED
  BY <1>3, <1>5 DEF IsMachine

(* All the commands that there are wait, directly or through one of those  *)
(* that it remembers, for what the manager has registered: one more that   *)
(* waits for the packages it remembers comes after all of them.            *)
LEMMA WaitsForAll ==
  ASSUME NEW G, NEW m, Managed(G, m), NEW c, c.after \subseteq Urns(G),
         m.packages \subseteq c.after
  PROVE  Chain(G \cup {c}, PackageCommands(G, m.name) \cup {c})
<1> DEFINE K == PackageCommands(G, m.name)
<1>1. K \in SUBSET G /\ SelfContained(G) /\ Chain(G, K)
  BY DEF PackageCommands, Managed, Serialised
<1>2. ASSUME NEW r \in K
      PROVE  r.urn \in c.after \/ \E p \in G : p.urn \in c.after /\ r.urn \in p.after
  BY DEF Managed, Remembered
<1> HIDE DEF K
<1>3. Chain(G \cup {c}, K \cup {c})
  BY <1>1, <1>2, LongerChain
<1> QED
  BY <1>3 DEF K

LEMMA PackageMore ==
  ASSUME NEW G, NEW m, Managed(G, m), NEW c, ForPackage(c, m),
         c.after \subseteq Urns(G), m.packages \subseteq c.after
  PROVE  Managed(G \cup {c}, After(m, {c}))
<1> DEFINE H == G \cup {c}
           n == After(m, {c})
<1>1. PackageCommands(H, m.name) = PackageCommands(G, m.name) \cup {c}
  <2>1. PackageCommands({c}, m.name) = {c}
    BY OfPackage, Zenon
  <2>2. PackageCommands(H, m.name) =
          PackageCommands(G, m.name) \cup PackageCommands({c}, m.name)
    BY DEF PackageCommands
  <2> QED
    BY <2>1, <2>2
<1>2. /\ IsMachine(n) /\ n.after = m.after /\ n.name = m.name
      /\ n.packages = m.packages \cup {c.urn} /\ n.update = m.update
  BY AfterPackage DEF Managed
<1>3. SelfContained(H) /\ Urns(H) = Urns(G) \cup {c.urn}
  BY OneMore DEF Managed
<1>4. Serialised(H, n)
  <2>1. Chain(H, PackageCommands(G, m.name) \cup {c})
    BY WaitsForAll
  <2> QED
    BY <1>1, <1>2, <2>1, Zenon DEF Serialised
<1> HIDE DEF n
<1>5. Remembered(H, n)
  BY <1>1, <1>2, <1>3 DEF Managed, Remembered
<1> QED
  BY <1>2, <1>3, <1>4, <1>5 DEF Managed, n

LEMMA ListsAndPackageMore ==
  ASSUME NEW G, NEW m, Managed(G, m), NEW d, ForLists(d, m),
         NEW c, ForPackage(c, m), m.update = {},
         d.after \subseteq Urns(G), m.packages \subseteq d.after,
         c.after \subseteq Urns(G) \cup {d.urn}, m.packages \cup {d.urn} \subseteq c.after
  PROVE  Managed(G \cup {d, c}, After(m, {d, c}))
<1> DEFINE F == G \cup {d}
           H == F \cup {c}
           K == PackageCommands(G, m.name)
           L == K \cup {d}
           n == After(m, {d, c})
<1>1. SelfContained(F) /\ Urns(F) = Urns(G) \cup {d.urn}
  BY OneMore DEF Managed
<1>2. SelfContained(H) /\ Urns(H) = Urns(F) \cup {c.urn}
  BY <1>1, OneMore
<1>3. Chain(F, L)
  BY WaitsForAll
<1>4. PackageCommands(H, m.name) = L \cup {c}
  <2>1. PackageCommands({d}, m.name) = {d}
    BY OfLists, Zenon
  <2>2. PackageCommands(F, m.name) = K \cup PackageCommands({d}, m.name)
    BY DEF PackageCommands
  <2>3. PackageCommands({c}, m.name) = {c}
    BY OfPackage, Zenon
  <2>4. PackageCommands(H, m.name) = PackageCommands(F, m.name) \cup PackageCommands({c}, m.name)
    BY DEF PackageCommands
  <2> QED
    BY <2>1, <2>2, <2>3, <2>4
<1>5. L \in SUBSET F
  BY DEF PackageCommands
<1>6. \A r \in L : r.urn \in c.after
  BY DEF Managed, Remembered
<1>7. Chain(H, L \cup {c})
  <2> HIDE DEF F, L
  <2> QED
    BY <1>1, <1>3, <1>5, <1>6, LongerChain
<1>8. /\ IsMachine(n) /\ n.after = m.after /\ n.name = m.name
      /\ n.packages = m.packages \cup {c.urn} /\ n.update = {d.urn}
  BY AfterBoth DEF Managed
<1> HIDE DEF n
<1>9. Serialised(H, n)
  BY <1>4, <1>7, <1>8 DEF Serialised
<1>10. Remembered(H, n)
  <2>1. \A r \in PackageCommands(H, n.name) : r.urn \in n.packages \cup n.update
    BY <1>4, <1>6, <1>8 DEF Managed, Remembered
  <2>2. n.packages \cup n.update \subseteq Urns(H)
    BY <1>1, <1>2, <1>8 DEF Managed, Remembered
  <2>3. \A u \in n.update : \E p \in H : p.urn \in n.packages /\ u \in p.after
    BY <1>8
  <2> QED
    BY <2>1, <2>2, <2>3 DEF Remembered
<1>11. H = G \cup {d, c}
  OBVIOUS
<1> HIDE DEF H
<1> QED
  BY <1>1, <1>2, <1>8, <1>9, <1>10, <1>11 DEF Managed, n

(* A machine that is there, before any package is asked for (InitHost).    *)
THEOREM NewMachineManaged ==
  ASSUME NEW G, SelfContained(G), NEW parent, NEW name, NEW os,
         MachineOf(parent, name, os).after \subseteq Urns(G),
         PackageCommands(G, name) = {}
  PROVE  Managed(G, MachineOf(parent, name, os))
<1> DEFINE m == MachineOf(parent, name, os)
<1>1. IsMachine(m) /\ m.packages = {} /\ m.update = {} /\ m.name = name
  BY DEF MachineOf, IsMachine
<1> HIDE DEF m
<1>2. Remembered(G, m) /\ Serialised(G, m)
  BY <1>1 DEF Remembered, Serialised, Chain
<1> QED
  BY <1>1, <1>2 DEF Managed, m

(* What is not a command of the package manager does not disturb it.       *)
THEOREM OthersKeepManaged ==
  ASSUME NEW G, NEW m, Managed(G, m), NEW H, G \subseteq H, SelfContained(H),
         PackageCommands(H, m.name) = PackageCommands(G, m.name)
  PROVE  Managed(H, m)
<1> DEFINE K == PackageCommands(G, m.name)
<1>1. ASSUME NEW r \in K, NEW q \in K, r # q PROVE Ordered(H, r, q)
  <2>1. Before(G, r) \subseteq Before(H, r) /\ Before(G, q) \subseteq Before(H, q)
    BY BeforeGrows DEF Managed
  <2> QED
    BY <1>1, <2>1 DEF Managed, Serialised, Chain, Ordered
<1>2. Urns(G) \subseteq Urns(H)
  BY DEF Urns
<1>3. Serialised(H, m)
  BY <1>1 DEF Serialised, Chain
<1>4. Remembered(H, m)
  BY <1>2 DEF Managed, Remembered
<1> QED
  BY <1>2, <1>3, <1>4 DEF Managed

(* A package more on a machine: with the update of the lists when it is    *)
(* the first one of a manager that has lists, of two commands of the       *)
(* package manager one still waits for the other (Ensure).                 *)
THEOREM EnsureKeepsManaged ==
  ASSUME NEW G, NEW m, Managed(G, m), NEW owner, NEW p,
         NEW after, after \subseteq Urns(G)
  PROVE  LET N == Ensure(m, owner, p, after) IN Managed(G \cup N, After(m, N))
<1> DEFINE db == UpdateDB(m, owner, after)
           M == Manager(m.os)
           c == Command(m, owner, M \o "-install-" \o PackageName(M, p),
                        after \cup m.packages \cup m.update \cup Urns(db),
                        {Package(m, p)}, {})
           d == Command(m, owner, M \o "-update", after \cup m.packages,
                        {<<"PackageLists", m.name, M>>}, {})
<1>1. Ensure(m, owner, p, after) = db \cup {c}
  BY Zenon DEF Ensure
<1>2. /\ c.after = (after \cup m.packages \cup m.update \cup Urns(db)) \cup m.after
      /\ c.makes = {Package(m, p)}
  BY DEF Command, Resource
<1>3. d.after = (after \cup m.packages) \cup m.after
      /\ d.makes = {<<"PackageLists", m.name, M>>}
  BY DEF Command, Resource
<1>4. (db = {d} /\ m.update = {}) \/ db = {}
  BY Zenon DEF UpdateDB
<1>5. ForLists(d, m)
  BY <1>3, Zenon DEF ForLists
<1> HIDE DEF c, d, db, M
<1>6. ForPackage(c, m)
  BY <1>2 DEF ForPackage, Package
<1>7. m.packages \cup m.update \subseteq Urns(G) /\ m.after \subseteq Urns(G)
  BY DEF Managed, Remembered
<1>8. CASE db = {d} /\ m.update = {}
  <2>1. Urns(db) = {d.urn}
    BY <1>8 DEF Urns
  <2>2. Managed(G \cup {d, c}, After(m, {d, c}))
    BY <1>2, <1>3, <1>5, <1>6, <1>7, <1>8, <2>1, ListsAndPackageMore
  <2>3. Ensure(m, owner, p, after) = {d, c}
    BY <1>1, <1>8
  <2> QED
    BY <2>2, <2>3
<1>9. CASE db = {}
  <2>1. Urns(db) = {}
    BY <1>9 DEF Urns
  <2>2. Managed(G \cup {c}, After(m, {c}))
    BY <1>2, <1>6, <1>7, <2>1, PackageMore
  <2>3. Ensure(m, owner, p, after) = {c}
    BY <1>1, <1>9
  <2> QED
    BY <2>2, <2>3
<1> QED
  BY <1>4, <1>8, <1>9

(* The same for a package that is removed (EnsureUninstalled), and for one *)
(* that zypper installs.                                                   *)
THEOREM OthersOfManager ==
  ASSUME NEW G, NEW m, Managed(G, m), NEW owner, NEW p,
         NEW after, after \subseteq Urns(G),
         NEW N \in {EnsureUninstalled(m, owner, p, after),
                    EnsureByZypper(m, owner, p, after)}
  PROVE  Managed(G \cup N, After(m, N))
<1>1. m.packages \subseteq Urns(G) /\ m.after \subseteq Urns(G)
  BY DEF Managed, Remembered
<1>2. ASSUME NEW c, N = {c}, c.after = (after \cup m.packages) \cup m.after, ForPackage(c, m)
      PROVE  Managed(G \cup N, After(m, N))
  <2>1. Managed(G \cup {c}, After(m, {c}))
    BY <1>1, <1>2, PackageMore
  <2> QED
    BY <1>2, <2>1
<1>3. CASE N = EnsureUninstalled(m, owner, p, after)
  <2> DEFINE c == Command(m, owner, Manager(m.os) \o "-uninstall-" \o p,
                          after \cup m.packages, {<<"NoPackage", m.name, p>>}, {})
  <2>1. N = {c}
    BY <1>3, Zenon DEF EnsureUninstalled
  <2>2. /\ c.after = (after \cup m.packages) \cup m.after
        /\ c.makes = {<<"NoPackage", m.name, p>>}
    BY DEF Command, Resource
  <2> HIDE DEF c
  <2>3. ForPackage(c, m)
    BY <2>2 DEF ForPackage
  <2> QED
    BY <1>2, <2>1, <2>2, <2>3
<1>4. CASE N = EnsureByZypper(m, owner, p, after)
  <2> DEFINE c == Command(m, owner, "zypper-install-" \o p, after \cup m.packages,
                          {Package(m, p)}, {})
  <2>1. N = {c}
    BY <1>4, Zenon DEF EnsureByZypper
  <2>2. /\ c.after = (after \cup m.packages) \cup m.after
        /\ c.makes = {Package(m, p)}
    BY DEF Command, Resource
  <2> HIDE DEF c
  <2>3. ForPackage(c, m)
    BY <2>2 DEF ForPackage, Package
  <2> QED
    BY <1>2, <2>1, <2>2, <2>3
<1> QED
  BY <1>3, <1>4

----------------------------------------------------------------------------
(* The volumes that the disks of micro-VMs are over (MicroVMLaunch).  The  *)
(* sets of a collection share images, and are gone through in an order     *)
(* that is another one in every run.                                       *)

(* The names in a configuration: an image has one path, and no other image *)
(* has it or the volume's name.                                            *)
ImagesNamed(c) ==
  /\ \E S : c.sets \in Seq(S)
  /\ \A i, j \in DOMAIN c.sets : \A x \in c.sets[i].images, y \in c.sets[j].images :
       x.path = y.path <=> Volume(c, x) = Volume(c, y)
  /\ \A i \in DOMAIN c.sets : \A x, y \in c.sets[i].images : x.path = y.path => x = y

(* The first set that has an image keeps it.                               *)
LEMMA KeptByFirst ==
  ASSUME NEW c, ImagesNamed(c), NEW i \in DOMAIN c.sets, NEW x \in c.sets[i].images
  PROVE  \E k \in DOMAIN c.sets : \E y \in Kept(c, k) : y.path = x.path
<1> DEFINE T == {k \in DOMAIN c.sets : \E y \in c.sets[k].images : y.path = x.path}
<1>1. PICK S : c.sets \in Seq(S)
  BY DEF ImagesNamed
<1>2. DOMAIN c.sets = 1 .. Len(c.sets) /\ Len(c.sets) \in Nat
  BY <1>1
<1>3. T \subseteq Nat /\ T # {}
  BY <1>2
<1>4. PICK k \in T : \A n \in T : ~(n < k)
  <2> HIDE DEF T
  <2>1. PICK k \in T : \A n \in T : <<n, k>> \notin OpToRel(<, Nat)
    BY <1>3, WFMin, NatLessThanWellFounded, Zenon
  <2> QED
    BY <1>3, <2>1, Zenon DEF OpToRel
<1>5. PICK y \in c.sets[k].images : y.path = x.path
  BY <1>4
<1>6. \A j \in 1 .. (k - 1) : \A other \in c.sets[j].images : other.path # y.path
  <2> SUFFICES ASSUME NEW j \in 1 .. (k - 1), NEW other \in c.sets[j].images, other.path = y.path
               PROVE  FALSE
    OBVIOUS
  <2>1. j \in DOMAIN c.sets /\ j < k
    BY <1>2, <1>4
  <2>2. j \in T
    BY <1>5, <2>1
  <2> QED
    BY <1>4, <2>1, <2>2
<1>7. y \in Kept(c, k)
  BY <1>5, <1>6 DEF Kept
<1> QED
  BY <1>4, <1>5, <1>7

(* No two sets keep it.                                                    *)
LEMMA KeptOnce ==
  ASSUME NEW c, ImagesNamed(c), NEW i \in DOMAIN c.sets, NEW j \in DOMAIN c.sets,
         NEW x \in Kept(c, i), NEW y \in Kept(c, j), x.path = y.path
  PROVE  i = j /\ x = y
<1>1. PICK S : c.sets \in Seq(S)
  BY DEF ImagesNamed
<1>2. DOMAIN c.sets = 1 .. Len(c.sets) /\ Len(c.sets) \in Nat
  BY <1>1
<1>3. x \in c.sets[i].images /\ y \in c.sets[j].images
  BY DEF Kept
<1>4. ~(i < j) /\ ~(j < i)
  <2>1. i < j => i \in 1 .. (j - 1)
    BY <1>2
  <2>2. j < i => j \in 1 .. (i - 1)
    BY <1>2
  <2> QED
    BY <1>3, <2>1, <2>2 DEF Kept
<1>5. i = j
  BY <1>2, <1>4
<1> QED
  BY <1>3, <1>5 DEF ImagesNamed

----------------------------------------------------------------------------
(* What the commands and resources of a collection make.                   *)

LEMMA CommandMakes ==
  ASSUME NEW m, NEW owner, NEW name, NEW after, NEW makes, NEW needs
  PROVE  /\ Command(m, owner, name, after, makes, needs).makes = makes
         /\ WithDelete(Command(m, owner, name, after, makes, needs)).makes = makes
         /\ WithDelete(Command(m, owner, name, after, makes, needs)).after = after \cup m.after
         /\ WithDelete(Command(m, owner, name, after, makes, needs)).urn
              = UrnOfCommand(m, owner, name)
BY DEF Command, WithDelete, Resource

LEMMA LibvirtMakes ==
  ASSUME NEW c, NEW type, NEW name, NEW after, NEW makes, NEW needs
  PROVE  /\ Libvirt(c, type, name, after, makes, needs).makes = makes
         /\ Libvirt(c, type, name, after, makes, needs).after = after \cup {LibvirtProvider(c)}
         /\ Libvirt(c, type, name, after, makes, needs).needs = needs
BY DEF Libvirt, Resource

NoVolume(G) == \A r \in G : \A o \in r.makes : o[1] # "Volume"

LEMMA PoolsMakeNoVolume ==
  ASSUME NEW c, NEW kind, NEW depends
  PROVE  NoVolume(SetupLibvirtPool(c, kind, depends))
<1>1. NoVolume(RemoteGlobalPool(c, depends))
  <2> DEFINE m == c.machine
             step(name, after, makes, needs) ==
               Command(m, m.type, "global-pool-" \o name, after, makes, needs)
             xml     == WithDelete(step("write-pool-xml", depends, {File(m, "pool.xml")}, {}))
             define  == step("define-libvirt-pool", depends \cup {xml.urn},
                             {<<"PoolDefinition", m.name, "global">>}, xml.makes)
             build   == WithDelete(step("build-libvirt-pool", {define.urn}, {File(m, "pool")},
                                        define.makes))
             start   == WithDelete(step("start-libvirt-pool", {build.urn},
                                        {<<"PoolStarted", m.name, "global">>},
                                        define.makes \cup build.makes))
             refresh == step("refresh-libvirt-pool", {start.urn}, {Pool(c, "global")}, start.makes)
  <2>1. RemoteGlobalPool(c, depends) = {xml, define, build, start, refresh}
    BY Zenon DEF RemoteGlobalPool
  <2>2. xml.makes = {File(m, "pool.xml")} /\ build.makes = {File(m, "pool")}
    BY CommandMakes
  <2>3. define.makes = {<<"PoolDefinition", m.name, "global">>}
    BY CommandMakes
  <2> HIDE DEF xml, define, build
  <2>4. start.makes = {<<"PoolStarted", m.name, "global">>}
    BY CommandMakes
  <2> HIDE DEF start
  <2>5. refresh.makes = {Pool(c, "global")}
    BY CommandMakes
  <2> HIDE DEF refresh
  <2> QED
    BY <2>1, <2>2, <2>3, <2>4, <2>5 DEF NoVolume, File, Pool
<1>2. NoVolume(LocalGlobalPool(c, depends))
  BY LibvirtMakes DEF NoVolume, LocalGlobalPool, Pool
<1>3. NoVolume(RAMBackedPool(c, depends))
  BY CommandMakes, LibvirtMakes DEF NoVolume, RAMBackedPool, Pool, File
<1> QED
  BY <1>1, <1>2, <1>3 DEF SetupLibvirtPool

LEMMA FilesMakeNoVolume ==
  ASSUME NEW c, NEW s, NEW kept
  PROVE  NoVolume(DownloadAndExtractRootfs(c, s, kept).all)
<1>1. \A image : NoVolume({RefreshFromBackingStore(c, s, image)})
  BY CommandMakes DEF NoVolume, RefreshFromBackingStore, VolumeCommand, File
<1>2. \A images : NoVolume(DownloadImages(c, s, images))
  BY CommandMakes DEF NoVolume, DownloadImages, File
<1>3. \A images, waited : NoVolume(Extractions(c, s, images, waited))
  <2>1. \A image, waited : ExtractImage(c, s, image, waited).makes = {File(c.machine, image.path)}
    BY CommandMakes DEF ExtractImage
  <2> QED
    BY <2>1 DEF NoVolume, Extractions, File
<1> QED
  BY <1>1, <1>2, <1>3, Zenon DEF NoVolume, DownloadAndExtractRootfs

(* One resource builds the volume of an image; the other writes its XML.   *)
LEMMA VolumeOf ==
  ASSUME NEW c, NEW s, NEW image, NEW depends
  PROVE  /\ \E r \in SetupLibvirtVMVolume(c, s, image, depends) : r.makes = {Volume(c, image)}
         /\ \A r \in SetupLibvirtVMVolume(c, s, image, depends) :
              \A o \in r.makes : o[1] = "Volume" => o = Volume(c, image)
         /\ \A r, q \in SetupLibvirtVMVolume(c, s, image, depends) :
              Volume(c, image) \in r.makes \cap q.makes => r = q
         /\ \A r \in SetupLibvirtVMVolume(c, s, image, depends) :
              Volume(c, image) \in r.makes => depends \subseteq r.after
<1>1. CASE Local(c)
  <2> DEFINE build == Libvirt(c, "Volume", image.name \o "-" \o s.id \o "-build-libvirt-basevolume",
                              depends, {Volume(c, image)}, VolumeNeeds(c, image))
  <2>1. SetupLibvirtVMVolume(c, s, image, depends) = {build}
    BY <1>1, Zenon DEF SetupLibvirtVMVolume, LocalLibvirtVolume
  <2>2. build.makes = {Volume(c, image)} /\ depends \subseteq build.after
    BY LibvirtMakes
  <2> HIDE DEF build
  <2> QED
    BY <2>1, <2>2
<1>2. CASE ~Local(c)
  <2> DEFINE text == File(c.machine, image.name \o "-" \o s.id \o ".xml")
             xml == WithDelete(VolumeCommand(c, s, image, "write-vol-xml", {}, {text}, {}))
             build == WithDelete(VolumeCommand(c, s, image, "build-libvirt-basevolume",
                        depends \cup {xml.urn}, {Volume(c, image)},
                        xml.makes \cup VolumeNeeds(c, image)))
  <2>1. SetupLibvirtVMVolume(c, s, image, depends) = {xml, build}
    BY <1>2, Zenon DEF SetupLibvirtVMVolume, RemoteLibvirtVolume
  <2>2. xml.makes = {text} /\ build.makes = {Volume(c, image)}
    BY CommandMakes DEF VolumeCommand
  <2>2a. depends \subseteq build.after
    BY CommandMakes DEF VolumeCommand
  <2>3. text[1] = "File" /\ Volume(c, image)[1] = "Volume"
    BY DEF File, Volume
  <2> HIDE DEF text, xml, build
  <2>4. text # Volume(c, image) /\ text[1] # "Volume"
    BY <2>3
  <2> QED
    BY <2>1, <2>2, <2>2a, <2>4
<1> QED
  BY <1>1, <1>2

(* What the volumes of a set wait for.                                     *)
FilesOf(c, i, depends) ==
  PoolsReady(c, Len(c.pools), depends)
    \cup DownloadAndExtractRootfs(c, c.sets[i], Kept(c, i)).done

VolumesOf(c, i, image, depends) ==
  SetupLibvirtVMVolume(c, c.sets[i], image, FilesOf(c, i, depends))

LEMMA FilesystemOf ==
  ASSUME NEW c, NEW depends
  PROVE  SetupCollectionFilesystems(c, depends)
           = CollectionPools(c, depends)
             \cup UNION {DownloadAndExtractRootfs(c, c.sets[i], Kept(c, i)).all
                         \cup UNION {VolumesOf(c, i, image, depends) : image \in Kept(c, i)} :
                         i \in DOMAIN c.sets}
BY Zenon DEF SetupCollectionFilesystems, SetupLibvirtFilesystem, VolumesOf, FilesOf

(* Where a volume comes from: an image, and a set that keeps it.           *)
LEMMA VolumeFrom ==
  ASSUME NEW c, NEW depends, NEW r \in SetupCollectionFilesystems(c, depends),
         NEW o \in r.makes, o[1] = "Volume"
  PROVE  \E i \in DOMAIN c.sets : \E image \in Kept(c, i) :
           r \in VolumesOf(c, i, image, depends) /\ o = Volume(c, image)
<1>1. NoVolume(CollectionPools(c, depends))
  <2>1. \A i : NoVolume(SetupLibvirtPool(c, c.pools[i], PoolsReady(c, i - 1, depends)))
    BY PoolsMakeNoVolume
  <2> QED
    BY <2>1 DEF CollectionPools, NoVolume
<1>2. \A i : NoVolume(DownloadAndExtractRootfs(c, c.sets[i], Kept(c, i)).all)
  BY FilesMakeNoVolume, Zenon
<1>3. PICK i \in DOMAIN c.sets :
        r \in DownloadAndExtractRootfs(c, c.sets[i], Kept(c, i)).all
              \cup UNION {VolumesOf(c, i, image, depends) : image \in Kept(c, i)}
  BY <1>1, FilesystemOf, Zenon DEF NoVolume
<1>4. PICK image \in Kept(c, i) : r \in VolumesOf(c, i, image, depends)
  BY <1>2, <1>3, Zenon DEF NoVolume
<1>5. o = Volume(c, image)
  BY <1>4, VolumeOf, Zenon DEF VolumesOf
<1> QED
  BY <1>4, <1>5, Zenon

(* However many sets of VMs share images and in whatever order they are    *)
(* gone through, no volume is built twice on a host: libvirt would refuse  *)
(* it.  This is BuiltOnce of the volumes, for any configuration.           *)
THEOREM VolumesBuiltOnce ==
  ASSUME NEW c, ImagesNamed(c), NEW depends,
         NEW r \in SetupCollectionFilesystems(c, depends),
         NEW q \in SetupCollectionFilesystems(c, depends),
         NEW o \in r.makes \cap q.makes, o[1] = "Volume"
  PROVE  r = q
<1>0. o \in r.makes /\ o \in q.makes
  OBVIOUS
<1>1. PICK i \in DOMAIN c.sets : \E x \in Kept(c, i) :
        r \in VolumesOf(c, i, x, depends) /\ o = Volume(c, x)
  BY <1>0, VolumeFrom
<1>1a. PICK x \in Kept(c, i) :
        r \in VolumesOf(c, i, x, depends) /\ o = Volume(c, x)
  BY <1>1, Zenon
<1>2. PICK j \in DOMAIN c.sets : \E y \in Kept(c, j) :
        q \in VolumesOf(c, j, y, depends) /\ o = Volume(c, y)
  BY <1>0, VolumeFrom
<1>2a. PICK y \in Kept(c, j) :
        q \in VolumesOf(c, j, y, depends) /\ o = Volume(c, y)
  BY <1>2, Zenon
<1>3. x \in c.sets[i].images /\ y \in c.sets[j].images
  BY DEF Kept
<1>4. x.path = y.path
  <2>1. x.path = y.path <=> Volume(c, x) = Volume(c, y)
    <3>1. \A m, n \in DOMAIN c.sets : \A v \in c.sets[m].images, w \in c.sets[n].images :
            v.path = w.path <=> Volume(c, v) = Volume(c, w)
      BY DEF ImagesNamed
    <3> QED
      BY <1>3, <3>1
  <2> QED
    BY <1>1a, <1>2a, <2>1
<1>5. i = j /\ x = y
  BY <1>4, KeptOnce, Zenon
<1>6. r \in VolumesOf(c, i, x, depends) /\ q \in VolumesOf(c, i, x, depends)
  BY <1>1a, <1>2a, <1>5, Zenon
<1>7. Volume(c, x) \in r.makes \cap q.makes
  BY <1>1a, Zenon
<1> QED
  BY <1>6, <1>7, VolumeOf, Zenon DEF VolumesOf

(* Every disk waits for what builds the volume that it is over, even when  *)
(* another set has the image: pruning the images of a set (libvirt.go:118) *)
(* takes none away from a machine.                                         *)
THEOREM DisksHaveVolumes ==
  ASSUME NEW c, ImagesNamed(c), NEW depends, NEW soFar,
         NEW i \in DOMAIN c.sets, NEW vm \in c.sets[i].vms, vm.images \subseteq c.sets[i].images,
         NEW image \in vm.images
  PROVE  LET b == BuildVMCollection(c, depends, soFar)
         IN \E disk \in b.all, volume \in b.all :
              /\ disk.urn = Overlay(c, c.sets[i], vm, image)
              /\ Volume(c, image) \in disk.needs
              /\ Volume(c, image) \in volume.makes
              /\ volume.urn \in disk.after
<1> DEFINE b     == BuildVMCollection(c, depends, soFar)
           files == SetupCollectionFilesystems(c, depends)
           waits == soFar \cup FilesystemsDone(c, files)
           s     == c.sets[i]
           disk  == Libvirt(c, "Volume", Overlay(c, s, vm, image)[3], waits, {},
                            {Pool(c, image.pool), Volume(c, image)})
<1>1. disk \in SetupDomainVolumes(c, s, waits)
  <2>1. disk \in {Libvirt(c, "Volume", Overlay(c, s, vm, x)[3], waits, {},
                       {Pool(c, x.pool), Volume(c, x)}) : x \in vm.images}
    OBVIOUS
  <2> HIDE DEF disk
  <2> QED
    BY <2>1 DEF SetupDomainVolumes
<1>2. s \in Elements(c.sets)
  BY Zenon DEF Elements
<1>3. files \subseteq b.all /\ SetupCollectionDomainConfigurations(c, waits) \subseteq b.all
  BY DEF BuildVMCollection
<1>4. disk \in b.all
  <2>1. SetupDomainVolumes(c, s, waits) \subseteq SetupCollectionDomainConfigurations(c, waits)
    BY <1>2 DEF SetupCollectionDomainConfigurations
  <2> HIDE DEF b, disk, waits
  <2> QED
    BY <1>1, <1>3, <2>1
<1>5. PICK k \in DOMAIN c.sets : \E y \in Kept(c, k) : y.path = image.path
  BY KeptByFirst, Zenon
<1>5a. PICK y \in Kept(c, k) : y.path = image.path
  BY <1>5, Zenon
<1>6. Volume(c, y) = Volume(c, image)
  BY <1>5a DEF ImagesNamed, Kept
<1>7. PICK volume \in VolumesOf(c, k, y, depends) : volume.makes = {Volume(c, y)}
  <2>1. \E r \in SetupLibvirtVMVolume(c, c.sets[k], y, FilesOf(c, k, depends)) :
          r.makes = {Volume(c, y)}
    <3>1. \A s1, x, after : \E r \in SetupLibvirtVMVolume(c, s1, x, after) : r.makes = {Volume(c, x)}
      BY VolumeOf
    <3> QED
      BY <3>1, Zenon
  <2> QED
    BY <2>1 DEF VolumesOf
<1>8. volume \in files
  <2>1. VolumesOf(c, k, y, depends) \subseteq UNION {VolumesOf(c, k, x, depends) : x \in Kept(c, k)}
    OBVIOUS
  <2>2. VolumesOf(c, k, y, depends) \subseteq files
    BY <2>1, FilesystemOf
  <2> QED
    BY <1>7, <2>2
<1>9. volume.urn \in FilesystemsDone(c, files)
  <2>1. Volume(c, y) \in volume.makes /\ Volume(c, y)[1] = "Volume"
          /\ Volume(c, y)[2] = c.machine.name
    BY <1>7 DEF Volume
  <2> HIDE DEF files
  <2> QED
    BY <1>8, <2>1 DEF FilesystemsDone
<1>10. disk.after = waits \cup {LibvirtProvider(c)}
         /\ disk.needs = {Pool(c, image.pool), Volume(c, image)}
  BY LibvirtMakes
<1>11. disk.urn = Overlay(c, s, vm, image)
  BY DEF Libvirt, Resource, Overlay
<1> QED
  <2> HIDE DEF b, files, disk
  <2>1. disk \in b.all /\ volume \in b.all
    BY <1>3, <1>4, <1>8
  <2>2. volume.urn \in disk.after /\ Volume(c, image) \in disk.needs
    BY <1>9, <1>10
  <2>3. Volume(c, image) \in volume.makes
    BY <1>6, <1>7
  <2> QED
    BY <1>11, <2>1, <2>2, <2>3, Zenon DEF b

(* The volume of an image that is compressed waits for what extracts it    *)
(* from the archive: libvirt_fs.go:279 returns the extractions alone.      *)
(* MCStack lists the images that are not compressed as known to fail.      *)
THEOREM ImagesExtracted ==
  ASSUME NEW c, NEW depends, NEW i \in DOMAIN c.sets, NEW image \in Kept(c, i),
         image.pool = "global", image.compressed,
         NEW volume \in VolumesOf(c, i, image, depends), Volume(c, image) \in volume.makes
  PROVE  \E extract \in SetupCollectionFilesystems(c, depends) :
           /\ File(c.machine, image.path) \in extract.makes
           /\ extract.urn \in volume.after
<1> DEFINE s         == c.sets[i]
           files     == DownloadAndExtractRootfs(c, s, Kept(c, i))
           images    == {x \in Kept(c, i) : x.pool = "global"}
           refreshed == {RefreshFromBackingStore(c, s, x) : x \in {x \in images : ~x.http}}
           last      == IF refreshed = {} THEN {} ELSE {(CHOOSE r \in refreshed : TRUE).urn}
           download  == DownloadImages(c, s, {x \in images : x.http})
           fetched   == {r.urn : r \in {r \in download : \E x \in images :
                                   File(c.machine, DownloadPath(x)) \in r.makes}}
           extracted == Extractions(c, s, images, last \cup fetched)
           extract   == ExtractImage(c, s, image, last \cup fetched)
<1>1. extracted \subseteq files.all /\ files.done = Urns(extracted)
  BY DEF DownloadAndExtractRootfs
<1> HIDE DEF files, refreshed, last, download, fetched
<1>2. extract \in extracted
  BY DEF Extractions
<1>3. extract.makes = {File(c.machine, image.path)}
  BY CommandMakes DEF ExtractImage
<1> HIDE DEF images, extracted, extract
<1>4. extract.urn \in files.done /\ extract \in files.all
  BY <1>1, <1>2 DEF Urns
<1>5. extract.urn \in FilesOf(c, i, depends) /\ extract \in SetupCollectionFilesystems(c, depends)
  BY <1>4, FilesystemOf DEF FilesOf, files
<1>6. FilesOf(c, i, depends) \subseteq volume.after
  <2>1. \A s1, x, after : \A r \in SetupLibvirtVMVolume(c, s1, x, after) :
          Volume(c, x) \in r.makes => after \subseteq r.after
    BY VolumeOf
  <2> QED
    BY <2>1, Zenon DEF VolumesOf
<1> QED
  BY <1>3, <1>5, <1>6

----------------------------------------------------------------------------
(* The docker manager.                                                     *)

LEMMA Direct ==
  ASSUME NEW G, SelfContained(G), NEW r, NEW q \in G, q.urn \in r.after
  PROVE  q.urn \in Before(G, r)
BY BeforeLeast DEF Urns

LEMMA Through ==
  ASSUME NEW G, SelfContained(G), NEW r, NEW p \in G, p.urn \in Before(G, r)
  PROVE  p.after \subseteq Before(G, r)
BY BeforeLeast DEF Closed

(* All that r needs is made by what it waits for, directly or not.         *)
Found(G, r) == \A o \in r.needs : \E q \in G : o \in q.makes /\ q.urn \in Before(G, r)

LEMMA CommandOf ==
  ASSUME NEW m, NEW owner, NEW name, NEW after, NEW makes, NEW needs
  PROVE  LET r == Command(m, owner, name, after, makes, needs)
         IN /\ r.urn = UrnOfCommand(m, owner, name)
            /\ r.after = after \cup m.after /\ r.makes = makes /\ r.needs = needs
            /\ WithDelete(r).urn = r.urn /\ WithDelete(r).after = r.after
            /\ WithDelete(r).makes = r.makes /\ WithDelete(r).needs = r.needs
BY DEF Command, WithDelete, Resource

(* What installs a package, and waits for nothing that is looked up.       *)
LEMMA EnsureMakes ==
  ASSUME NEW m, NEW owner, NEW p, NEW after
  PROVE  /\ \E r \in Ensure(m, owner, p, after) : r.makes = {Package(m, p)}
         /\ \A r \in Ensure(m, owner, p, after) : r.needs = {}
<1> DEFINE db == UpdateDB(m, owner, after)
           install == Command(m, owner, Manager(m.os) \o "-install-" \o PackageName(Manager(m.os), p),
                        after \cup m.packages \cup m.update \cup Urns(db), {Package(m, p)}, {})
<1>1. Ensure(m, owner, p, after) = db \cup {install}
  BY Zenon DEF Ensure
<1>2. install.makes = {Package(m, p)} /\ install.needs = {}
  BY CommandOf
<1>3. \A r \in db : r.needs = {}
  BY CommandOf DEF UpdateDB
<1> HIDE DEF db, install
<1> QED
  BY <1>1, <1>2, <1>3

(* What a docker manager and its machine bring: docker, running with its   *)
(* configuration, before the user is added to the group; docker-compose.   *)
LEMMA ManagerReady ==
  ASSUME NEW G, SelfContained(G), NEW m, NEW parent, NEW opts, NewManager(m, parent, opts) \subseteq G
  PROVE  /\ \A r \in NewManager(m, parent, opts) : Found(G, r)
         /\ \E q \in G : /\ q.urn = UrnOfCommand(m, Child(parent, "dd:Manager"), "docker-group")
                         /\ \E s \in G : Service_(m, "docker") \in s.makes /\ s.urn \in Before(G, q)
         /\ \E q \in G : /\ q.urn = UrnOfCommand(m, Child(parent, "dd:Manager"), "docker-install-compose")
                         /\ Compose(m) \in q.makes
<1> DEFINE comp   == Resource(DockerComponent(parent, m), opts, {}, {})
           owner  == Child(parent, "dd:Manager")
           all    == opts \cup {comp.urn}
           docker == Ensure(m, owner, "docker", all)
           json   == File(m, "/etc/docker/daemon.json")
           patch  == Command(m, owner, "docker-daemon-patch", all \cup Urns(docker), {json}, {})
           restart == Restart(m, owner, "docker", all \cup {patch.urn}, {Package(m, "docker"), json})
           whoami == Command(m, owner, "docker-whoami", all \cup {restart.urn}, {}, {})
           group  == Command(m, owner, "docker-group", all \cup {whoami.urn},
                             {<<"Group", m.name, "docker">>}, {Package(m, "docker")})
           compose == ComposeInstall(m, owner, all \cup {UrnOfCommand(m, owner, "docker-group")})
<1>1. NewManager(m, parent, opts) = {comp} \cup docker \cup {patch, restart, whoami, group} \cup {compose}
  BY DEF NewManager, DockerInstall
<1>2. /\ \A r \in docker : r.needs = {}
      /\ \E r \in docker : r.makes = {Package(m, "docker")}
  BY EnsureMakes
<1>3. comp.needs = {}
  BY DEF Resource
<1> HIDE DEF docker, comp
<1>4. patch.needs = {} /\ patch.makes = {json} /\ Urns(docker) \subseteq patch.after
  BY CommandOf
<1> HIDE DEF patch
<1>5. /\ restart.needs = {Package(m, "docker"), json}
      /\ restart.makes = {Service_(m, "docker")} /\ patch.urn \in restart.after
  BY CommandOf DEF Restart
<1> HIDE DEF restart
<1>6. whoami.needs = {} /\ restart.urn \in whoami.after
  BY CommandOf
<1> HIDE DEF whoami
<1>7. /\ group.needs = {Package(m, "docker")} /\ whoami.urn \in group.after
      /\ group.urn = UrnOfCommand(m, owner, "docker-group")
  BY CommandOf
<1>8. /\ compose.needs = {} /\ compose.makes = {Compose(m)}
      /\ compose.urn = UrnOfCommand(m, owner, "docker-install-compose")
  BY CommandOf DEF ComposeInstall
<1> HIDE DEF json, group, compose, all
<1>9. {comp, patch, restart, whoami, group, compose} \cup docker \subseteq G
  BY <1>1
<1>10. PICK package \in docker : package.makes = {Package(m, "docker")}
  BY <1>2
<1>11. package \in G /\ package.urn \in patch.after
  BY <1>4, <1>9, <1>10 DEF Urns
<1>12. patch.urn \in Before(G, restart) /\ restart.urn \in Before(G, whoami)
         /\ whoami.urn \in Before(G, group)
  BY <1>5, <1>6, <1>7, <1>9, Direct
<1>13. package.urn \in Before(G, restart)
  BY <1>9, <1>11, <1>12, Through
<1>14. restart.urn \in Before(G, group)
  BY <1>6, <1>9, <1>12, Through
<1>15. package.urn \in Before(G, group)
  <2>1. patch.urn \in Before(G, group)
    BY <1>5, <1>9, <1>14, Through
  <2> QED
    BY <1>9, <1>11, <2>1, Through
<1>16. Found(G, restart)
  BY <1>4, <1>5, <1>9, <1>10, <1>11, <1>12, <1>13 DEF Found
<1>17. Found(G, group)
  BY <1>7, <1>10, <1>11, <1>15 DEF Found
<1>18. \A r \in NewManager(m, parent, opts) : Found(G, r)
  BY <1>1, <1>2, <1>3, <1>4, <1>6, <1>8, <1>16, <1>17 DEF Found
<1>19. Service_(m, "docker") \in restart.makes /\ Compose(m) \in compose.makes
  BY <1>5, <1>8
<1> QED
  BY <1>7, <1>8, <1>9, <1>14, <1>18, <1>19

(* What a command of the manager needs, once it waits for all that the     *)
(* manager is given with: docker runs, and docker-compose is there.        *)
LEMMA RunsOn ==
  ASSUME NEW G, SelfContained(G), NEW m, NEW parent, NEW opts, NewManager(m, parent, opts) \subseteq G,
         NEW r, Installed(m, parent, opts) \subseteq r.after, NEW o \in Running(m)
  PROVE  \E q \in G : o \in q.makes /\ q.urn \in Before(G, r)
<1> DEFINE owner == Child(parent, "dd:Manager")
<1>1. PICK q \in G : /\ q.urn = UrnOfCommand(m, owner, "docker-group")
                     /\ \E s \in G : Service_(m, "docker") \in s.makes /\ s.urn \in Before(G, q)
  BY ManagerReady, Zenon
<1>2. PICK s \in G : Service_(m, "docker") \in s.makes /\ s.urn \in Before(G, q)
  BY <1>1
<1>3. PICK compose \in G : /\ compose.urn = UrnOfCommand(m, owner, "docker-install-compose")
                           /\ Compose(m) \in compose.makes
  BY ManagerReady, Zenon
<1>4. q.urn \in r.after /\ compose.urn \in r.after
  BY <1>1, <1>3 DEF Installed
<1>5. q.urn \in Before(G, r) /\ compose.urn \in Before(G, r)
  BY <1>4, Direct
<1>6. s.urn \in Before(G, r)
  BY <1>2, <1>5, BeforeTransitive
<1> QED
  BY <1>2, <1>3, <1>5, <1>6 DEF Running

LEMMA DirectoryOf ==
  ASSUME NEW m, NEW owner, NEW name, NEW after, NEW path
  PROVE  LET r == CreateDirectory(m, owner, name, after, path)
         IN r.after = after \cup m.after /\ r.makes = {File(m, path)} /\ r.needs = {}
BY CommandOf DEF CreateDirectory

LEMMA CopyOf ==
  ASSUME NEW m, NEW owner, NEW path, NEW after, NEW needs
  PROVE  LET r == [CopyInlineFile(m, owner, path, after) EXCEPT !.needs = needs]
         IN r.after = after \cup m.after /\ r.makes = {File(m, path)} /\ r.needs = needs
BY DEF CopyInlineFile, WithDelete, Command, Resource

(* The docker manager finds what it needs: whatever options it is created  *)
(* with, and whatever manifests are brought up, in every order of the      *)
(* steps each of its commands comes after docker-compose, the service, the *)
(* files and their directory (component.go).  This is InPlace for it.      *)
THEOREM ManifestsInPlace ==
  ASSUME NEW G, SelfContained(G), NEW m, NEW parent, NEW opts, NewManager(m, parent, opts) \subseteq G,
         NEW name, NEW manifests, NEW makes, NEW owner, NEW after,
         ComposeStrUp(Docker(m, parent, opts), name, manifests, makes, owner, after) \subseteq G,
         NEW r \in NewManager(m, parent, opts) \cup
                   ComposeStrUp(Docker(m, parent, opts), name, manifests, makes, owner, after)
  PROVE  Found(G, r)
<1> DEFINE d       == Docker(m, parent, opts)
           dir     == CreateDirectory(m, owner, name \o "-compose-tmp", d.opts \cup after,
                                      "~/" \o name \o "-compose-tmp")
           file(f) == [CopyInlineFile(m, d.owner, name \o "-compose-tmp/" \o f.name,
                                      d.opts \cup f.after \cup {dir.urn})
                       EXCEPT !.needs = dir.makes]
           files   == {file(f) : f \in manifests}
           up      == Command(m, d.owner, "docker-compose-run-" \o name, d.opts \cup Urns(files), makes,
                              Running(m) \cup Makes(files))
           run     == WithDelete(up)
<1>1. d.machine = m /\ d.opts = Installed(m, parent, opts)
  BY DEF Docker
<1>2. ComposeStrUp(d, name, manifests, makes, owner, after) = {dir} \cup files \cup {run}
  BY <1>1, Zenon DEF ComposeStrUp
<1> HIDE DEF d
<1>3. dir.needs = {}
  BY DirectoryOf
<1> HIDE DEF dir
<1>4. \A f \in manifests : file(f).needs = dir.makes /\ dir.urn \in file(f).after
  <2> TAKE f \in manifests
  <2>1. file(f).needs = dir.makes
    BY CopyOf
  <2>2. file(f).after = (d.opts \cup f.after \cup {dir.urn}) \cup m.after
    BY CopyOf
  <2> QED
    BY <2>1, <2>2
<1> HIDE DEF file
<1>5. \A c \in files : c.needs = dir.makes /\ dir.urn \in c.after
  BY <1>4
<1> HIDE DEF files
<1>6. run.needs = Running(m) \cup Makes(files) /\ d.opts \cup Urns(files) \subseteq run.after
  <2>1. up.needs = Running(m) \cup Makes(files) /\ up.after = (d.opts \cup Urns(files)) \cup m.after
    BY CommandOf
  <2>2. run.needs = up.needs /\ run.after = up.after
    BY CommandOf
  <2> QED
    BY <2>1, <2>2
<1> HIDE DEF run
<1>7. {dir, run} \cup files \subseteq G
  BY <1>2 DEF d
<1>8. CASE r \in NewManager(m, parent, opts)
  BY <1>8, ManagerReady
<1>9. CASE r = dir
  BY <1>3, <1>9 DEF Found
<1>10. CASE r \in files
  <2>1. dir \in G /\ dir.urn \in Before(G, r)
    BY <1>5, <1>7, <1>10, Direct
  <2> QED
    BY <1>5, <1>10, <2>1 DEF Found
<1>11. CASE r = run
  <2>1. \A o \in Running(m) : \E q \in G : o \in q.makes /\ q.urn \in Before(G, r)
    BY <1>1, <1>6, <1>11, RunsOn
  <2>2. \A q \in files : q \in G /\ q.urn \in Before(G, r)
    BY <1>6, <1>7, <1>11, Direct DEF Urns
  <2>3. \A o \in Makes(files) : \E q \in G : o \in q.makes /\ q.urn \in Before(G, r)
    BY <2>2 DEF Makes
  <2> QED
    BY <1>6, <1>11, <2>1, <2>3 DEF Found
<1> QED
  BY <1>2, <1>8, <1>9, <1>10, <1>11 DEF d

(* The same for a file that is copied to a directory of its own, whatever  *)
(* the caller waits for.                                                   *)
THEOREM ComposeFileInPlace ==
  ASSUME NEW G, SelfContained(G), NEW m, NEW parent, NEW opts, NewManager(m, parent, opts) \subseteq G,
         NEW path, NEW makes, NEW after,
         ComposeFileUp(Docker(m, parent, opts), path, makes, after) \subseteq G,
         NEW r \in ComposeFileUp(Docker(m, parent, opts), path, makes, after)
  PROVE  Found(G, r)
<1> DEFINE d    == Docker(m, parent, opts)
           all  == d.opts \cup after
           dir  == CreateDirectory(m, d.owner, "temp-" \o path, all, "/tmp/" \o path)
           copy == [CopyInlineFile(m, d.owner, "/tmp/" \o path \o "/" \o path, all \cup {dir.urn})
                      EXCEPT !.needs = dir.makes]
           up   == Command(m, d.owner, "docker-run-" \o path, all \cup {copy.urn}, makes,
                           Running(m) \cup copy.makes)
           run  == WithDelete(up)
<1>1. d.machine = m /\ d.opts = Installed(m, parent, opts)
  BY DEF Docker
<1>2. ComposeFileUp(d, path, makes, after) = {dir, copy, run}
  BY <1>1, Zenon DEF ComposeFileUp
<1> HIDE DEF d
<1>3. dir.needs = {}
  BY DirectoryOf
<1> HIDE DEF dir
<1>4. copy.needs = dir.makes /\ dir.urn \in copy.after
  <2>1. copy.needs = dir.makes
    BY CopyOf
  <2>2. copy.after = (all \cup {dir.urn}) \cup m.after
    BY CopyOf
  <2> QED
    BY <2>1, <2>2
<1> HIDE DEF copy
<1>5. run.needs = Running(m) \cup copy.makes /\ d.opts \cup {copy.urn} \subseteq run.after
  <2>1. up.needs = Running(m) \cup copy.makes /\ up.after = (all \cup {copy.urn}) \cup m.after
    BY CommandOf
  <2>2. run.needs = up.needs /\ run.after = up.after
    BY CommandOf
  <2> QED
    BY <2>1, <2>2
<1> HIDE DEF run
<1>6. {dir, copy, run} \subseteq G
  BY <1>2 DEF d
<1>7. CASE r = dir
  BY <1>3, <1>7 DEF Found
<1>8. CASE r = copy
  <2>1. dir \in G /\ dir.urn \in Before(G, r)
    BY <1>4, <1>6, <1>8, Direct
  <2> QED
    BY <1>4, <1>8, <2>1 DEF Found
<1>9. CASE r = run
  <2>1. \A o \in Running(m) : \E q \in G : o \in q.makes /\ q.urn \in Before(G, r)
    BY <1>1, <1>5, <1>9, RunsOn
  <2>2. copy \in G /\ copy.urn \in Before(G, r)
    BY <1>5, <1>6, <1>9, Direct
  <2> QED
    BY <1>5, <1>9, <2>1, <2>2 DEF Found
<1> QED
  BY <1>2, <1>7, <1>8, <1>9 DEF d
=============================================================================
