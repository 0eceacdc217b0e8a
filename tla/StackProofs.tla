---------------------------- MODULE StackProofs ----------------------------
(***************************************************************************)
(* Proofs about module Stack, for any set of configurations and any        *)
(* programs.  `Inductive' says of an update that goes on that what it is   *)
(* done with is in the stack, as the program registers it, and closed      *)
(* under dependencies; of the stack that no urn is in it twice; and of a   *)
(* destroy that it has failed before it is run again.  The later parts are *)
(* about every order of the engine's steps: that an update is never stuck, *)
(* what a program that is in place and serial means for them, deploys that *)
(* are run again, and what a destroy leaves.                               *)
(***************************************************************************)
EXTENDS Stack, ResourceGraphProofs, TLAPS

(* What the engine guarantees for any programs.  Whatever was stopped and  *)
(* whatever came next, all that a resource of the stack depends on is in   *)
(* the stack too.                                                          *)
DependenciesLive ==
  LET urns == Urns(live) IN \A r \in live : r.after \subseteq urns

(* Nothing is there that the stack does not know of, except what commands  *)
(* without a delete command leave behind (packages, configurations).       *)
Left == UNION {r.keeps : r \in Registrable}
Owned == there \subseteq Makes(live) \cup Left

(* When the deletions start, all that the program registers is in the      *)
(* stack, in its new version.                                              *)
Converges == phase = "delete" => Wanted \subseteq live

(* What an update is done with is in the stack, as it is registered.       *)
DoneLive ==
  phase = "create" => \A u \in done : \E q \in live \cap Wanted : q.urn = u

OneVersion == \A p, q \in live : p.urn = q.urn => p = q

DoneClosed == phase = "create" /\ ~Duplicates => Closed(Wanted, done)

(* A destroy is run again once, after a step of it has failed.             *)
Destroying ==
  /\ stops \in Nat
  /\ retry => goal = Nothing
  /\ goal = Nothing => phase # "create"
  /\ goal = Nothing /\ phase = "idle" /\ retry => stops >= 1
  /\ goal = Nothing /\ phase = "delete" /\ ~retry => stops >= 1

Inductive ==
  /\ TypeOK /\ DoneLive /\ OneVersion /\ DoneClosed
  /\ DependenciesLive /\ Owned /\ Converges
  /\ Destroying /\ Destroyed

----------------------------------------------------------------------------
(* The facts about sets of resources that the steps rest on.               *)

(* A resource has its urn and its objects among those of its set.          *)
LEMMA Member == \A G : \A r \in G : r.urn \in Urns(G) /\ r.makes \subseteq Makes(G)
  BY DEF Urns, Makes

(* A urn of a set is one of a resource of it.                              *)
LEMMA OfUrn == \A G : \A u \in Urns(G) : \E r \in G : r.urn = u
  BY DEF Urns

(* All that a program registers can be registered.                         *)
LEMMA WantedRegistrable == TypeOK => Wanted \subseteq Registrable
  BY NothingAssumption DEF TypeOK, Wanted, Registrable

(* The program of no configuration registers nothing.                      *)
LEMMA NothingWanted == goal = Nothing => Wanted = {}
  BY NothingAssumption DEF Wanted

(* What a resource leaves behind is left, if it can be registered.         *)
LEMMA KeptLeft == \A r \in Registrable : r.keeps \subseteq Left
  BY DEF Left

----------------------------------------------------------------------------
(* A new stack.                                                            *)
LEMMA InitInductive == Init => Inductive
<1> SUFFICES ASSUME Init PROVE Inductive
  OBVIOUS
<1>1. TypeOK
  BY DEF Init, TypeOK
<1>2. DoneLive /\ DoneClosed /\ Converges
  BY DEF Init, DoneLive, DoneClosed, Converges
<1>3. OneVersion /\ DependenciesLive /\ Owned
  BY DEF Init, OneVersion, DependenciesLive, Owned
<1>4. Destroying /\ Destroyed
  BY DEF Init, Destroying, Destroyed
<1> QED
  BY <1>1, <1>2, <1>3, <1>4 DEF Inductive

----------------------------------------------------------------------------
(* A step that registers a resource, kept or new, but for the objects.     *)
LEMMA RegisteredInductive ==
  ASSUME Inductive, phase = "create",
         NEW r \in Wanted, IsReady(r), Registered(r)
  PROVE  /\ TypeOK' /\ DoneLive' /\ OneVersion' /\ DoneClosed'
         /\ DependenciesLive' /\ Converges' /\ Destroying' /\ Destroyed'
<1> USE DEF Inductive
<1>1. /\ live' = (live \ Old(r)) \cup {r} /\ done' = done \cup {r.urn}
      /\ goal' = goal /\ phase' = phase /\ retry' = retry /\ stops' = stops
      /\ Wanted' = Wanted /\ Duplicates' = Duplicates
  BY DEF Registered, Wanted, Duplicates
<1>2. TypeOK'
  <2>1. r \in Registrable
    BY WantedRegistrable
  <2>2. live' \subseteq Registrable
    BY <1>1, <2>1 DEF TypeOK
  <2>3. done' \subseteq Urns(Wanted')
    BY <1>1, Member DEF TypeOK
  <2> QED
    BY <1>1, <2>2, <2>3 DEF TypeOK
<1>3. ASSUME NEW q \in live, q.urn # r.urn PROVE q \in live'
  BY <1>1, <1>3 DEF Old
<1>4. DoneLive'
  <2> SUFFICES ASSUME NEW u \in done' PROVE \E q \in live' \cap Wanted' : q.urn = u
    BY DEF DoneLive
  <2>1. CASE u = r.urn
    BY <1>1, <2>1
  <2>2. CASE u # r.urn
    <3>1. PICK q \in live \cap Wanted : q.urn = u
      BY <1>1, <2>2 DEF DoneLive
    <3> QED
      BY <3>1, <2>2, <1>1, <1>3
  <2> QED
    BY <2>1, <2>2
<1>5. OneVersion'
  BY <1>1 DEF OneVersion, Old
<1>6. DoneClosed'
  <2> SUFFICES ASSUME ~Duplicates, NEW q \in Wanted, q.urn \in done'
               PROVE  q.after \subseteq done'
    BY <1>1 DEF DoneClosed, Closed
  <2>1. CASE q.urn = r.urn
    <3>1. q = r
      BY <2>1 DEF Duplicates
    <3> QED
      BY <3>1, <1>1 DEF IsReady
  <2>2. CASE q.urn # r.urn
    BY <2>2, <1>1 DEF DoneClosed, Closed
  <2> QED
    BY <2>1, <2>2
<1>7. DependenciesLive'
  <2>1. ASSUME NEW u \in Urns(live) PROVE u \in Urns(live')
    <3>1. PICK q \in live : q.urn = u
      BY OfUrn
    <3>2. r \in live'
      BY <1>1
    <3> QED
      BY <3>1, <3>2, <1>3, Member
  <2>2. r.after \subseteq Urns(live)
    <3> SUFFICES ASSUME NEW u \in done PROVE u \in Urns(live)
      BY DEF IsReady
    <3> QED
      BY Member DEF DoneLive
  <2>3. ASSUME NEW q \in live' PROVE q.after \subseteq Urns(live)
    BY <2>2, <1>1 DEF DependenciesLive
  <2> QED
    BY <2>1, <2>3 DEF DependenciesLive
<1>8. Converges' /\ Destroying' /\ Destroyed'
  BY <1>1 DEF Converges, Destroying, Destroyed
<1> QED
  BY <1>2, <1>4, <1>5, <1>6, <1>7, <1>8

(* What was there is still of the resources that were not replaced.        *)
LEMMA KeepInductive ==
  ASSUME Inductive, NEW r \in Wanted, Keep(r)
  PROVE  Inductive'
<1>1. phase = "create" /\ IsReady(r) /\ Registered(r)
  BY DEF Keep
<1>2. live' = (live \ Old(r)) \cup {r} /\ there' = there
  BY DEF Keep, Registered
<1>3. PICK p \in Old(r) : p.makes = r.makes
  BY DEF Keep, Unchanged
<1>4. Owned'
  <2> SUFFICES ASSUME NEW o \in there PROVE o \in Makes(live') \cup Left
    BY <1>2 DEF Owned, Left, Registrable
  <2>1. CASE o \in Left
    BY <2>1
  <2>2. CASE o \in Makes(live)
    <3>1. PICK q \in live : o \in q.makes
      BY <2>2 DEF Makes
    <3>2. CASE q \in Old(r)
      <4>1. q = p
        BY <1>3, <3>2 DEF Old, Inductive, OneVersion
      <4> QED
        BY <4>1, <1>2, <1>3, <3>1, Member
    <3>3. CASE q \notin Old(r)
      BY <3>1, <3>3, <1>2, Member
    <3> QED
      BY <3>2, <3>3
  <2> QED
    BY <2>1, <2>2 DEF Inductive, Owned
<1> QED
  BY <1>1, <1>4, RegisteredInductive DEF Inductive

(* What an old version makes goes, or stays and is left, or is made again. *)
LEMMA CreateInductive ==
  ASSUME Inductive, NEW r \in Wanted, Create(r)
  PROVE  Inductive'
<1>1. phase = "create" /\ IsReady(r) /\ Registered(r)
  BY DEF Create
<1>2. /\ live' = (live \ Old(r)) \cup {r}
      /\ there' = (there \ Replaced(r)) \cup r.makes
  BY DEF Create, Registered
<1>3. Owned'
  <2> SUFFICES ASSUME NEW o \in there' PROVE o \in Makes(live') \cup Left
    BY DEF Owned, Left, Registrable
  <2>1. CASE o \in r.makes
    BY <2>1, <1>2, Member
  <2>2. CASE o \in Left
    BY <2>2
  <2>3. CASE o \notin r.makes /\ o \in Makes(live)
    <3>1. PICK q \in live : o \in q.makes
      BY <2>3 DEF Makes
    <3>2. CASE q \in Old(r)
      <4>1. o \in q.keeps
        BY <2>3, <3>1, <3>2, <1>2 DEF Replaced
      <4> QED
        BY <4>1, KeptLeft DEF Inductive, TypeOK
    <3>3. CASE q \notin Old(r)
      BY <3>1, <3>3, <1>2, Member
    <3> QED
      BY <3>2, <3>3
  <2> QED
    BY <2>1, <2>2, <2>3, <1>2 DEF Inductive, Owned
<1> QED
  BY <1>1, <1>3, RegisteredInductive DEF Inductive

----------------------------------------------------------------------------
(* A deletion: nothing in the stack depends on what goes.                  *)
LEMMA DeleteInductive ==
  ASSUME Inductive, NEW r \in live, Delete(r)
  PROVE  Inductive'
<1> USE DEF Inductive
<1>1. /\ phase = "delete" /\ r \in Unwanted /\ ~HasDependents(r)
      /\ live' = live \ {r} /\ there' = there \ Gone(r)
      /\ goal' = goal /\ phase' = phase /\ done' = done
      /\ retry' = retry /\ stops' = stops
      /\ Wanted' = Wanted
  BY DEF Delete, Wanted
<1>2. TypeOK' /\ DoneLive' /\ DoneClosed'
  BY <1>1 DEF TypeOK, DoneLive, DoneClosed
<1>3. OneVersion'
  BY <1>1 DEF OneVersion
<1>4. DependenciesLive'
  <2> SUFFICES ASSUME NEW q \in live', NEW u \in q.after PROVE u \in Urns(live')
    BY DEF DependenciesLive
  <2>1. PICK p \in live : p.urn = u
    BY <1>1, OfUrn DEF DependenciesLive
  <2>2. p # r
    BY <1>1, <2>1 DEF HasDependents
  <2> QED
    BY <1>1, <2>1, <2>2, Member
<1>5. Owned'
  <2> SUFFICES ASSUME NEW o \in there' PROVE o \in Makes(live') \cup Left
    BY DEF Owned, Left, Registrable
  <2>1. o \in there /\ o \notin r.makes \ r.keeps
    BY <1>1 DEF Gone
  <2>2. CASE o \in Left
    BY <2>2
  <2>3. CASE o \in Makes(live)
    <3>1. PICK q \in live : o \in q.makes
      BY <2>3 DEF Makes
    <3>2. CASE q = r
      BY <2>1, <3>1, <3>2, KeptLeft DEF TypeOK
    <3>3. CASE q # r
      BY <3>1, <3>3, <1>1, Member
    <3> QED
      BY <3>2, <3>3
  <2> QED
    BY <2>1, <2>2, <2>3 DEF Owned
<1>6. Converges'
  <2>1. r \notin Wanted
    BY <1>1, Member DEF Unwanted
  <2> QED
    BY <2>1, <1>1 DEF Converges
<1>7. Destroying' /\ Destroyed'
  BY <1>1 DEF Destroying, Destroyed
<1> QED
  BY <1>2, <1>3, <1>4, <1>5, <1>6, <1>7

----------------------------------------------------------------------------
(* The other steps leave the stack alone.                                  *)
LEMMA StackKept ==
  ASSUME Inductive, live' = live, there' = there
  PROVE  OneVersion' /\ DependenciesLive' /\ Owned'
  BY DEF Inductive, OneVersion, DependenciesLive, Owned, Left, Registrable

(* A task begins: the update is done with nothing.                         *)
LEMMA TaskInductive ==
  ASSUME Inductive, Task
  PROVE  Inductive'
<1> USE DEF Inductive
<1>1. ASSUME NEW c \in Configs, Deploy(c) PROVE Inductive'
  <2>1. /\ goal' = c /\ phase' = "create" /\ done' = {} /\ ~retry /\ retry' = retry
        /\ stops' = stops /\ live' = live /\ there' = there
    BY <1>1 DEF Deploy
  <2>2. TypeOK' /\ DoneLive' /\ DoneClosed' /\ Converges'
    BY <2>1 DEF TypeOK, DoneLive, DoneClosed, Closed, Converges
  <2>3. Destroying' /\ Destroyed'
    BY <2>1, NothingAssumption DEF Destroying, Destroyed
  <2> QED
    BY <2>1, <2>2, <2>3, StackKept
<1>2. CASE Destroy
  <2>1. /\ goal' = Nothing /\ phase' = "delete" /\ done' = {} /\ retry'
        /\ stops' = stops /\ live' = live /\ there' = there
    BY <1>2 DEF Destroy
  <2>2. Wanted' = {}
    BY <2>1, NothingAssumption DEF Wanted
  <2>3. TypeOK' /\ DoneLive' /\ DoneClosed' /\ Converges'
    BY <2>1, <2>2 DEF TypeOK, DoneLive, DoneClosed, Converges
  <2>4. Destroying' /\ Destroyed'
    BY <2>1 DEF Destroying, Destroyed
  <2> QED
    BY <2>1, <2>3, <2>4, StackKept
<1>3. CASE RetryDestroy
  <2>1. /\ goal = Nothing /\ goal' = goal /\ phase = "idle" /\ phase' = "delete"
        /\ done' = done /\ retry /\ ~retry' /\ stops' = stops
        /\ live' = live /\ there' = there
    BY <1>3 DEF RetryDestroy, Destroying
  <2>2. Wanted' = {} /\ Wanted = {}
    BY <2>1, NothingAssumption DEF Wanted
  <2>3. TypeOK' /\ DoneLive' /\ DoneClosed' /\ Converges'
    BY <2>1, <2>2 DEF TypeOK, DoneLive, DoneClosed, Converges
  <2>4. Destroying' /\ Destroyed'
    BY <2>1 DEF Destroying, Destroyed
  <2> QED
    BY <2>1, <2>3, <2>4, StackKept
<1> QED
  BY <1>1, <1>2, <1>3 DEF Task

(* An update that fails is over.                                           *)
LEMMA AbortedInductive ==
  ASSUME Inductive, Aborted,
         \/ phase = "create" /\ stops' = stops
         \/ phase # "idle" /\ stops' = stops + 1
  PROVE  Inductive'
<1> USE DEF Inductive
<1>1. /\ phase' = "idle" /\ goal' = goal /\ done' = done /\ retry' = retry
      /\ live' = live /\ there' = there /\ Wanted' = Wanted
  BY DEF Aborted, Wanted
<1>2. TypeOK' /\ DoneLive' /\ DoneClosed' /\ Converges'
  BY <1>1 DEF TypeOK, DoneLive, DoneClosed, Converges
<1>3. Destroying' /\ Destroyed'
  <2>1. CASE phase = "create" /\ stops' = stops
    BY <1>1, <2>1 DEF Destroying, Destroyed
  <2>2. CASE phase # "idle" /\ stops' = stops + 1
    <3>1. Destroying'
      BY <1>1, <2>2 DEF Destroying
    <3>2. Destroyed'
      <4>1. goal = Nothing /\ ~retry => phase = "delete" /\ stops >= 1
        BY <2>2 DEF Destroying, TypeOK
      <4> QED
        BY <1>1, <2>2, <4>1 DEF Destroyed, Destroying
    <3> QED
      BY <3>1, <3>2
  <2> QED
    BY <2>1, <2>2
<1> QED
  BY <1>1, <1>2, <1>3, StackKept

(* The deletions start when all that is wanted is there, and end when      *)
(* nothing else is.                                                        *)
LEMMA PhaseInductive ==
  ASSUME Inductive, StartDeletes \/ End
  PROVE  Inductive'
<1> USE DEF Inductive
<1>1. CASE StartDeletes
  <2>1. /\ phase = "create" /\ phase' = "delete" /\ Complete /\ ~Duplicates
        /\ goal' = goal /\ done' = done /\ retry' = retry /\ stops' = stops
        /\ live' = live /\ there' = there /\ Wanted' = Wanted
    BY <1>1 DEF StartDeletes, Wanted
  <2>2. Converges'
    <3> SUFFICES ASSUME NEW r \in Wanted PROVE r \in live
      BY <2>1 DEF Converges
    <3>1. PICK q \in live \cap Wanted : q.urn = r.urn
      BY <2>1 DEF Complete, DoneLive
    <3>2. q = r
      BY <2>1, <3>1 DEF Duplicates
    <3> QED
      BY <3>2
  <2>3. TypeOK' /\ DoneLive' /\ DoneClosed'
    BY <2>1 DEF TypeOK, DoneLive, DoneClosed
  <2>4. Destroying' /\ Destroyed'
    BY <2>1 DEF Destroying, Destroyed
  <2> QED
    BY <2>1, <2>2, <2>3, <2>4, StackKept
<1>2. CASE End
  <2>1. /\ phase = "delete" /\ phase' = "idle" /\ Unwanted = {} /\ ~retry'
        /\ goal' = goal /\ done' = done /\ stops' = stops
        /\ live' = live /\ there' = there /\ Wanted' = Wanted
    BY <1>2 DEF End, Wanted
  <2>2. goal = Nothing => live = {}
    <3> SUFFICES ASSUME goal = Nothing, NEW r \in live PROVE FALSE
      OBVIOUS
    <3>1. r.urn \in Urns(Wanted)
      BY <2>1 DEF Unwanted
    <3> QED
      BY <3>1, NothingWanted, OfUrn
  <2>3. TypeOK' /\ DoneLive' /\ DoneClosed' /\ Converges'
    BY <2>1 DEF TypeOK, DoneLive, DoneClosed, Converges
  <2>4. Destroying' /\ Destroyed'
    BY <2>1, <2>2 DEF Destroying, Destroyed
  <2> QED
    BY <2>1, <2>3, <2>4, StackKept
<1> QED
  BY <1>1, <1>2

----------------------------------------------------------------------------
(* Every step keeps the invariant.                                         *)
LEMMA NextInductive == Inductive /\ [Next]_vars => Inductive'
<1> SUFFICES ASSUME Inductive, [Next]_vars PROVE Inductive'
  OBVIOUS
<1>1. CASE Task
  BY <1>1, TaskInductive
<1>2. ASSUME NEW r \in Wanted, Keep(r) PROVE Inductive'
  BY <1>2, KeepInductive
<1>3. ASSUME NEW r \in Wanted, Create(r) PROVE Inductive'
  BY <1>3, CreateInductive
<1>4. CASE Refuse
  BY <1>4, AbortedInductive DEF Refuse
<1>5. CASE StartDeletes \/ End
  BY <1>5, PhaseInductive
<1>6. ASSUME NEW r \in live, Delete(r) PROVE Inductive'
  BY <1>6, DeleteInductive
<1>7. CASE Stop
  BY <1>7, AbortedInductive DEF Stop
<1>8. CASE UNCHANGED vars
  BY <1>8 DEF vars, Inductive, TypeOK, DoneLive, OneVersion, DoneClosed, Closed,
              Duplicates, DependenciesLive, Owned, Left, Registrable, Converges,
              Destroying, Destroyed, Wanted
<1> QED
  BY <1>1, <1>2, <1>3, <1>4, <1>5, <1>6, <1>7, <1>8 DEF Next, Step

LEMMA SpecInductive == Spec => []Inductive
  BY InitInductive, NextInductive, PTL DEF Spec

----------------------------------------------------------------------------
(* Type correctness: what an update is done with is what the program       *)
(* registers, and the stack has what some program has registered.          *)
THEOREM TypeCorrect == Spec => []TypeOK
<1>1. Inductive => TypeOK
  BY DEF Inductive
<1> QED
  BY <1>1, SpecInductive, PTL

(* One failure does not keep a destroy from leaving the stack empty.       *)
THEOREM DestroyEmpties == Spec => []Destroyed
<1>1. Inductive => Destroyed
  BY DEF Inductive
<1> QED
  BY <1>1, SpecInductive, PTL

----------------------------------------------------------------------------
(* No update is stuck.                                                     *)

(* Whatever the stack has been through, some of its resources have one     *)
(* among them that none of them depends on: the versions that it has, of   *)
(* one program or of several, never depend on each other in a circle.      *)
NoCircle ==
  \A S \in SUBSET live : S # {} => \E r \in S : \A q \in S : r.urn \notin q.after

(* What the update is done with depends on what it is done with.           *)
LiveClosed ==
  phase = "create" => \A q \in live : q.urn \in done => q.after \subseteq done

LEMMA RegisteredNoCircle ==
  ASSUME Inductive, NoCircle, LiveClosed, phase = "create",
         NEW r \in Wanted, IsReady(r), Registered(r)
  PROVE  NoCircle' /\ LiveClosed'
<1>1. /\ live' = (live \ Old(r)) \cup {r} /\ done' = done \cup {r.urn}
      /\ r.urn \notin done /\ r.after \subseteq done
  BY DEF Registered, IsReady
<1>2. ASSUME NEW q \in live', q.urn \in done PROVE q \in live /\ q.after \subseteq done
  BY <1>1, <1>2 DEF LiveClosed
<1>3. LiveClosed'
  <2> SUFFICES ASSUME NEW q \in live', q.urn \in done' PROVE q.after \subseteq done'
    BY DEF LiveClosed
  <2>1. CASE q = r
    BY <2>1, <1>1
  <2>2. CASE q # r
    <3>1. q.urn \in done
      BY <2>2, <1>1 DEF Old
    <3> QED
      BY <3>1, <1>1, <1>2
  <2> QED
    BY <2>1, <2>2
<1>4. NoCircle'
  <2> SUFFICES ASSUME NEW S \in SUBSET live', S # {}
               PROVE  \E p \in S : \A q \in S : p.urn \notin q.after
    BY DEF NoCircle
  <2> DEFINE N == {q \in S : q # r /\ q.urn \notin done}
  <2>1. ASSUME NEW q \in S \ N PROVE q.after \subseteq done
    BY <2>1, <1>1, <1>2
  <2>2. CASE N = {} /\ r \in S
    <3>1. \A q \in S : r.urn \notin q.after
      BY <2>1, <2>2, <1>1
    <3> QED
      BY <3>1, <2>2
  <2>3. CASE N # {}
    <3>1. N \in SUBSET live
      BY <1>1
    <3>2. PICK p \in N : \A q \in N : p.urn \notin q.after
      BY <2>3, <3>1 DEF NoCircle
    <3> QED
      BY <2>1, <3>2
  <2>4. CASE r \notin S
    BY <2>4, <1>1 DEF NoCircle
  <2> QED
    BY <2>2, <2>3, <2>4
<1> QED
  BY <1>3, <1>4

LEMMA NextNoCircle ==
  Inductive /\ NoCircle /\ LiveClosed /\ [Next]_vars => NoCircle' /\ LiveClosed'
<1> SUFFICES ASSUME Inductive, NoCircle, LiveClosed, [Next]_vars
             PROVE  NoCircle' /\ LiveClosed'
  OBVIOUS
<1>1. ASSUME NEW r \in Wanted, Keep(r) \/ Create(r) PROVE NoCircle' /\ LiveClosed'
  BY <1>1, RegisteredNoCircle DEF Keep, Create
<1>2. CASE Task
  <2>1. live' = live /\ (phase' = "create" => done' = {})
    BY <1>2 DEF Task, Deploy, Destroy, RetryDestroy
  <2> QED
    BY <2>1 DEF NoCircle, LiveClosed
<1>3. CASE Refuse \/ StartDeletes \/ End \/ Stop
  <2>1. live' = live /\ phase' # "create"
    BY <1>3 DEF Refuse, StartDeletes, End, Stop, Aborted
  <2> QED
    BY <2>1 DEF NoCircle, LiveClosed
<1>4. ASSUME NEW r \in live, Delete(r) PROVE NoCircle' /\ LiveClosed'
  <2>1. live' \subseteq live /\ phase' # "create"
    BY <1>4 DEF Delete
  <2> QED
    BY <2>1 DEF NoCircle, LiveClosed
<1>5. CASE UNCHANGED vars
  BY <1>5 DEF vars, NoCircle, LiveClosed
<1> QED
  BY <1>1, <1>2, <1>3, <1>4, <1>5 DEF Next, Step

(* What is to be deleted can be: there is always a resource that nothing   *)
(* depends on any more.                                                    *)
DeletesGoOn ==
  phase = "delete" => Unwanted = {} \/ \E r \in Unwanted : ~HasDependents(r)

(* The deletions of a deploy or of a destroy are never stuck, whatever     *)
(* updates the stack went through, and wherever they stopped.              *)
THEOREM DeletesAreNeverStuck == Spec => []DeletesGoOn
<1>1. Init => NoCircle /\ LiveClosed
  BY DEF Init, NoCircle, LiveClosed
<1>2. Inductive /\ NoCircle => DeletesGoOn
  <2> SUFFICES ASSUME Inductive, NoCircle, phase = "delete", Unwanted # {}
               PROVE  \E r \in Unwanted : ~HasDependents(r)
    BY DEF DeletesGoOn
  <2>1. Unwanted \in SUBSET live
    BY DEF Unwanted
  <2>2. PICK r \in Unwanted : \A q \in Unwanted : r.urn \notin q.after
    BY <2>1 DEF NoCircle
  <2>3. ASSUME NEW q \in live, r.urn \in q.after PROVE FALSE
    <3>1. q.urn \in Urns(Wanted)
      BY <2>2, <2>3 DEF Unwanted
    <3>2. PICK w \in Wanted : w.urn = q.urn
      BY <3>1, OfUrn
    <3>3. w = q
      BY <3>2 DEF Inductive, Converges, OneVersion
    <3>4. q.after \subseteq Urns(Wanted)
      BY <3>2, <3>3, ProgramAssumption, NothingWanted
      DEF Inductive, TypeOK, Wanted, SelfContained
    <3> QED
      BY <2>3, <3>4 DEF Unwanted
  <2> QED
    BY <2>3 DEF HasDependents
<1> QED
  BY <1>1, <1>2, NextNoCircle, SpecInductive, PTL DEF Spec

(* No resource of a program waits for itself, directly or not.             *)
NoneWaitsForItself(G) == \A r \in G : r.urn \notin Before(G, r)

(* Until all is done, there is a resource whose step can be taken.         *)
CreationsGoOn == phase = "create" => Complete \/ Ready # {}

(* What a program registers, in any state of the stack.                    *)
LEMMA WantedSelfContained == TypeOK => SelfContained(Wanted)
<1>1. SelfContained({})
  BY FS_EmptySet DEF SelfContained, Urns
<1> QED
  BY <1>1, ProgramAssumption, NothingAssumption DEF TypeOK, Wanted

(* The creations of an update are never stuck before the program is        *)
(* complete, in whatever order the engine took the steps so far, when the  *)
(* programs are such that no resource waits for itself.                    *)
THEOREM CreationsAreNeverStuck ==
  ASSUME \A c \in Configs : NoneWaitsForItself(Program[c])
  PROVE  Spec => []CreationsGoOn
<1>1. Inductive => CreationsGoOn
  <2> SUFFICES ASSUME Inductive, phase = "create", ~Complete PROVE Ready # {}
    BY DEF CreationsGoOn
  <2> DEFINE S == {r \in Wanted : r.urn \notin done}
  <2>1. S \in SUBSET Wanted /\ S # {}
    BY DEF Complete
  <2>2. SelfContained(Wanted) /\ \A r \in Wanted : r.urn \notin Before(Wanted, r)
    BY WantedSelfContained, NothingWanted
    DEF Inductive, TypeOK, Wanted, NoneWaitsForItself
  <2>3. PICK r \in S : \A q \in S : q.urn \notin r.after
    <3> HIDE DEF S
    <3> QED
      BY <2>1, <2>2, OneComesFirst
  <2>4. r.after \subseteq done
    <3> SUFFICES ASSUME NEW u \in r.after PROVE u \in done
      OBVIOUS
    <3>1. PICK q \in Wanted : q.urn = u
      BY <2>2, OfUrn DEF SelfContained
    <3> QED
      BY <2>3, <3>1
  <2> QED
    BY <2>4 DEF Ready, IsReady
<1> QED
  BY <1>1, SpecInductive, PTL

----------------------------------------------------------------------------
(* What the runs check of a program when an update begins, and what comes  *)
(* of it in every order of the steps of the update.                        *)

(* InPlace, PackagesSerial and BuiltOnce, of the program that an update is *)
(* about, at any time of the update.                                       *)
MakersAwaited(r) ==
  \A o \in r.needs \cap Makes(Wanted) :
    \E q \in Makers(Wanted, o) : q.urn \in Before(Wanted, r)
Placed == \A r \in Wanted : <<goal, r.urn>> \notin Known => MakersAwaited(r)

TwoPackageCommands(r, q) ==
  /\ r # q
  /\ PackageCommand(r) /\ r.urn[2] = "Command"
  /\ PackageCommand(q) /\ q.urn[2] = "Command"
  /\ OnMachine(r) \cap OnMachine(q) # {}
  /\ <<goal, r.urn>> \notin Known /\ <<goal, q.urn>> \notin Known
Serial == \A r, q \in Wanted : TwoPackageCommands(r, q) => Ordered(Wanted, r, q)

Once ==
  \A r, q \in Wanted : (\E o \in r.makes \cap q.makes : Exclusive(o)) => r = q

(* An update that goes on is about the same program.                       *)
LEMMA GoesOn ==
  ASSUME [Next]_vars, phase' = "create"
  PROVE  done' = {} \/ (phase = "create" /\ goal' = goal)
<1>1. CASE Task
  BY <1>1 DEF Task, Deploy, Destroy, RetryDestroy
<1>2. CASE Step \/ Stop
  BY <1>2 DEF Step, Keep, Create, Registered, Refuse, Aborted, StartDeletes, Delete, End, Stop
<1>3. CASE UNCHANGED vars
  BY <1>3 DEF vars
<1> QED
  BY <1>1, <1>2, <1>3 DEF Next

(* What is true of a program when an update begins is true until its end.  *)
LEMMA StillPlaced == Spec => ([]InPlace => [](phase = "create" => Placed))
<1>1. Init => (phase = "create" => Placed)
  BY DEF Init
<1>2. ASSUME phase = "create" => Placed, InPlace', [Next]_vars
      PROVE  (phase = "create" => Placed)'
  <2> SUFFICES ASSUME phase' = "create" PROVE Placed'
    OBVIOUS
  <2>1. CASE done' = {}
    BY <1>2, <2>1 DEF InPlace, Placed, MakersAwaited
  <2>2. CASE phase = "create" /\ goal' = goal
    BY <1>2, <2>2 DEF Placed, MakersAwaited, Wanted
  <2> QED
    BY <1>2, <2>1, <2>2, GoesOn
<1> QED
  BY <1>1, <1>2, PTL DEF Spec

LEMMA StillSerial == Spec => ([]PackagesSerial => [](phase = "create" => Serial))
<1>1. Init => (phase = "create" => Serial)
  BY DEF Init
<1>2. ASSUME phase = "create" => Serial, PackagesSerial', [Next]_vars
      PROVE  (phase = "create" => Serial)'
  <2> SUFFICES ASSUME phase' = "create" PROVE Serial'
    OBVIOUS
  <2>1. CASE done' = {}
    BY <1>2, <2>1 DEF PackagesSerial, Serial, TwoPackageCommands
  <2>2. CASE phase = "create" /\ goal' = goal
    BY <1>2, <2>2 DEF Serial, TwoPackageCommands, Wanted
  <2> QED
    BY <1>2, <2>1, <2>2, GoesOn
<1> QED
  BY <1>1, <1>2, PTL DEF Spec

LEMMA StillOnce == Spec => ([]BuiltOnce => [](phase = "create" => Once))
<1>1. Init => (phase = "create" => Once)
  BY DEF Init
<1>2. ASSUME phase = "create" => Once, BuiltOnce', [Next]_vars
      PROVE  (phase = "create" => Once)'
  <2> SUFFICES ASSUME phase' = "create" PROVE Once'
    OBVIOUS
  <2>1. CASE done' = {}
    BY <1>2, <2>1 DEF BuiltOnce, Once
  <2>2. CASE phase = "create" /\ goal' = goal
    BY <1>2, <2>2 DEF Once, Wanted
  <2> QED
    BY <1>2, <2>1, <2>2, GoesOn
<1> QED
  BY <1>1, <1>2, PTL DEF Spec

(* What a resource that is ready waits for, directly or not, is done.      *)
LEMMA BeforeDone ==
  ASSUME Inductive, phase = "create", ~Duplicates, NEW r \in Ready
  PROVE  Before(Wanted, r) \subseteq done
<1>1. r.after \subseteq done /\ Closed(Wanted, done)
  BY DEF Ready, IsReady, Inductive, DoneClosed
<1> QED
  BY <1>1, WantedSelfContained, BeforeLeast DEF Inductive

(* What is done is in the stack, in its new version.                       *)
LEMMA DoneIsLive ==
  ASSUME Inductive, phase = "create", ~Duplicates, NEW q \in Wanted, q.urn \in done
  PROVE  q \in live
<1>1. PICK p \in live \cap Wanted : p.urn = q.urn
  BY DEF Inductive, DoneLive
<1> QED
  BY <1>1 DEF Duplicates

(* When the step of a resource may be taken, what makes the objects that   *)
(* it needs is in the stack, in its new version.                           *)
MakersFirst ==
  phase = "create" /\ ~Duplicates =>
    \A r \in Ready : <<goal, r.urn>> \notin Known =>
      \A o \in r.needs \cap Makes(Wanted) : Makers(Wanted, o) \cap live # {}

(* InPlace is about a program, before the engine takes any of its steps.   *)
(* It is enough for all the orders that the engine may take them in: the   *)
(* objects that a resource looks up by name have their makers done before. *)
THEOREM MakersComeFirst == Spec => ([]InPlace => []MakersFirst)
<1>1. Inductive /\ (phase = "create" => Placed) => MakersFirst
  <2> SUFFICES ASSUME Inductive, phase = "create", ~Duplicates, Placed,
                      NEW r \in Ready, <<goal, r.urn>> \notin Known,
                      NEW o \in r.needs \cap Makes(Wanted)
               PROVE  Makers(Wanted, o) \cap live # {}
    BY DEF MakersFirst
  <2>1. PICK q \in Makers(Wanted, o) : q.urn \in Before(Wanted, r)
    BY DEF Placed, MakersAwaited, Ready
  <2>2. q.urn \in done /\ q \in Wanted
    BY <2>1, BeforeDone DEF Makers
  <2> QED
    BY <2>2, DoneIsLive
<1> QED
  BY <1>1, StillPlaced, SpecInductive, PTL

(* The steps of two resources of which one waits for the other are never   *)
(* taken at the same time.                                                 *)
NeverTogether ==
  phase = "create" /\ ~Duplicates =>
    \A r, q \in Ready : ~Ordered(Wanted, r, q)

(* A dependency, direct or not, is all that it takes for two steps never   *)
(* to be taken at the same time, and none waits for itself.                *)
THEOREM OrderedNeverTogether == Spec => []NeverTogether
<1>1. Inductive => NeverTogether
  <2> SUFFICES ASSUME Inductive, phase = "create", ~Duplicates,
                      NEW r \in Ready, NEW q \in Ready
               PROVE  r.urn \notin Before(Wanted, q)
    BY DEF NeverTogether, Ordered
  <2> QED
    BY BeforeDone DEF Ready, IsReady
<1> QED
  BY <1>1, SpecInductive, PTL

(* The package manager of a machine has one command to run.                *)
OnePackageCommand ==
  phase = "create" /\ ~Duplicates =>
    ~ \E r, q \in Ready : TwoPackageCommands(r, q)

(* PackagesSerial is about a program, before the engine takes any of its   *)
(* steps.  It is enough for two commands of the package manager of a       *)
(* machine never to run at the same time, in any order of the steps.       *)
THEOREM PackageCommandsAlone == Spec => ([]PackagesSerial => []OnePackageCommand)
<1>1. (phase = "create" => Serial) /\ NeverTogether => OnePackageCommand
  BY DEF Serial, NeverTogether, OnePackageCommand, Ready
<1> QED
  BY <1>1, StillSerial, OrderedNeverTogether, PTL

----------------------------------------------------------------------------
(* A stack that only ever has one configuration, deployed for the first    *)
(* time or again after a failure, however often, and never destroyed while *)
(* it has something.                                                       *)
OnlyEver(c) == goal = c \/ (goal = Nothing /\ live = {})

RegistersOnce(G) == \A r, q \in G : r.urn = q.urn => r = q

(* It has some of the resources of the program, and what is there is what  *)
(* they make.                                                              *)
Exact(c) == live \subseteq Program[c] /\ there = Makes(live)

LEMMA NextExact ==
  ASSUME NEW c \in Configs, RegistersOnce(Program[c]),
         Inductive, OnlyEver(c), Exact(c), [Next]_vars
  PROVE  Exact(c)'
<1>1. phase = "create" => Wanted = Program[c]
  BY DEF OnlyEver, Inductive, Destroying, Wanted
<1>2. ASSUME live' = live, there' = there PROVE Exact(c)'
  BY <1>2 DEF Exact
<1>3. ASSUME NEW r \in Wanted, Keep(r) PROVE Exact(c)'
  <2>1. Old(r) = {r}
    BY <1>1, <1>3 DEF Keep, Unchanged, Old, Exact, RegistersOnce
  <2>2. live' = live /\ there' = there
    BY <1>3, <2>1 DEF Keep, Registered, Old
  <2> QED
    BY <1>2, <2>2
<1>4. ASSUME NEW r \in Wanted, Create(r) PROVE Exact(c)'
  <2>1. Old(r) = {}
    BY <1>1, <1>4 DEF Create, Unchanged, Old, Exact, RegistersOnce
  <2>2. live' = live \cup {r} /\ there' = there \cup r.makes
    BY <1>4, <2>1 DEF Create, Registered, Replaced
  <2>3. Makes(live \cup {r}) = Makes(live) \cup r.makes
    BY DEF Makes
  <2> QED
    BY <1>1, <1>4, <2>2, <2>3 DEF Exact, Create
<1>5. ASSUME NEW r \in live, Delete(r) PROVE FALSE
  <2>1. r.urn \notin Urns(Wanted)
    BY <1>5 DEF Delete, Unwanted
  <2>2. Wanted = Program[c]
    BY DEF OnlyEver, Wanted
  <2> QED
    BY <2>1, <2>2, Member DEF Exact
<1>6. CASE Task \/ Refuse \/ StartDeletes \/ End \/ Stop \/ UNCHANGED vars
  BY <1>2, <1>6
  DEF Task, Deploy, Destroy, RetryDestroy, Refuse, StartDeletes, End, Stop, Aborted, vars
<1> QED
  BY <1>3, <1>4, <1>5, <1>6 DEF Next, Step

(* No step is refused of a resource that needs what its program makes, or  *)
(* what it finds later.                                                    *)
NotRefused ==
  phase = "create" =>
    \A r \in Ready :
      /\ <<goal, r.urn>> \notin Known
      /\ \A o \in r.needs : Soft(o) \/ o \in Makes(Wanted)
      => ~Refused(r)

(* A deploy that stopped anywhere can be run again, any number of times:   *)
(* nothing that the runs before have left is in the way, and nothing is    *)
(* missing, in any order of the steps.  What Served checks of two updates, *)
(* for any number of deploys of one program, given what InPlace and        *)
(* BuiltOnce say of the program.                                           *)
THEOREM RedeployServed ==
  ASSUME NEW c \in Configs, RegistersOnce(Program[c])
  PROVE  Spec => ([]OnlyEver(c) /\ []InPlace /\ []BuiltOnce => []NotRefused)
<1>1. Init => Exact(c)
  BY DEF Init, Exact, Makes
<1>2. Inductive /\ OnlyEver(c) /\ Exact(c) /\ [Next]_vars => Exact(c)'
  BY NextExact
<1>3. ASSUME Inductive, OnlyEver(c), Exact(c), MakersFirst, phase = "create" => Once
      PROVE  NotRefused
  <2> SUFFICES ASSUME phase = "create", NEW r \in Ready, <<goal, r.urn>> \notin Known,
                      \A o \in r.needs : Soft(o) \/ o \in Makes(Wanted),
                      ~Unchanged(r)
               PROVE  Missing(r) = {} /\ Taken(r) = {}
    BY DEF NotRefused, Refused
  <2>1. Wanted = Program[c] /\ r \in Wanted
    BY <1>3 DEF OnlyEver, Inductive, Destroying, Wanted, Ready
  <2>2. ~Duplicates
    BY <2>1 DEF Duplicates, RegistersOnce
  <2>3. ASSUME NEW o \in Missing(r) PROVE FALSE
    <3>1. o \in r.needs \cap Makes(Wanted) /\ o \notin there
      BY <2>3 DEF Missing
    <3>2. Makers(Wanted, o) \cap live # {}
      BY <1>3, <2>2, <3>1 DEF MakersFirst
    <3> QED
      BY <1>3, <3>1, <3>2 DEF Exact, Makers, Makes
  <2>4. ASSUME NEW o \in Taken(r) PROVE FALSE
    <3>1. o \in r.makes /\ o \in there /\ Exclusive(o)
      BY <2>4 DEF Taken
    <3>2. PICK q \in live : o \in q.makes
      BY <1>3, <3>1 DEF Exact, Makes
    <3>3. q = r
      BY <1>3, <2>1, <3>1, <3>2 DEF Exact, Once
    <3> QED
      BY <3>2, <3>3 DEF Unchanged, Old
  <2> QED
    BY <2>3, <2>4
<1> QED
  BY <1>1, <1>2, <1>3, StillOnce, MakersComeFirst, SpecInductive, PTL DEF Spec

----------------------------------------------------------------------------
(* What commands leave behind is gone when the stack is.                   *)

(* NoCircle, the other way around: of any resources of the stack, one      *)
(* depends on none of them.                                                *)
NoDescent ==
  \A S \in SUBSET live : S # {} => \E r \in S : \A q \in S : q.urn \notin r.after

LEMMA RegisteredNoDescent ==
  ASSUME NoDescent, LiveClosed, phase = "create",
         NEW r \in Wanted, IsReady(r), Registered(r)
  PROVE  NoDescent'
<1>1. /\ live' = (live \ Old(r)) \cup {r}
      /\ r.urn \notin done /\ r.after \subseteq done
  BY DEF Registered, IsReady
<1> SUFFICES ASSUME NEW S \in SUBSET live', S # {}
             PROVE  \E p \in S : \A q \in S : q.urn \notin p.after
  BY DEF NoDescent
<1> DEFINE N == {q \in S : q.urn \in done}
<1>2. CASE N = {} /\ r \in S
  BY <1>1, <1>2
<1>3. CASE N # {}
  <2>1. N \in SUBSET live
    BY <1>1
  <2>2. PICK p \in N : \A q \in N : q.urn \notin p.after
    BY <1>3, <2>1 DEF NoDescent
  <2>3. p.after \subseteq done
    BY <2>1 DEF LiveClosed
  <2> QED
    BY <2>2, <2>3
<1>4. CASE r \notin S
  BY <1>1, <1>4 DEF NoDescent
<1> QED
  BY <1>2, <1>3, <1>4

LEMMA NextNoDescent == NoDescent /\ LiveClosed /\ [Next]_vars => NoDescent'
<1> SUFFICES ASSUME NoDescent, LiveClosed, [Next]_vars PROVE NoDescent'
  OBVIOUS
<1>1. ASSUME NEW r \in Wanted, Keep(r) \/ Create(r) PROVE NoDescent'
  BY <1>1, RegisteredNoDescent DEF Keep, Create
<1>2. CASE Task \/ Refuse \/ StartDeletes \/ End \/ Stop \/ UNCHANGED vars
  <2>1. live' = live
    BY <1>2 DEF Task, Deploy, Destroy, RetryDestroy, Refuse, StartDeletes, End,
                Stop, Aborted, vars
  <2> QED
    BY <2>1 DEF NoDescent
<1>3. ASSUME NEW r \in live, Delete(r) PROVE NoDescent'
  <2>1. live' \subseteq live
    BY <1>3 DEF Delete
  <2> QED
    BY <2>1 DEF NoDescent
<1> QED
  BY <1>1, <1>2, <1>3 DEF Next, Step

(* What a destroy may leave: what is on the machine of the developer, and  *)
(* the dedicated hosts.                                                    *)
Stays(o) == o[2] = "local" \/ o[1] = "DedicatedHost"

Provides(m, n) == MachineObject(n) \in m.makes \ m.keeps

(* In all the programs that a stack may have, what rests on machine n has  *)
(* a urn in D[n]: what leaves an object behind rests on the machine that   *)
(* the object is on, and what rests on a machine provides it or depends on *)
(* something that rests on it.  The new version of a machine provides it.  *)
RestOnMachines(G, D) ==
  /\ \A r \in G : \A o \in r.keeps :
       Stays(o) \/ (o[2] \in DOMAIN D /\ r.urn \in D[o[2]])
  /\ \A r \in G : \A n \in DOMAIN D :
       r.urn \in D[n] => Provides(r, n) \/ r.after \cap D[n] # {}
  /\ \A p, q \in G : p.urn = q.urn =>
       \A n : Provides(p, n) => Provides(q, n)

ProgramsOf(s) == UNION {Program[c] : c \in {c \in Configs : Scenario[c] = s}}

(* What is there is of the stack, or on a machine of the stack, or stays.  *)
OnLiveMachine(o) == \E m \in live : Provides(m, o[2])
Held == \A o \in there : Stays(o) \/ o \in Makes(live) \/ OnLiveMachine(o)

OfScenario(s) == scenario = s /\ live \subseteq ProgramsOf(s) /\ Wanted \subseteq ProgramsOf(s)

LEMMA NextOfScenario ==
  ASSUME NEW s, OfScenario(s), [Next]_vars
  PROVE  OfScenario(s)'
<1>1. ASSUME NEW r \in Wanted, Keep(r) \/ Create(r) PROVE OfScenario(s)'
  BY <1>1 DEF Keep, Create, Registered, OfScenario, Wanted, ProgramsOf
<1>2. ASSUME NEW c \in Configs, Deploy(c) PROVE OfScenario(s)'
  BY <1>2 DEF Deploy, OfScenario, Wanted, ProgramsOf
<1>3. CASE Destroy
  BY <1>3, NothingAssumption DEF Destroy, OfScenario, Wanted, ProgramsOf
<1>4. ASSUME NEW r \in live, Delete(r) PROVE OfScenario(s)'
  BY <1>4 DEF Delete, OfScenario, Wanted, ProgramsOf
<1>5. CASE RetryDestroy \/ Refuse \/ StartDeletes \/ End \/ Stop \/ UNCHANGED vars
  BY <1>5 DEF RetryDestroy, Refuse, StartDeletes, End, Stop, Aborted, vars,
              OfScenario, Wanted, ProgramsOf
<1> QED
  BY <1>1, <1>2, <1>3, <1>4, <1>5 DEF Next, Step, Task

(* What rests on a machine has the machine in the stack.                   *)
LEMMA RestsOnLiveMachine ==
  ASSUME NEW D, RestOnMachines(live, D), NoDescent, DependenciesLive,
         NEW n \in DOMAIN D, NEW r \in live, r.urn \in D[n]
  PROVE  \E m \in live : Provides(m, n)
<1> DEFINE S == {q \in live : q.urn \in D[n]}
<1>1. PICK m \in S : \A q \in S : q.urn \notin m.after
  BY DEF NoDescent
<1>2. ASSUME NEW u \in m.after \cap D[n] PROVE FALSE
  <2>1. PICK q \in live : q.urn = u
    BY OfUrn DEF DependenciesLive
  <2> QED
    BY <1>1, <2>1
<1> QED
  BY <1>1, <1>2 DEF RestOnMachines

LEMMA RestOfSubset ==
  ASSUME NEW G, NEW H \in SUBSET G, NEW D, RestOnMachines(G, D)
  PROVE  RestOnMachines(H, D)
  BY DEF RestOnMachines

(* What a resource of the stack leaves behind stays, or is on a machine of *)
(* the stack.                                                              *)
LEMMA LeftOnMachine ==
  ASSUME NEW D, RestOnMachines(live, D), NoDescent, DependenciesLive,
         NEW r \in live, NEW o \in r.keeps
  PROVE  Stays(o) \/ OnLiveMachine(o)
<1>1. Stays(o) \/ (o[2] \in DOMAIN D /\ r.urn \in D[o[2]])
  BY DEF RestOnMachines
<1>2. CASE o[2] \in DOMAIN D /\ r.urn \in D[o[2]]
  BY <1>2, RestsOnLiveMachine DEF OnLiveMachine
<1> QED
  BY <1>1, <1>2

LEMMA RegisteredHeld ==
  ASSUME NEW s, NEW D, RestOnMachines(ProgramsOf(s), D), OfScenario(s),
         Inductive, NoDescent, Held,
         NEW r \in Wanted, Keep(r) \/ Create(r)
  PROVE  Held'
<1>1. live' = (live \ Old(r)) \cup {r}
  BY DEF Keep, Create, Registered
<1>2. RestOnMachines(live, D)
  BY RestOfSubset DEF OfScenario
<1>3. ASSUME NEW o, OnLiveMachine(o) PROVE OnLiveMachine(o)'
  <2>1. PICK m \in live : Provides(m, o[2])
    BY <1>3 DEF OnLiveMachine
  <2>2. CASE m \in Old(r)
    <3>1. m \in ProgramsOf(s) /\ r \in ProgramsOf(s) /\ m.urn = r.urn
      BY <2>2 DEF OfScenario, Old
    <3>2. Provides(r, o[2])
      BY <2>1, <3>1 DEF RestOnMachines
    <3> QED
      BY <1>1, <3>2 DEF OnLiveMachine, Provides
  <2>3. CASE m \notin Old(r)
    BY <1>1, <2>1, <2>3 DEF OnLiveMachine, Provides
  <2> QED
    BY <2>2, <2>3
<1>4. SUFFICES ASSUME NEW o \in there'
               PROVE  Stays(o) \/ o \in Makes(live') \/ OnLiveMachine(o)'
  BY DEF Held, OnLiveMachine, Stays
<1>5. CASE o \in r.makes
  BY <1>1, <1>5, Member
<1>6. CASE o \in there /\ (o \notin Replaced(r) \/ Keep(r)) /\ o \notin r.makes
  <2>1. CASE o \in Makes(live)
    <3>1. PICK q \in live : o \in q.makes
      BY <2>1 DEF Makes
    <3>2. CASE q \in Old(r)
      <4>1. ~Keep(r)
        <5> SUFFICES ASSUME Keep(r) PROVE FALSE
          OBVIOUS
        <5>1. PICK p \in Old(r) : p.makes = r.makes
          BY DEF Keep, Unchanged
        <5>2. q = p
          BY <3>2, <5>1 DEF Old, Inductive, OneVersion
        <5> QED
          BY <1>6, <3>1, <5>1, <5>2
      <4>2. o \in q.keeps
        BY <1>6, <3>1, <3>2, <4>1 DEF Replaced
      <4> QED
        BY <1>2, <1>3, <3>1, <4>2, LeftOnMachine DEF Inductive
    <3>3. CASE q \notin Old(r)
      BY <1>1, <3>1, <3>3, Member
    <3> QED
      BY <3>2, <3>3
  <2> QED
    BY <1>3, <1>6, <2>1 DEF Held
<1> QED
  BY <1>5, <1>6 DEF Keep, Create

LEMMA DeleteHeld ==
  ASSUME NEW D, RestOnMachines(live, D), Inductive, NoDescent, Held,
         NEW r \in live, Delete(r)
  PROVE  Held'
<1>1. live' = live \ {r} /\ there' = there \ Gone(r)
  BY DEF Delete
<1>2. ASSUME NEW o \in there', OnLiveMachine(o) PROVE OnLiveMachine(o)'
  <2>1. PICK m \in live : Provides(m, o[2])
    BY <1>2 DEF OnLiveMachine
  <2>2. m # r
    <3> SUFFICES ASSUME m = r PROVE FALSE
      OBVIOUS
    <3>1. o \in Contents(MachineObject(o[2]), there)
      BY <1>1 DEF Contents
    <3>2. MachineObject(o[2]) \in r.makes \ r.keeps
      BY <2>1 DEF Provides
    <3> QED
      BY <1>1, <3>1, <3>2 DEF Gone
  <2> QED
    BY <1>1, <2>1, <2>2 DEF OnLiveMachine, Provides
<1>3. SUFFICES ASSUME NEW o \in there'
               PROVE  Stays(o) \/ o \in Makes(live') \/ OnLiveMachine(o)'
  BY DEF Held, OnLiveMachine, Stays
<1>4. o \in there /\ o \notin r.makes \ r.keeps
  BY <1>1 DEF Gone
<1>5. CASE o \in Makes(live)
  <2>1. PICK q \in live : o \in q.makes
    BY <1>5 DEF Makes
  <2>2. CASE q = r
    BY <1>2, <1>4, <2>1, <2>2, LeftOnMachine DEF Inductive
  <2>3. CASE q # r
    BY <1>1, <2>1, <2>3, Member
  <2> QED
    BY <2>2, <2>3
<1> QED
  BY <1>2, <1>4, <1>5 DEF Held

(* A stack that is destroyed leaves nothing but what stays, whatever its   *)
(* updates were and wherever they stopped, in any order of the steps: all  *)
(* that commands do not undo is on machines, and goes with them, because a *)
(* machine is deleted after what rests on it.  The machines of Azure are   *)
(* outside of the hypothesis: no command waits for one (AzureKnown).       *)
THEOREM DestroyLeavesNothing ==
  ASSUME NEW s, NEW D, RestOnMachines(ProgramsOf(s), D)
  PROVE  Spec /\ scenario = s => []NothingLeft
<1> DEFINE Inv == OfScenario(s) /\ NoDescent /\ LiveClosed /\ Held
<1>1. Init /\ scenario = s => Inv
  BY NothingAssumption DEF Init, OfScenario, NoDescent, LiveClosed, Held, Wanted
<1>2. Inductive /\ NoCircle /\ Inv /\ [Next]_vars => Inv'
  <2> SUFFICES ASSUME Inductive, NoCircle, OfScenario(s), NoDescent, LiveClosed, Held,
                      [Next]_vars
               PROVE  Inv'
    OBVIOUS
  <2>1. OfScenario(s)' /\ NoDescent' /\ LiveClosed'
    BY NextOfScenario, NextNoDescent, NextNoCircle
  <2>2. ASSUME NEW r \in Wanted, Keep(r) \/ Create(r) PROVE Held'
    BY <2>2, RegisteredHeld
  <2>3. ASSUME NEW r \in live, Delete(r) PROVE Held'
    <3>1. RestOnMachines(live, D)
      BY RestOfSubset DEF OfScenario
    <3> QED
      BY <2>3, <3>1, DeleteHeld
  <2>4. ASSUME Task \/ Refuse \/ StartDeletes \/ End \/ Stop \/ UNCHANGED vars
        PROVE  Held'
    <3>1. live' = live /\ there' = there
      BY <2>4 DEF Task, Deploy, Destroy, RetryDestroy, Refuse, StartDeletes, End,
                  Stop, Aborted, vars
    <3> QED
      BY <3>1 DEF Held, OnLiveMachine
  <2>5. Held'
    BY <2>2, <2>3, <2>4 DEF Next, Step
  <2> QED
    BY <2>1, <2>5
<1>3. Init => NoCircle
  BY DEF Init, NoCircle
<1>4. Held => NothingLeft
  <2>1. Makes({}) = {}
    BY DEF Makes
  <2> QED
    BY <2>1 DEF Held, NothingLeft, OnLiveMachine, Stays
<1> QED
  BY <1>1, <1>2, <1>3, <1>4, NextNoCircle, SpecInductive, PTL DEF Spec

----------------------------------------------------------------------------
(* Deletions take nothing away of what stays in the stack.                 *)

(* What a stack of scenario s may have been deployed with last.            *)
GoalsOf(s) == {Nothing} \cup {c \in Configs : Scenario[c] = s}

(* The resources whose deletion OthersKept speaks of.                      *)
Deletable(s) ==
  {r \in ProgramsOf(s) :
     ~InstallsAgent(r) /\ \E g \in GoalsOf(s) : <<g, r.urn>> \notin Known}

(* For the resources r of G that are in R: what makes an object that goes  *)
(* away with those of r (on its machine, in its namespace, of its kind)    *)
(* has a urn in E[r.urn], and depends on r or on something that has one;   *)
(* and no other resource of G makes the same object.  Of the stacks of     *)
(* MCStack, those with micro-VMs are outside for what MicroVMKnown says of *)
(* them (a volume that two VM sets make, and pools of two hosts with one   *)
(* urn).  For R = G those on Azure are too (AzureKnown), and those that go *)
(* from one way of installing the Agent to another (InstallsAgent).        *)
WaitForOwners(G, R, E) ==
  \A r \in G \cap R : \A q \in {q \in G : q.urn # r.urn} :
    /\ q.urn \in E[r.urn] => q.after \cap E[r.urn] # {}
    /\ \A o \in r.makes \ r.keeps :
         o \notin q.makes /\ (Contents(o, q.makes) # {} => q.urn \in E[r.urn])

(* What goes through r goes before it.                                     *)
LEMMA NoneLeftOver ==
  ASSUME NoDescent, DependenciesLive, NEW r \in live, ~HasDependents(r), NEW D,
         \A q \in live : q.urn # r.urn /\ q.urn \in D => q.after \cap D # {},
         NEW q \in live, q.urn \in D
  PROVE  q.urn = r.urn
<1> DEFINE S == {p \in live : p.urn \in D /\ p.urn # r.urn}
<1>1. SUFFICES ASSUME S # {} PROVE FALSE
  OBVIOUS
<1>2. PICK m \in S : \A p \in S : p.urn \notin m.after
  BY <1>1 DEF NoDescent
<1>3. PICK u \in m.after : u \in D
  OBVIOUS
<1>4. PICK p \in live : p.urn = u
  BY OfUrn DEF DependenciesLive
<1>5. p.urn # r.urn
  BY <1>3, <1>4 DEF HasDependents
<1> QED
  BY <1>2, <1>3, <1>4, <1>5

LEMMA DeleteKeepsOthers ==
  ASSUME NEW G, NEW R, NEW E, WaitForOwners(G, R, E), live \subseteq G,
         NoDescent, Inductive, NEW r \in live, r \in R, Delete(r)
  PROVE  Makes(live') \cap (there \ there') = {}
<1>1. live' = live \ {r} /\ there' = there \ Gone(r) /\ ~HasDependents(r)
  BY DEF Delete
<1>2. SUFFICES ASSUME NEW x \in Makes(live'), x \in there, x \in Gone(r) PROVE FALSE
  BY <1>1
<1>3. PICK q \in live' : x \in q.makes
  BY <1>2 DEF Makes
<1>4. q \in live /\ q.urn # r.urn
  BY <1>1 DEF Inductive, OneVersion
<1>6. \A o \in r.makes \ r.keeps :
        o \notin q.makes /\ (Contents(o, q.makes) # {} => q.urn \in E[r.urn])
  BY <1>4 DEF WaitForOwners
<1>7. PICK o \in r.makes \ r.keeps : x \in Contents(o, there)
  BY <1>2, <1>3, <1>6 DEF Gone
<1>8. x \in Contents(o, q.makes)
  BY <1>3, <1>7 DEF Contents
<1>9. q.urn \in E[r.urn]
  BY <1>6, <1>7, <1>8
<1>10. \A p \in live : p.urn # r.urn /\ p.urn \in E[r.urn] => p.after \cap E[r.urn] # {}
  BY DEF WaitForOwners
<1> QED
  BY <1>1, <1>4, <1>9, <1>10, NoneLeftOver DEF Inductive

LEMMA SpecOfScenario ==
  ASSUME NEW s
  PROVE  Spec /\ scenario = s => [](OfScenario(s) /\ NoDescent /\ goal \in GoalsOf(s))
<1> DEFINE Inv == OfScenario(s) /\ NoDescent /\ LiveClosed /\ goal \in GoalsOf(s)
<1>1. Init /\ scenario = s => Inv
  BY NothingAssumption DEF Init, OfScenario, NoDescent, LiveClosed, GoalsOf, Wanted
<1>2. Inductive /\ NoCircle /\ Inv /\ [Next]_vars => Inv'
  <2> SUFFICES ASSUME Inductive, NoCircle, OfScenario(s), NoDescent, LiveClosed,
                      goal \in GoalsOf(s), [Next]_vars
               PROVE  Inv'
    OBVIOUS
  <2>1. OfScenario(s)' /\ NoDescent' /\ LiveClosed'
    BY NextOfScenario, NextNoDescent, NextNoCircle
  <2>2. goal' \in GoalsOf(s)
    <3>1. ASSUME NEW c \in Configs, Deploy(c) PROVE goal' \in GoalsOf(s)
      BY <3>1 DEF Deploy, OfScenario, GoalsOf
    <3>2. CASE Destroy
      BY <3>2 DEF Destroy, GoalsOf
    <3>3. ASSUME ~Destroy, ~ \E c \in Configs : Deploy(c) PROVE goal' = goal
      BY <3>3 DEF Next, Step, Task, RetryDestroy, Keep, Create, Registered, Refuse, StartDeletes,
                  Delete, End, Stop, Aborted, vars
    <3> QED
      BY <3>1, <3>2, <3>3
  <2> QED
    BY <2>1, <2>2 DEF GoalsOf
<1>3. Init => NoCircle
  BY DEF Init, NoCircle
<1> QED
  BY <1>1, <1>2, <1>3, NextNoCircle, SpecInductive, PTL DEF Spec

(* The deletions of a deploy take nothing away of what stays, whatever the *)
(* updates before were and wherever they stopped, in any order: what is in *)
(* a namespace, on a machine or of a kind that goes away has been deleted  *)
(* before, because it waits for it, through other resources or not, in     *)
(* every program that may have left it in the stack.                       *)
THEOREM OthersStay ==
  ASSUME NEW s, NEW E, WaitForOwners(ProgramsOf(s), Deletable(s), E)
  PROVE  Spec /\ scenario = s => OthersKept
<1> DEFINE Kept ==
      \A r \in live \ live' :
        phase = "delete" /\ ~InstallsAgent(r) /\ <<goal, r.urn>> \notin Known =>
          Makes(live') \cap (there \ there') = {}
<1>1. Inductive /\ OfScenario(s) /\ NoDescent /\ goal \in GoalsOf(s) /\ [Next]_vars => [Kept]_vars
  <2> SUFFICES ASSUME Inductive, OfScenario(s), NoDescent, goal \in GoalsOf(s), [Next]_vars,
                      NEW r \in live \ live', phase = "delete",
                      ~InstallsAgent(r), <<goal, r.urn>> \notin Known
               PROVE  Makes(live') \cap (there \ there') = {}
    OBVIOUS
  <2>1. PICK q \in live : Delete(q)
    BY DEF Next, Step, Task, Deploy, Destroy, RetryDestroy, Keep, Create, Refuse, StartDeletes,
           End, Stop, Aborted, vars
  <2>2. q = r
    BY <2>1 DEF Delete
  <2>3. r \in Deletable(s) /\ live \subseteq ProgramsOf(s)
    BY DEF Deletable, OfScenario
  <2> QED
    BY <2>1, <2>2, <2>3, DeleteKeepsOthers
<1> QED
  BY <1>1, SpecOfScenario, SpecInductive, PTL DEF Spec, OthersKept

(* All that the resources of the stack have made is there.                 *)
AllThere == Makes(live) \subseteq there

LEMMA RegisteredAllThere ==
  ASSUME NEW G, NEW E, WaitForOwners(G, G, E), live \subseteq G, Wanted \subseteq G,
         Inductive, AllThere, NEW r \in Wanted, Keep(r) \/ Create(r)
  PROVE  AllThere'
<1>1. live' = (live \ Old(r)) \cup {r}
  BY DEF Keep, Create, Registered
<1>2. SUFFICES ASSUME NEW q \in live', NEW o \in q.makes PROVE o \in there'
  BY DEF AllThere, Makes
<1>3. CASE q = r
  <2>1. CASE Create(r)
    BY <1>3, <2>1 DEF Create
  <2>2. CASE Keep(r)
    <3>1. PICK p \in Old(r) : p.makes = r.makes
      BY <2>2 DEF Keep, Unchanged
    <3> QED
      BY <1>3, <2>2, <3>1, Member DEF Keep, Old, AllThere
  <2> QED
    BY <2>1, <2>2
<1>4. CASE q # r
  <2>1. q \in live /\ q.urn # r.urn /\ o \in there
    BY <1>1, <1>4, Member DEF Old, AllThere
  <2>2. o \notin Replaced(r)
    <3> SUFFICES ASSUME NEW p \in Old(r), o \in p.makes \ p.keeps PROVE FALSE
      BY DEF Replaced
    <3> QED
      BY <2>1 DEF Old, WaitForOwners
  <2> QED
    BY <2>1, <2>2 DEF Keep, Create
<1> QED
  BY <1>3, <1>4

(* Nothing that the program makes is missing to a step that is ready.      *)
NoneMissing ==
  phase = "create" /\ ~Duplicates =>
    \A r \in Ready :
      <<goal, r.urn>> \notin Known => Missing(r) \cap Makes(Wanted) = {}

(* From one configuration to another and back, however often, in any order *)
(* of the steps and wherever they stopped, no step is refused for an       *)
(* object that its program makes: what Served checks of two updates, given *)
(* what InPlace says of each program, where all that goes away with        *)
(* something waits for it.                                                 *)
THEOREM NoneIsMissing ==
  ASSUME NEW s, NEW E, WaitForOwners(ProgramsOf(s), ProgramsOf(s), E)
  PROVE  Spec /\ scenario = s => []AllThere /\ ([]InPlace => []NoneMissing)
<1>1. Init => AllThere
  BY DEF Init, AllThere, Makes
<1>2. Inductive /\ OfScenario(s) /\ NoDescent /\ AllThere /\ [Next]_vars => AllThere'
  <2> SUFFICES ASSUME Inductive, OfScenario(s), NoDescent, AllThere, [Next]_vars
               PROVE  AllThere'
    OBVIOUS
  <2>1. live \subseteq ProgramsOf(s) /\ Wanted \subseteq ProgramsOf(s)
    BY DEF OfScenario
  <2>2. ASSUME NEW r \in Wanted, Keep(r) \/ Create(r) PROVE AllThere'
    BY <2>1, <2>2, RegisteredAllThere
  <2>3. ASSUME NEW r \in live, Delete(r) PROVE AllThere'
    <3>1. Makes(live') \cap (there \ there') = {}
      BY <2>1, <2>3, DeleteKeepsOthers
    <3>2. Makes(live') \subseteq Makes(live)
      BY <2>3 DEF Delete, Makes
    <3> QED
      BY <3>1, <3>2 DEF AllThere
  <2>4. CASE Task \/ Refuse \/ StartDeletes \/ End \/ Stop \/ UNCHANGED vars
    <3>1. live' = live /\ there' = there
      BY <2>4 DEF Task, Deploy, Destroy, RetryDestroy, Refuse, StartDeletes, End,
                  Stop, Aborted, vars
    <3> QED
      BY <3>1 DEF AllThere
  <2> QED
    BY <2>2, <2>3, <2>4 DEF Next, Step
<1>3. AllThere /\ MakersFirst => NoneMissing
  <2> SUFFICES ASSUME AllThere, MakersFirst, phase = "create", ~Duplicates,
                      NEW r \in Ready, <<goal, r.urn>> \notin Known,
                      NEW o \in Missing(r) \cap Makes(Wanted)
               PROVE  FALSE
    BY DEF NoneMissing
  <2>1. o \in r.needs \cap Makes(Wanted) /\ o \notin there
    BY DEF Missing
  <2>2. PICK q \in Makers(Wanted, o) \cap live : TRUE
    BY <2>1 DEF MakersFirst
  <2> QED
    BY <2>1, <2>2, Member DEF Makers, AllThere
<1> QED
  BY <1>1, <1>2, <1>3, SpecOfScenario, MakersComeFirst, SpecInductive, PTL DEF Spec

(* What is there is of the stack, or a command of one of the programs that *)
(* the stack may have has left it behind.                                  *)
LeftBy(G) == UNION {r.keeps : r \in G}
OwnedBy(G) == there \subseteq Makes(live) \cup LeftBy(G)

LEMMA RegisteredOwnedBy ==
  ASSUME NEW G, live \subseteq G, Inductive, OwnedBy(G),
         NEW r \in Wanted, Keep(r) \/ Create(r)
  PROVE  OwnedBy(G)'
<1>1. live' = (live \ Old(r)) \cup {r}
  BY DEF Keep, Create, Registered
<1>2. SUFFICES ASSUME NEW o \in there', o \notin LeftBy(G) PROVE o \in Makes(live')
  BY DEF OwnedBy, LeftBy
<1>3. CASE o \in r.makes
  BY <1>1, <1>3, Member
<1>4. CASE o \notin r.makes
  <2>1. o \in there /\ (Create(r) => o \notin Replaced(r))
    BY <1>4 DEF Keep, Create
  <2>2. PICK q \in live : o \in q.makes
    BY <1>2, <2>1 DEF OwnedBy, Makes
  <2>3. ASSUME q \in Old(r) PROVE FALSE
    <3>1. o \notin q.keeps
      BY <1>2 DEF LeftBy
    <3>2. Keep(r)
      BY <2>1, <2>2, <2>3, <3>1 DEF Replaced
    <3>3. PICK p \in Old(r) : p.makes = r.makes
      BY <3>2 DEF Keep, Unchanged
    <3>4. q = p
      BY <2>3, <3>3 DEF Old, Inductive, OneVersion
    <3> QED
      BY <1>4, <2>2, <3>3, <3>4
  <2> QED
    BY <1>1, <2>2, <2>3, Member
<1> QED
  BY <1>3, <1>4

LEMMA DeleteOwnedBy ==
  ASSUME NEW G, live \subseteq G, OwnedBy(G), NEW r \in live, Delete(r)
  PROVE  OwnedBy(G)'
<1>1. live' = live \ {r} /\ there' = there \ Gone(r)
  BY DEF Delete
<1>2. SUFFICES ASSUME NEW o \in there', o \notin LeftBy(G) PROVE o \in Makes(live')
  BY DEF OwnedBy, LeftBy
<1>3. o \in there /\ o \notin r.makes \ r.keeps
  BY <1>1 DEF Gone
<1>4. PICK q \in live : o \in q.makes
  BY <1>2, <1>3 DEF OwnedBy, Makes
<1>5. q # r
  BY <1>2, <1>3, <1>4 DEF LeftBy
<1> QED
  BY <1>1, <1>4, <1>5, Member

LEMMA SpecOwnedBy ==
  ASSUME NEW s
  PROVE  Spec /\ scenario = s => []OwnedBy(ProgramsOf(s))
<1> DEFINE G == ProgramsOf(s)
<1>1. Init => OwnedBy(G)
  BY DEF Init, OwnedBy
<1>2. Inductive /\ OfScenario(s) /\ OwnedBy(G) /\ [Next]_vars => OwnedBy(G)'
  <2> SUFFICES ASSUME Inductive, OfScenario(s), OwnedBy(G), [Next]_vars
               PROVE  OwnedBy(G)'
    OBVIOUS
  <2>1. live \subseteq G
    BY DEF OfScenario
  <2>2. ASSUME NEW r \in Wanted, Keep(r) \/ Create(r) PROVE OwnedBy(G)'
    BY <2>1, <2>2, RegisteredOwnedBy
  <2>3. ASSUME NEW r \in live, Delete(r) PROVE OwnedBy(G)'
    BY <2>1, <2>3, DeleteOwnedBy
  <2>4. CASE Task \/ Refuse \/ StartDeletes \/ End \/ Stop \/ UNCHANGED vars
    <3>1. live' = live /\ there' = there
      BY <2>4 DEF Task, Deploy, Destroy, RetryDestroy, Refuse, StartDeletes, End,
                  Stop, Aborted, vars
    <3> QED
      BY <3>1 DEF OwnedBy, G, ProgramsOf
  <2> QED
    BY <2>2, <2>3, <2>4 DEF Next, Step
<1> QED
  BY <1>1, <1>2, SpecOfScenario, SpecInductive, PTL DEF Spec

(* What the program of c asks for by name is made by what asks waits for,  *)
(* or found later, but for the steps that are known to fail.               *)
Prepared(c) ==
  \A r \in Program[c] : <<c, r.urn>> \notin Known =>
    \A o \in r.needs :
      Soft(o) \/ \E q \in Makers(Program[c], o) : q.urn \in Before(Program[c], r)

(* What cannot be created where there is one is not left behind, and the   *)
(* program of c makes the same of it as any other program of the stack.    *)
Settled(c, G) ==
  /\ \A o \in LeftBy(G) : ~Exclusive(o)
  /\ \A r \in Program[c] : <<c, r.urn>> \notin Known =>
       \A q \in G : q.urn = r.urn /\ (\E o \in r.makes \cap q.makes : Exclusive(o))
         => q.makes = r.makes

(* From one configuration of a scenario to another and back, however often,*)
(* with destroys in between, wherever they stopped and in any order of the *)
(* steps, no step is refused, for anything that is missing or in the way,  *)
(* but those that are known to be.  Of the 28 stacks of MCStack, 18 are as *)
(* the hypotheses say.  The others are those outside of WaitForOwners (two *)
(* with micro-VMs, two on Azure, the one of kindvm), the domain controller,*)
(* that registers a urn twice, and the four on Google Cloud, for which the *)
(* theorem would be wrong: the delete command of their fake intake stops   *)
(* its container, that keeps its name (gcp/fakeintake/fakeintake.go:47), so*)
(* that a destroy that is stopped between that command and the machine     *)
(* leaves what refuses the next deploy.                                    *)
THEOREM ServedAlways ==
  ASSUME NEW s, NEW E, WaitForOwners(ProgramsOf(s), ProgramsOf(s), E),
         \A c \in GoalsOf(s) \ {Nothing} :
           RegistersOnce(Program[c]) /\ Prepared(c) /\ Settled(c, ProgramsOf(s))
  PROVE  Spec /\ scenario = s => []Served
<1>1. Inductive /\ OfScenario(s) /\ goal \in GoalsOf(s) /\ AllThere /\ OwnedBy(ProgramsOf(s))
        => Served
  <2> SUFFICES ASSUME Inductive, OfScenario(s), goal \in GoalsOf(s), AllThere,
                      OwnedBy(ProgramsOf(s)), phase = "create"
               PROVE  /\ \A r \in Ready : Refused(r) => <<goal, r.urn>> \in Known
                      /\ \A r, q \in Wanted : r # q => r.urn # q.urn
    BY DEF Served
  <2>1. /\ goal \in GoalsOf(s) \ {Nothing} /\ Wanted = Program[goal]
        /\ RegistersOnce(Wanted)
    BY DEF Inductive, Destroying, Wanted
  <2>2. ~Duplicates
    BY <2>1 DEF RegistersOnce, Duplicates
  <2> SUFFICES ASSUME NEW r \in Ready, <<goal, r.urn>> \notin Known, ~Unchanged(r)
               PROVE  Missing(r) = {} /\ Taken(r) = {}
    BY <2>1 DEF RegistersOnce, Refused
  <2>3. r \in Wanted
    BY DEF Ready
  <2>4. ASSUME NEW o \in Missing(r) PROVE FALSE
    <3>1. o \in r.needs /\ o \notin there /\ ~Soft(o)
      BY <2>4 DEF Missing
    <3>2. PICK q \in Makers(Wanted, o) : q.urn \in Before(Wanted, r)
      BY <2>1, <2>3, <3>1 DEF Prepared
    <3>3. q \in live
      BY <2>2, <3>2, BeforeDone, DoneIsLive DEF Makers
    <3> QED
      BY <3>1, <3>2, <3>3, Member DEF Makers, AllThere
  <2>5. ASSUME NEW o \in Taken(r) PROVE FALSE
    <3>1. o \in r.makes /\ o \in there /\ Exclusive(o)
      BY <2>5 DEF Taken
    <3>2. o \notin LeftBy(ProgramsOf(s))
      BY <2>1, <3>1 DEF Settled
    <3>3. PICK q \in live : o \in q.makes
      BY <3>1, <3>2 DEF OwnedBy, Makes
    <3>4. q \in ProgramsOf(s) /\ r \in ProgramsOf(s)
      BY <2>3 DEF OfScenario
    <3>5. o \notin q.keeps
      BY <3>2, <3>4 DEF LeftBy
    <3>6. q.urn = r.urn
      BY <3>1, <3>3, <3>4, <3>5 DEF WaitForOwners
    <3>7. q.makes = r.makes
      BY <2>1, <2>3, <3>1, <3>3, <3>4, <3>6 DEF Settled
    <3> QED
      BY <3>3, <3>6, <3>7 DEF Unchanged, Old
  <2> QED
    BY <2>4, <2>5
<1> QED
  BY <1>1, SpecOfScenario, SpecOwnedBy, NoneIsMissing, SpecInductive, PTL
=============================================================================
