-------------------------- MODULE HostAgentProofs --------------------------
(***************************************************************************)
(* Proofs about HostAgent, for any parameters, flavors, files and number   *)
(* of updates and failures.                                                *)
(***************************************************************************)
EXTENDS HostAgent, FiniteSetTheorems, TLAPS

----------------------------------------------------------------------------
(* The inductive invariant.                                                *)

Functions == DOMAIN checkpoint = Command /\ DOMAIN disk = Path

(* What the program registered is what the parameters ask for.             *)
Goals ==
  \E hash \in IF params = NoAgent THEN {<<>>} ELSE Hashes(params) :
    goal = Goal(params, hash)

(* An update that is over leaves nothing to do, or has failed.             *)
Phases ==
  /\ phase # "idle" <=> outcome = "running"
  /\ phase = "deletes" \/ outcome = "ok" => Engine!Registered \subseteq done
  /\ outcome = "ok" => Engine!Condemned = {}
  /\ outcome \in {"none", "failed"} => restarted # "yes"

(* What an update is done with is recorded as it was registered, and what  *)
(* is deleted first is never left for later.                               *)
Recorded ==
  /\ \A c \in done : checkpoint[c] = goal[c]
  /\ \A x \in stale : x[1] \in Command \ Moves

(* A file that the update is done with holds what was asked for.           *)
Moved ==
  \A p \in Path : Move(p) \in done => disk[p].dest.content = goal[Move(p)].content

(* A package, if there is one, is of the version its removal is recorded   *)
(* with.                                                                   *)
Versions ==
  ~hidden =>
    \A fl \in Flavor : checkpoint[Uninstall(fl)] # None =>
      \/ packages[fl] = None
      \/ \E pr \in Params :
           /\ checkpoint[Uninstall(fl)].triggers = VersionTriggers(pr.version)
           /\ packages[fl] = InstallScript(pr.version)

(* The files that a restart on removal was registered for.                 *)
Covered(in) ==
  IF in = None THEN {} ELSE {in.triggers[i][1] : i \in DOMAIN in.triggers}

RestartsLater == \E x \in stale : x[1] = OnRemoval

(* A file is not in the stack without a restart that waits for its removal.*)
Watched ==
  ~RestartsLater =>
    \A f \in UserFile : checkpoint[Move(f)] # None => f \in Covered(checkpoint[OnRemoval])

(* What no restart watches has been read since it was removed.             *)
Unwatched ==
  ~RestartsLater /\ loaded # Stopped =>
    \A f \in UserFile \ Covered(checkpoint[OnRemoval]) :
      loaded[f] = disk[f].dest.content

(* The service has read what the last restart is recorded for.             *)
Restarted ==
  checkpoint[Restart] # None =>
    \E pr \in Params : \E hash \in Hashes(pr) :
      /\ checkpoint[Restart] = [triggers |-> RestartTriggers(pr, hash)]
      /\ \/ loaded = Stopped \/ restarted = "stray"
         \/ params = NoAgent /\ restarted = "yes"
         \/ \A p \in ConfigPath \cup Wanted(pr) : loaded[p] = Written(pr, p)

Inductive ==
  /\ TypeOK /\ Functions /\ Goals /\ Phases /\ Recorded /\ Moved
  /\ Versions /\ Watched /\ Unwatched /\ Restarted

----------------------------------------------------------------------------
(* The commands.                                                           *)

(* A command is told from the others by its name and its arguments.        *)
LEMMA Commands ==
  /\ Install \in Command /\ OnRemoval \in Command /\ Restart \in Command
  /\ \A fl \in Flavor : Uninstall(fl) \in Command
  /\ \A p \in Path : Move(p) \in Command
  /\ \A c \in Command :
       \/ c = Install \/ c = OnRemoval \/ c = Restart
       \/ c[2] \in Flavor /\ c = Uninstall(c[2])
       \/ c[2] \in Path /\ c = Move(c[2])
       \/ c[2] \in UserFile /\ c[3] \in Mode /\ c = Permissions(c[2], c[3])
BY DEF Command, Install, OnRemoval, Restart, Uninstall, Move, Permissions

LEMMA Names ==
  /\ Install[1] = "install-agent"
  /\ OnRemoval[1] = "running-on-intg-removal"
  /\ Restart[1] = "running"
  /\ \A fl : Uninstall(fl)[1] = "uninstall" /\ Uninstall(fl)[2] = fl
  /\ \A p : Move(p)[1] = "move-file" /\ Move(p)[2] = p
  /\ \A p, m : Permissions(p, m)[1] = "set-permissions" /\ Permissions(p, m)[2] = p
BY DEF Install, OnRemoval, Restart, Uninstall, Move, Permissions

----------------------------------------------------------------------------
(* The inputs of the commands.                                             *)

LEMMA InputsOf ==
  ASSUME NEW pr, NEW hash
  PROVE  /\ Inputs(pr, hash, Install).script = InstallScript(pr.version)
         /\ Inputs(pr, hash, Install).flavor = pr.version.flavor
         /\ Inputs(pr, hash, OnRemoval) = [triggers |-> hash]
         /\ Inputs(pr, hash, Restart) = [triggers |-> RestartTriggers(pr, hash)]
         /\ \A fl : Inputs(pr, hash, Uninstall(fl)) =
              IF fl = pr.version.flavor
              THEN [triggers |-> VersionTriggers(pr.version)] ELSE None
         /\ \A p \in ConfigPath \cup Wanted(pr) :
              Inputs(pr, hash, Move(p)) =
                [triggers |-> <<>>, content |-> Written(pr, p)]
<1>1. /\ Install[1] \notin {"uninstall", "move-file", "set-permissions"}
      /\ Install # OnRemoval /\ Install # Restart
  BY Names
<1>2. /\ OnRemoval[1] \notin {"uninstall", "move-file", "set-permissions"}
      /\ OnRemoval # Install /\ OnRemoval # Restart
  BY Names
<1>3. /\ Restart[1] \notin {"uninstall", "move-file", "set-permissions"}
      /\ Restart # Install /\ Restart # OnRemoval
  BY Names
<1>4. \A p : Move(p) # Install
  BY Names
<1>5. /\ Inputs(pr, hash, Install).script = InstallScript(pr.version)
      /\ Inputs(pr, hash, Install).flavor = pr.version.flavor
  <2>1. Inputs(pr, hash, Install) =
          [triggers |-> <<>>, script |-> InstallScript(pr.version),
           flavor |-> pr.version.flavor, apiKey |-> pr.apiKey]
    BY <1>1, Zenon DEF Inputs
  <2> QED
    BY <2>1
<1>6. Inputs(pr, hash, OnRemoval) = [triggers |-> hash]
  BY <1>2 DEF Inputs
<1>7. Inputs(pr, hash, Restart) = [triggers |-> RestartTriggers(pr, hash)]
  BY <1>3 DEF Inputs
<1>8. \A fl : Inputs(pr, hash, Uninstall(fl)) =
         IF fl = pr.version.flavor
         THEN [triggers |-> VersionTriggers(pr.version)] ELSE None
  BY Names DEF Inputs
<1>9. \A p : Inputs(pr, hash, Move(p)) =
         IF p \in ConfigPath \cup Wanted(pr)
         THEN [triggers |-> <<>>, content |-> Written(pr, p)] ELSE None
  BY <1>4, Names DEF Inputs
<1>10. \A p \in ConfigPath \cup Wanted(pr) :
          Inputs(pr, hash, Move(p)) =
            [triggers |-> <<>>, content |-> Written(pr, p)]
  BY <1>9, Zenon
<1> QED
  BY <1>5, <1>6, <1>7, <1>8, <1>10, Zenon

LEMMA UnaskedInputs ==
  \A pr, hash : \A p : p \notin ConfigPath \cup Wanted(pr) =>
    Inputs(pr, hash, Move(p)) = None
<1>1. \A p : Move(p)[1] # "uninstall" /\ Move(p) # Install
  BY Names
<1> QED
  BY <1>1, Names, Zenon DEF Inputs

(* An update without an Agent registers nothing.                           *)
LEMMA NothingAsked ==
  ASSUME Goals, NEW c \in Command, goal[c] # None
  PROVE  params # NoAgent
BY DEF Goals, Goal

(* What is registered for the Agent.                                       *)
AgentGoal(hash) ==
  /\ goal[Install] # None /\ goal[OnRemoval] # None /\ goal[Restart] # None
  /\ goal[Install].script = InstallScript(params.version)
  /\ goal[Install].flavor = params.version.flavor
  /\ goal[OnRemoval] = [triggers |-> hash]
  /\ goal[Restart] = [triggers |-> RestartTriggers(params, hash)]
  /\ goal[Uninstall(params.version.flavor)] # None
  /\ goal[Uninstall(params.version.flavor)] =
       [triggers |-> VersionTriggers(params.version)]
  /\ \A p \in ConfigPath \cup Wanted(params) :
       goal[Move(p)] # None /\ goal[Move(p)].content = Written(params, p)
  /\ \A f \in UserFile \ Wanted(params) : goal[Move(f)] = None

LEMMA Asked ==
  ASSUME TypeOK, Goals, params # NoAgent
  PROVE  params \in Params /\ \E hash \in Hashes(params) : AgentGoal(hash)
<1>1. PICK hash \in Hashes(params) : goal = Goal(params, hash)
  BY DEF Goals
<1>2. params \in Params
  BY DEF TypeOK
<1>3. \A c \in Command : goal[c] = Inputs(params, hash, c)
  BY <1>1 DEF Goal
<1>4. Uninstall(params.version.flavor) \in Command
  BY <1>2, FlavorAssumption, Commands
<1>5. \A p \in ConfigPath \cup UserFile : Move(p) \in Command
  BY Commands DEF Path
<1>6. Wanted(params) \subseteq UserFile
  BY DEF Wanted
<1>7. /\ goal[Install] = Inputs(params, hash, Install)
      /\ goal[OnRemoval] = Inputs(params, hash, OnRemoval)
      /\ goal[Restart] = Inputs(params, hash, Restart)
  BY <1>3, Commands
<1>8. /\ goal[Install] # None /\ goal[OnRemoval] # None /\ goal[Restart] # None
      /\ goal[Uninstall(params.version.flavor)] # None
  BY <1>2, <1>3, <1>4, <1>7, InputsAssumption
<1>9. ASSUME NEW p \in ConfigPath \cup Wanted(params)
      PROVE  goal[Move(p)] # None /\ goal[Move(p)].content = Written(params, p)
  <2>1. goal[Move(p)] = Inputs(params, hash, Move(p))
    BY <1>3, <1>5, <1>6
  <2>2. Inputs(params, hash, Move(p)) # None
    BY <1>2, InputsAssumption
  <2>3. Inputs(params, hash, Move(p)) = [triggers |-> <<>>, content |-> Written(params, p)]
    BY InputsOf
  <2> QED
    BY <2>1, <2>2, <2>3
<1>10. ASSUME NEW f \in UserFile \ Wanted(params) PROVE goal[Move(f)] = None
  <2>1. goal[Move(f)] = Inputs(params, hash, Move(f))
    BY <1>3, <1>5
  <2>2. f \notin ConfigPath \cup Wanted(params)
    BY PathAssumption
  <2>3. Inputs(params, hash, Move(f)) = None
    BY <2>2, UnaskedInputs
  <2> QED
    BY <2>1, <2>3
<1>11. goal[Uninstall(params.version.flavor)] =
         [triggers |-> VersionTriggers(params.version)]
  <2>1. Inputs(params, hash, Uninstall(params.version.flavor)) =
          [triggers |-> VersionTriggers(params.version)]
    BY InputsOf
  <2> QED
    BY <1>3, <1>4, <2>1
<1>12. AgentGoal(hash)
  BY <1>7, <1>8, <1>9, <1>10, <1>11, InputsOf DEF AgentGoal
<1> QED
  BY <1>2, <1>12

(* The hash tells which files there are and what is in them, whatever the  *)
(* order it lists them in.                                                 *)
LEMMA HashOf ==
  ASSUME NEW pr, NEW hash \in Hashes(pr)
  PROVE  /\ \A i \in DOMAIN hash :
              /\ hash[i][1] \in Wanted(pr)
              /\ hash[i][2] = pr.files[hash[i][1]].content
         /\ \A f \in Wanted(pr) : \E i \in DOMAIN hash : hash[i][1] = f
<1> DEFINE W == Wanted(pr)
           D == 1 .. Cardinality(W)
<1>1. PICK order \in SetToSeqs(W) :
        hash = [i \in DOMAIN order |-> <<order[i], pr.files[order[i]].content>>]
  BY DEF Hashes
<1>2. order \in [D -> W] /\ \A i, j \in D : i # j => order[i] # order[j]
  BY <1>1 DEF SetToSeqs
<1>3. IsFiniteSet(W)
  BY PathAssumption, FS_Subset DEF Wanted
<1>4. Cardinality(W) \in Nat
  BY <1>3, FS_CardinalityType
<1>5. IsFiniteSet(D) /\ Cardinality(D) = Cardinality(W)
  <2>1. IsFiniteSet(D) /\ Cardinality(D) = IF 1 > Cardinality(W) THEN 0
                                           ELSE Cardinality(W) - 1 + 1
    BY <1>4, FS_Interval
  <2> QED
    BY <1>4, <2>1
<1>6. order \in Injection(D, W)
  BY <1>2 DEF Injection, IsInjective
<1>7. order \in Surjection(D, W)
  <2> HIDE DEF D, W
  <2> QED
    BY <1>3, <1>5, <1>6, FS_Injection
<1>8. \A f \in W : \E i \in D : order[i] = f
  BY <1>7 DEF Surjection
<1> HIDE DEF D
<1>9. DOMAIN hash = D /\ \A i \in D : hash[i] = <<order[i], pr.files[order[i]].content>>
  BY <1>1, <1>2
<1> QED
  BY <1>2, <1>8, <1>9

LEMMA SameHash ==
  ASSUME NEW pr, NEW qr, NEW hash \in Hashes(pr) \cap Hashes(qr)
  PROVE  /\ Wanted(pr) = Wanted(qr)
         /\ \A f \in Wanted(pr) : pr.files[f].content = qr.files[f].content
<1>1. /\ \A i \in DOMAIN hash :
           hash[i][1] \in Wanted(pr) /\ hash[i][2] = pr.files[hash[i][1]].content
      /\ \A f \in Wanted(pr) : \E i \in DOMAIN hash : hash[i][1] = f
  BY HashOf
<1>2. /\ \A i \in DOMAIN hash :
           hash[i][1] \in Wanted(qr) /\ hash[i][2] = qr.files[hash[i][1]].content
      /\ \A f \in Wanted(qr) : \E i \in DOMAIN hash : hash[i][1] = f
  BY HashOf
<1>3. \A f \in Wanted(pr) :
        f \in Wanted(qr) /\ pr.files[f].content = qr.files[f].content
  BY <1>1, <1>2
<1>4. \A f \in Wanted(qr) : f \in Wanted(pr)
  BY <1>1, <1>2
<1> QED
  BY <1>3, <1>4

(* The restart on removal is registered for the files that are wanted.     *)
LEMMA CoveredWanted ==
  ASSUME NEW pr, NEW hash \in Hashes(pr), [triggers |-> hash] # None
  PROVE  Covered([triggers |-> hash]) = Wanted(pr)
<1>1. Covered([triggers |-> hash]) = {hash[i][1] : i \in DOMAIN hash}
  BY DEF Covered
<1>2. /\ \A i \in DOMAIN hash : hash[i][1] \in Wanted(pr)
      /\ \A f \in Wanted(pr) : \E i \in DOMAIN hash : hash[i][1] = f
  BY HashOf
<1> QED
  BY <1>1, <1>2

(* The same triggers on the version install the same package.              *)
LEMMA SameScript ==
  ASSUME NEW v, NEW w, VersionTriggers(v) = VersionTriggers(w)
  PROVE  InstallScript(v) = InstallScript(w)
<1>1. /\ v.major = w.major /\ v.minor = w.minor /\ v.pipeline = w.pipeline
      /\ v.flavor = w.flavor /\ v.channel = w.channel
  BY DEF VersionTriggers
<1> QED
  BY <1>1 DEF InstallScript

----------------------------------------------------------------------------
(* What the commands do to the host.                                       *)

PathType(p) == [dest : AnyFile(p), backup : AnyFile(p)]

Host ==
  /\ packages \in [Flavor -> {InstallScript(pr.version) : pr \in Params} \cup {None}]
  /\ DOMAIN disk = Path /\ \A p \in Path : disk[p] \in PathType(p)
  /\ loaded # Stopped => \A p \in Path : loaded[p] \in AnyContent(p)

LEMMA MovedType ==
  ASSUME NEW p, NEW path \in PathType(p)
  PROVE  /\ \A content \in AnyContent(p) :
              /\ MoveFileCreate(path, content) \in PathType(p)
              /\ MoveFileCreate(path, content).dest.content = content
         /\ MoveFileDelete(path) \in PathType(p)
         /\ \A mode \in Mode \cup {"default"} :
              /\ SetMode(path, mode) \in PathType(p)
              /\ SetMode(path, mode).dest.content = path.dest.content
<1>1. path = [dest |-> path.dest, backup |-> path.backup]
      /\ path.dest \in AnyFile(p) /\ path.backup \in AnyFile(p)
  BY DEF PathType
<1>2. NoFile \in AnyContent(p)
  BY DEF AnyContent
<1>3. Missing \in AnyFile(p)
  BY <1>2 DEF Missing, File, AnyFile
<1>4. MoveAside(path) \in PathType(p)
  BY <1>1, <1>3 DEF MoveAside, PathType
<1>5. ASSUME NEW content \in AnyContent(p)
      PROVE  /\ MoveFileCreate(path, content) \in PathType(p)
             /\ MoveFileCreate(path, content).dest.content = content
  <2>1. File(content, "default") \in AnyFile(p)
    BY DEF File, AnyFile
  <2>2. MoveAside(path) \in [dest : AnyFile(p), backup : AnyFile(p)]
    BY <1>4 DEF PathType
  <2>3. /\ CopyOver(MoveAside(path), content) \in [dest : AnyFile(p), backup : AnyFile(p)]
        /\ CopyOver(MoveAside(path), content).dest = File(content, "default")
    BY <2>1, <2>2 DEF CopyOver
  <2> QED
    BY <2>3 DEF MoveFileCreate, PathType, File
<1>6. MoveFileDelete(path) \in PathType(p)
  BY <1>1, <1>3 DEF MoveFileDelete, PutBack, PathType
<1>7. ASSUME NEW mode \in Mode \cup {"default"}
      PROVE  /\ SetMode(path, mode) \in PathType(p)
             /\ SetMode(path, mode).dest.content = path.dest.content
  BY <1>1, <1>7 DEF SetMode, PathType, AnyFile
<1> QED
  BY <1>5, <1>6, <1>7

(* What a file that is wanted holds is a content of its path.              *)
LEMMA WrittenType ==
  ASSUME NEW pr \in Params, NEW p \in ConfigPath \cup Wanted(pr)
  PROVE  Written(pr, p) \in AnyContent(p)
BY DEF AnyContent

(* A command that is ready is one that is registered for an Agent.         *)
LEMMA ReadyAgent ==
  ASSUME TypeOK, Goals, NEW c \in Command, Engine!Ready(c)
  PROVE  /\ phase = "steps" /\ c \notin done /\ goal[c] # None
         /\ params \in Params
         /\ \E hash \in Hashes(params) : AgentGoal(hash)
<1>1. phase = "steps" /\ c \notin done /\ goal[c] # None
  BY DEF Engine!Ready, Engine!Registered
<1> QED
  BY <1>1, NothingAsked, Asked

(* The file of a command that is registered is wanted.                     *)
LEMMA MoveAsked ==
  ASSUME TypeOK, Goals, NEW p \in Path, goal[Move(p)] # None
  PROVE  /\ params \in Params /\ p \in ConfigPath \cup Wanted(params)
         /\ goal[Move(p)].content = Written(params, p)
         /\ Written(params, p) \in AnyContent(p)
<1>1. Move(p) \in Command
  BY Commands
<1>2. PICK hash \in Hashes(params) : params \in Params /\ AgentGoal(hash)
  BY <1>1, NothingAsked, Asked
<1>3. p \in ConfigPath \cup Wanted(params)
  BY <1>2 DEF Path, AgentGoal
<1> QED
  BY <1>2, <1>3, WrittenType DEF AgentGoal

(* What the create command of c may do: remove the package, install the    *)
(* one that is asked for, write one file, or restart the service.          *)
Created(c) ==
  /\ Host'
  /\ \A p \in Path : disk'[p].dest.content =
       IF c = Move(p) THEN goal[c].content ELSE disk[p].dest.content
  /\ \/ c # Restart /\ loaded' = loaded
     \/ loaded' = Stopped
     \/ c = Restart /\ \A p \in Path : loaded'[p] = disk[p].dest.content
  /\ \A fl \in Flavor :
       \/ hidden'
       \/ packages'[fl] = packages[fl] /\ c # Uninstall(fl)
       \/ packages'[fl] = None
       \/ /\ c = Install /\ fl = params.version.flavor
          /\ packages'[fl] = InstallScript(params.version)

LEMMA RunsCreate ==
  ASSUME TypeOK, Functions, Goals, NEW c \in Command, Engine!Ready(c),
         RunCreate(c, goal[c])
  PROVE  Created(c)
<1> USE ReadyAgent
<1>1. Host
  BY DEF TypeOK, Functions, Host, PathType
<1>2. \A p \in Path : disk[p] \in PathType(p)
  BY <1>1 DEF Host
<1>4. CASE c[1] = "uninstall" /\ RemovePackage(c[2])
  <2>1. c[2] \in Flavor /\ c = Uninstall(c[2])
    BY <1>4, Commands, Names
  <2>2. /\ packages' = [packages EXCEPT ![c[2]] = None] /\ disk' = disk
        /\ loaded' = loaded \/ loaded' = Stopped
    BY <1>4 DEF RemovePackage
  <2>3. Host'
    BY <1>1, <2>1, <2>2 DEF Host
  <2>4. \A fl \in Flavor :
          packages'[fl] = None \/ (packages'[fl] = packages[fl] /\ c # Uninstall(fl))
    <3>1. \A fl \in Flavor : c = Uninstall(fl) => fl = c[2]
      BY Names
    <3> QED
      BY <1>1, <2>1, <2>2, <3>1 DEF Host
  <2>5. \A p \in Path : c # Move(p)
    BY <1>4, Names
  <2>6. c # Restart
    BY <1>4, Names
  <2> QED
    BY <2>2, <2>3, <2>4, <2>5, <2>6 DEF Created
<1>5. CASE c = Install /\ InstallPackage(goal[c])
  <2>1. /\ params \in Params /\ params.version.flavor \in Flavor
        /\ goal[c].script = InstallScript(params.version)
        /\ goal[c].flavor = params.version.flavor
    BY <1>5, FlavorAssumption DEF AgentGoal
  <2>2. /\ packages' = [packages EXCEPT ![params.version.flavor] = InstallScript(params.version)]
        /\ disk' = disk /\ loaded' = loaded
    BY <1>5, <2>1 DEF InstallPackage
  <2>3. Host'
    BY <1>1, <2>1, <2>2 DEF Host
  <2>4. \A fl \in Flavor :
          \/ packages'[fl] = packages[fl] /\ c # Uninstall(fl)
          \/ fl = params.version.flavor /\ packages'[fl] = InstallScript(params.version)
    BY <1>1, <1>5, <2>1, <2>2, Names DEF Host
  <2>5. (\A p \in Path : c # Move(p)) /\ c # Restart
    BY <1>5, Names
  <2> QED
    BY <1>5, <2>2, <2>3, <2>4, <2>5 DEF Created
<1>6. CASE c[1] = "move-file" /\ WritePath(c[2], MoveFileCreate(disk[c[2]], goal[c].content))
  <2> DEFINE q == c[2]
  <2>1. q \in Path /\ c = Move(q) /\ \A p : c = Move(p) <=> p = q
    BY <1>6, Commands, Names
  <2>2. goal[c].content \in AnyContent(q)
    BY <2>1, MoveAsked
  <2>3. /\ disk' = [disk EXCEPT ![q] = MoveFileCreate(disk[q], goal[c].content)]
        /\ packages' = packages /\ loaded' = loaded
    BY <1>6 DEF WritePath
  <2>4. /\ MoveFileCreate(disk[q], goal[c].content) \in PathType(q)
        /\ MoveFileCreate(disk[q], goal[c].content).dest.content = goal[c].content
    BY <1>2, <2>1, <2>2, MovedType
  <2>5. Host'
    BY <1>1, <2>1, <2>3, <2>4 DEF Host
  <2>6. \A p \in Path : disk'[p].dest.content =
          IF c = Move(p) THEN goal[c].content ELSE disk[p].dest.content
    BY <1>1, <2>1, <2>3, <2>4 DEF Host
  <2>7. (\A fl \in Flavor : c # Uninstall(fl)) /\ c # Restart
    BY <1>6, Names
  <2> QED
    BY <2>3, <2>5, <2>6, <2>7 DEF Created
<1>7. CASE c[1] = "set-permissions" /\ ChangeMode(c[2], c[3])
  <2> DEFINE q == c[2]
  <2>1. q \in Path /\ c[3] \in Mode
    BY <1>7, Commands, Names DEF Path
  <2>2. /\ disk' = [disk EXCEPT ![q] = SetMode(disk[q], c[3])]
        /\ packages' = packages /\ loaded' = loaded
    BY <1>7 DEF ChangeMode
  <2>3. /\ SetMode(disk[q], c[3]) \in PathType(q)
        /\ SetMode(disk[q], c[3]).dest.content = disk[q].dest.content
    <3>1. disk[q] \in PathType(q) /\ c[3] \in Mode \cup {"default"}
      BY <1>2, <2>1
    <3> QED
      BY <3>1, MovedType
  <2>4. Host'
    BY <1>1, <2>1, <2>2, <2>3 DEF Host
  <2>5. \A p \in Path : disk'[p].dest.content = disk[p].dest.content
    BY <1>1, <2>1, <2>2, <2>3 DEF Host
  <2>6. /\ \A fl \in Flavor : c # Uninstall(fl)
        /\ \A p \in Path : c # Move(p)
        /\ c # Restart
    BY <1>7, Names
  <2> QED
    BY <2>2, <2>4, <2>5, <2>6 DEF Created
<1>8. CASE c = Restart /\ RestartService
  <2>1. /\ loaded' = [p \in Path |-> disk[p].dest.content]
        /\ packages' = packages /\ disk' = disk
    BY <1>8 DEF RestartService
  <2>2. \A p \in Path : disk[p].dest.content \in AnyContent(p)
    BY <1>2 DEF PathType, AnyFile
  <2>3. Host'
    BY <1>1, <2>1, <2>2 DEF Host
  <2>4. (\A fl \in Flavor : c # Uninstall(fl)) /\ \A p \in Path : c # Move(p)
    BY <1>8, Names
  <2> QED
    BY <1>8, <2>1, <2>3, <2>4 DEF Created
<1>9. CASE c = OnRemoval /\ UNCHANGED host
  <2>1. packages' = packages /\ disk' = disk /\ loaded' = loaded
    BY <1>9 DEF host
  <2>2. Host'
    BY <1>1, <2>1 DEF Host
  <2>3. /\ \A fl \in Flavor : c # Uninstall(fl)
        /\ \A p \in Path : c # Move(p)
        /\ c # Restart
    BY <1>9, Names
  <2> QED
    BY <2>1, <2>2, <2>3 DEF Created
<1> QED
  BY <1>4, <1>5, <1>6, <1>7, <1>8, <1>9 DEF RunCreate

(* What the delete command of c may do: remove a file, or restart the      *)
(* service.                                                                *)
Deleted(c) ==
  /\ Host' /\ packages' = packages
  /\ \A p \in Path : c # Move(p) => disk'[p].dest.content = disk[p].dest.content
  /\ \/ c # OnRemoval /\ loaded' = loaded
     \/ c = OnRemoval /\ \A p \in Path : loaded'[p] = disk[p].dest.content

LEMMA RunsDelete ==
  ASSUME TypeOK, Functions, NEW c \in Command, RunDelete(c)
  PROVE  Deleted(c)
<1>1. Host
  BY DEF TypeOK, Functions, Host, PathType
<1>2. \A p \in Path : disk[p] \in PathType(p)
  BY <1>1 DEF Host
<1>3. CASE c[1] = "move-file" /\ WritePath(c[2], MoveFileDelete(disk[c[2]]))
  <2> DEFINE q == c[2]
  <2>1. q \in Path /\ c = Move(q)
    BY <1>3, Commands, Names
  <2>2. /\ disk' = [disk EXCEPT ![q] = MoveFileDelete(disk[q])]
        /\ packages' = packages /\ loaded' = loaded
    BY <1>3 DEF WritePath
  <2>3. MoveFileDelete(disk[q]) \in PathType(q)
    BY <1>2, <2>1, MovedType
  <2>4. Host'
    BY <1>1, <2>1, <2>2, <2>3 DEF Host
  <2> QED
    BY <1>1, <1>3, <2>1, <2>2, <2>4, Names DEF Host, Deleted
<1>4. CASE c[1] = "set-permissions" /\ ChangeMode(c[2], "default")
  <2> DEFINE q == c[2]
  <2>1. q \in Path
    BY <1>4, Commands, Names DEF Path
  <2>2. /\ disk' = [disk EXCEPT ![q] = SetMode(disk[q], "default")]
        /\ packages' = packages /\ loaded' = loaded
    BY <1>4 DEF ChangeMode
  <2>3. /\ SetMode(disk[q], "default") \in PathType(q)
        /\ SetMode(disk[q], "default").dest.content = disk[q].dest.content
    <3>1. disk[q] \in PathType(q) /\ "default" \in Mode \cup {"default"}
      BY <1>2, <2>1
    <3> QED
      BY <3>1, MovedType
  <2>4. Host'
    BY <1>1, <2>1, <2>2, <2>3 DEF Host
  <2> QED
    BY <1>1, <1>4, <2>1, <2>2, <2>3, <2>4, Names DEF Host, Deleted
<1>5. CASE c = OnRemoval /\ RestartService
  <2>1. /\ loaded' = [p \in Path |-> disk[p].dest.content]
        /\ packages' = packages /\ disk' = disk
    BY <1>5 DEF RestartService
  <2>2. \A p \in Path : disk[p].dest.content \in AnyContent(p)
    BY <1>2 DEF PathType, AnyFile
  <2>3. Host'
    BY <1>1, <2>1, <2>2 DEF Host
  <2> QED
    BY <1>5, <2>1, <2>3 DEF Deleted
<1>6. CASE (c[1] = "uninstall" \/ c \in {Install, Restart}) /\ UNCHANGED host
  <2>1. packages' = packages /\ disk' = disk /\ loaded' = loaded
    BY <1>6 DEF host
  <2>2. Host'
    BY <1>1, <2>1 DEF Host
  <2>3. c # OnRemoval
    BY <1>6, Names
  <2> QED
    BY <2>1, <2>2, <2>3 DEF Deleted
<1> QED
  BY <1>3, <1>4, <1>5, <1>6 DEF RunDelete

----------------------------------------------------------------------------
(* What a command that is ready, or that may be deleted, has waited for.   *)

LEMMA Waits ==
  /\ \A fl \in Flavor : Uninstall(fl) \in DependsOn[Install]
  /\ \A p \in Path : Move(p) \in DependsOn[Restart]
  /\ \A f \in UserFile : OnRemoval \in DependsOn[Move(f)]
<1>1. \A c \in Command : DependsOn[c] = WaitsFor(c)
  BY DEF DependsOn
<1>2. ASSUME NEW fl \in Flavor PROVE Uninstall(fl) \in DependsOn[Install]
  <2>1. Install # Restart /\ Install[1] # "move-file" /\ Install[1] # "set-permissions"
    BY Names
  <2>2. WaitsFor(Install) = {Uninstall(x) : x \in Flavor}
    BY <2>1, Zenon DEF WaitsFor
  <2> QED
    BY <1>1, <2>2, Commands
<1>3. ASSUME NEW p \in Path PROVE Move(p) \in DependsOn[Restart]
  <2>1. Install # Restart /\ Restart[1] # "move-file" /\ Restart[1] # "set-permissions"
    BY Names
  <2>2. WaitsFor(Restart) = Children
    BY <2>1, Zenon DEF WaitsFor
  <2> QED
    BY <1>1, <2>2, Commands DEF Children
<1>4. ASSUME NEW f \in UserFile PROVE OnRemoval \in DependsOn[Move(f)]
  <2>1. /\ Install # Move(f) /\ Move(f) # Restart
        /\ Move(f)[1] = "move-file" /\ Move(f)[2] = f
    BY Names
  <2>2. WaitsFor(Move(f)) = IF f \in UserFile THEN {Install, OnRemoval} ELSE {Install}
    BY <2>1, Zenon DEF WaitsFor
  <2>3. Move(f) \in Command
    BY Commands DEF Path
  <2> QED
    BY <1>1, <2>2, <2>3
<1> QED
  BY <1>2, <1>3, <1>4

(* What is registered and done is in the stack as the Agent's parameters   *)
(* say.                                                                    *)
LEMMA WatchedWanted ==
  ASSUME TypeOK, Goals, Recorded, params # NoAgent, OnRemoval \in done
  PROVE  Covered(checkpoint[OnRemoval]) = Wanted(params)
<1>1. PICK hash \in Hashes(params) : AgentGoal(hash)
  BY Asked
<1>2. checkpoint[OnRemoval] = [triggers |-> hash] /\ [triggers |-> hash] # None
  BY <1>1 DEF AgentGoal, Recorded
<1> QED
  BY <1>2, CoveredWanted

LEMMA InstallReady ==
  ASSUME TypeOK, Goals, Recorded, Engine!Ready(Install)
  PROVE  checkpoint[Uninstall(params.version.flavor)].triggers = VersionTriggers(params.version)
<1> DEFINE u == Uninstall(params.version.flavor)
<1>1. PICK hash \in Hashes(params) : params \in Params /\ AgentGoal(hash)
  BY Commands, ReadyAgent
<1>2. u \in Command /\ u \in DependsOn[Install] /\ goal[u] # None
  BY <1>1, FlavorAssumption, Commands, Waits DEF AgentGoal
<1>3. u \in done
  BY <1>2 DEF Engine!Ready, Engine!Registered
<1>4. checkpoint[u] = [triggers |-> VersionTriggers(params.version)]
  BY <1>1, <1>3 DEF AgentGoal, Recorded
<1> QED
  BY <1>4

LEMMA MoveReady ==
  ASSUME TypeOK, Goals, Recorded, NEW f \in UserFile, Engine!Ready(Move(f))
  PROVE  f \in Covered(checkpoint[OnRemoval])
<1>1. f \in Path /\ f \notin ConfigPath /\ Move(f) \in Command
  BY PathAssumption, Commands DEF Path
<1>2. PICK hash \in Hashes(params) : params \in Params /\ AgentGoal(hash)
  BY <1>1, ReadyAgent
<1>3. goal[Move(f)] # None /\ params # NoAgent
  BY <1>1, ReadyAgent, NothingAsked
<1>4. OnRemoval \in done
  BY <1>2, Commands, Waits DEF AgentGoal, Engine!Ready, Engine!Registered
<1>5. f \in Wanted(params)
  BY <1>1, <1>3, MoveAsked
<1> QED
  BY <1>3, <1>4, <1>5, WatchedWanted

(* When all that is wanted is done, what the files hold is what is asked.  *)
LEMMA WantedMoved ==
  ASSUME TypeOK, Goals, Moved, params # NoAgent,
         \A p \in Path : goal[Move(p)] # None => Move(p) \in done
  PROVE  /\ \A p \in ConfigPath \cup Wanted(params) :
              p \in Path /\ disk[p].dest.content = Written(params, p)
         /\ \A p \in Path : goal[Move(p)] # None =>
              disk[p].dest.content = goal[Move(p)].content
<1>1. PICK hash \in Hashes(params) : AgentGoal(hash)
  BY Asked
<1>2. ConfigPath \cup Wanted(params) \subseteq Path
  BY DEF Wanted, Path
<1>3. \A p \in ConfigPath \cup Wanted(params) :
        goal[Move(p)] # None /\ goal[Move(p)].content = Written(params, p)
  BY <1>1 DEF AgentGoal
<1> QED
  BY <1>2, <1>3 DEF Moved

LEMMA RestartReady ==
  ASSUME Engine!Ready(Restart)
  PROVE  \A p \in Path : goal[Move(p)] # None => Move(p) \in done
BY Commands, Waits DEF Engine!Ready, Engine!Registered

(* A command that is condemned is left from a replacement, or is no longer *)
(* registered.                                                             *)
LEMMA IsCondemned ==
  ASSUME Recorded, NEW x \in Engine!Condemned
  PROVE  /\ x[1] \in Command
         /\ x \in stale \/ (goal[x[1]] = None /\ checkpoint[x[1]] # None)
         /\ x[1] \in Moves => x \notin stale
BY DEF Engine!Condemned, Recorded

(* When the deletions run, all that is registered is done.                 *)
LEMMA DeletesLast ==
  ASSUME Phases, NEW x, Engine!Deletable(x), NEW c \in Command, goal[c] # None
  PROVE  c \in done
BY DEF Phases, Engine!Deletable, Engine!Registered

(* The restart on removal is deleted when no file is left to be removed.   *)
LEMMA FilesRemoved ==
  ASSUME NEW x, Engine!Deletable(x), x[1] = OnRemoval,
         NEW f \in UserFile, checkpoint[Move(f)] # None
  PROVE  goal[Move(f)] # None
<1>1. Move(f) \in Command /\ OnRemoval \in DependsOn[Move(f)]
  BY Commands, Waits DEF Path
<1>2. SUFFICES ASSUME goal[Move(f)] = None PROVE FALSE
  OBVIOUS
<1>3. <<Move(f), checkpoint[Move(f)]>> \in Engine!Condemned
  BY <1>1, <1>2 DEF Engine!Condemned
<1> QED
  BY <1>1, <1>3 DEF Engine!Deletable

----------------------------------------------------------------------------
(* The steps.                                                              *)

LEMMA InitInductive == Init => Inductive
<1> SUFFICES ASSUME Init PROVE Inductive
  OBVIOUS
<1>1. /\ \A c \in Command : goal[c] = None /\ checkpoint[c] = None
      /\ goal = [c \in Command |-> None] /\ checkpoint = [c \in Command |-> None]
      /\ stale = {} /\ done = {} /\ phase = "idle" /\ outcome = "none"
      /\ params = NoAgent /\ restarted = "no" /\ hidden = FALSE /\ loaded = Stopped
  BY DEF Init, Engine!EngineInit
<1>2. TypeOK
  <2>1. \A p \in Path : disk[p] \in [dest : AnyFile(p), backup : AnyFile(p)]
    BY DEF Init, Untouched, File, Missing, AnyFile, AnyContent
  <2>2. packages \in [Flavor -> {InstallScript(pr.version) : pr \in Params} \cup {None}]
    BY DEF Init
  <2> QED
    BY <1>1, <2>1, <2>2 DEF TypeOK
<1>3. Functions
  BY <1>1 DEF Init, Functions
<1>4. Goals
  BY <1>1 DEF Goals, Goal
<1>5. Phases
  BY <1>1 DEF Phases
<1>6. Recorded /\ Moved
  BY <1>1 DEF Recorded, Moved
<1>7. Versions /\ Watched /\ Unwatched /\ Restarted
  BY <1>1, Commands DEF Versions, Watched, Unwatched, Restarted, Path
<1> QED
  BY <1>2, <1>3, <1>4, <1>5, <1>6, <1>7 DEF Inductive

(* A new update.                                                           *)
LEMMA DeployInductive ==
  ASSUME Inductive, NEW pr \in Params \cup {NoAgent}, Deploy(pr)
  PROVE  Inductive'
<1> USE DEF Inductive
<1>1. /\ phase = "idle" /\ phase' = "steps" /\ done' = {}
      /\ checkpoint' = checkpoint /\ stale' = stale
      /\ packages' = packages /\ disk' = disk /\ loaded' = loaded
      /\ params' = pr /\ outcome' = "running" /\ hidden' = hidden
      /\ restarted' = IF restarted = "stray" THEN "stray" ELSE "no"
      /\ \E hash \in IF pr = NoAgent THEN {<<>>} ELSE Hashes(pr) : goal' = Goal(pr, hash)
  BY DEF Deploy, Engine!Begin, host
<1>2. TypeOK' /\ Functions'
  BY <1>1 DEF TypeOK, Functions
<1>3. Goals'
  BY <1>1 DEF Goals
<1>4. Phases'
  BY <1>1 DEF Phases
<1>5. Recorded' /\ Moved'
  BY <1>1 DEF Recorded, Moved
<1>6. Versions' /\ Watched' /\ Unwatched'
  BY <1>1 DEF Versions, Watched, Unwatched, RestartsLater
<1>7. ASSUME checkpoint[Restart] # None, params = NoAgent, restarted = "yes"
      PROVE  FALSE
  <2>1. outcome = "ok"
    BY <1>1, <1>7 DEF Phases, TypeOK
  <2>2. goal[Restart] = None
    BY <1>7, Commands, NothingAsked
  <2>3. <<Restart, checkpoint[Restart]>> \in Engine!Condemned
    BY <1>7, <2>2, Commands DEF Engine!Condemned
  <2> QED
    BY <2>1, <2>3 DEF Phases
<1>8. Restarted'
  <2> SUFFICES ASSUME checkpoint'[Restart] # None PROVE Restarted'
    BY DEF Restarted
  <2>1. PICK qr \in Params : \E hash \in Hashes(qr) :
          /\ checkpoint[Restart] = [triggers |-> RestartTriggers(qr, hash)]
          /\ \/ loaded = Stopped \/ restarted = "stray"
             \/ params = NoAgent /\ restarted = "yes"
             \/ \A p \in ConfigPath \cup Wanted(qr) : loaded[p] = Written(qr, p)
    BY <1>1 DEF Restarted
  <2> QED
    BY <1>1, <1>7, <2>1 DEF Restarted
<1> QED
  BY <1>2, <1>3, <1>4, <1>5, <1>6, <1>8

(* A step that neither acts on the host nor changes the stack.             *)
Quiet ==
  /\ checkpoint' = checkpoint /\ stale' = stale /\ goal' = goal
  /\ packages' = packages /\ disk' = disk /\ loaded' = loaded
  /\ params' = params /\ hidden' = hidden
  /\ restarted' = restarted \/ restarted' = "stray"

LEMMA QuietInductive ==
  ASSUME Inductive, Quiet, Phases', phase' \in {"idle", "steps", "deletes"},
         outcome' \in {"none", "running", "ok", "failed"},
         \A c \in done' : c \in done \/ (/\ c \in Engine!Registered \ Moves
                                         /\ checkpoint[c] = goal[c])
  PROVE  Inductive'
<1> USE DEF Inductive, Quiet
<1>1. TypeOK' /\ Functions'
  BY DEF TypeOK, Functions, Engine!Registered
<1>2. Goals'
  BY DEF Goals
<1>3. Recorded'
  BY DEF Recorded
<1>4. Moved'
  BY DEF Moved, Moves
<1>5. Versions' /\ Watched' /\ Unwatched'
  BY DEF Versions, Watched, Unwatched, RestartsLater
<1>6. Restarted'
  BY DEF Restarted
<1> QED
  BY <1>1, <1>2, <1>3, <1>4, <1>5, <1>6

LEMMA QuietSteps ==
  ASSUME Inductive,
         \/ \E c \in Command : KeepCommand(c)
         \/ StartDeletes \/ EndUpdate \/ CommandRefused \/ FailBefore
         \/ UNCHANGED vars
  PROVE  Inductive'
<1> USE DEF Inductive
<1>1. CASE \E c \in Command : KeepCommand(c)
  <2>1. PICK c \in Command : KeepCommand(c)
    BY <1>1
  <2>2. Quiet /\ phase' = phase /\ outcome' = outcome /\ restarted' = restarted
    BY <2>1 DEF KeepCommand, Engine!Keep, Quiet, host, ghosts
  <2>3. /\ phase = "steps" /\ c \in Engine!Registered \ Moves
        /\ checkpoint[c] = goal[c] /\ done' = done \cup {c}
    BY <2>1 DEF KeepCommand, Engine!Keep, Engine!Ready, Engine!MustReplace, Engine!MustUpdate
  <2>4. Phases'
    BY <2>2, <2>3 DEF Phases, Quiet
  <2> QED
    BY <2>2, <2>3, <2>4, QuietInductive DEF TypeOK
<1>2. CASE StartDeletes
  <2>1. Quiet /\ phase' = "deletes" /\ outcome' = outcome /\ done' = done
    BY <1>2 DEF StartDeletes, Engine!StartDeletes, Quiet, host, ghosts
  <2>2. Engine!Registered' \subseteq done' /\ phase = "steps"
    BY <1>2, <2>1 DEF StartDeletes, Engine!StartDeletes, Quiet, Engine!Registered
  <2>3. Phases'
    BY <2>1, <2>2 DEF Phases
  <2> QED
    BY <2>1, <2>3, QuietInductive DEF TypeOK
<1>3. CASE EndUpdate
  <2>1. /\ Quiet /\ phase' = "idle" /\ outcome' = "ok" /\ done' = done
        /\ phase = "deletes" /\ Engine!Condemned = {}
    BY <1>3 DEF EndUpdate, Engine!EndUpdate, Quiet, host, ghosts
  <2>2. Engine!Registered' \subseteq done' /\ Engine!Condemned' = {}
    BY <2>1 DEF Phases, Quiet, Engine!Registered, Engine!Condemned
  <2>3. Phases'
    BY <2>1, <2>2 DEF Phases
  <2> QED
    BY <2>1, <2>3, QuietInductive
<1>4. CASE CommandRefused \/ FailBefore
  <2>1. /\ Quiet /\ phase' = "idle" /\ outcome' = "failed" /\ done' = done
        /\ restarted' # "yes"
    BY <1>4 DEF CommandRefused, FailBefore, Fail, Engine!Abort, Quiet, host
  <2>2. Phases'
    BY <2>1 DEF Phases
  <2> QED
    BY <2>1, <2>2, QuietInductive
<1>5. CASE UNCHANGED vars
  <2>1. Quiet /\ phase' = phase /\ outcome' = outcome /\ done' = done /\ restarted' = restarted
    BY <1>5 DEF vars, engineVars, host, ghosts, Quiet
  <2>2. Phases'
    BY <2>1 DEF Quiet, Phases, Engine!Registered, Engine!Condemned
  <2> QED
    BY <2>1, <2>2, QuietInductive DEF TypeOK
<1> QED
  BY <1>1, <1>2, <1>3, <1>4, <1>5

(* What running a create command leaves true, whether the engine records   *)
(* it (the command is in done' and in checkpoint') or not.                 *)
LEMMA CreatedKeeps ==
  ASSUME Inductive, NEW c \in Command, Engine!Ready(c), Created(c),
         params' = params, hidden' \/ hidden' = hidden, goal' = goal,
         \/ checkpoint' = checkpoint
         \/ DOMAIN checkpoint' = Command /\ checkpoint'[c] = goal[c]
            /\ \A d \in Command \ {c} : checkpoint'[d] = checkpoint[d]
  PROVE  Functions' /\ Goals' /\ Versions'
<1> USE DEF Inductive
<1>1. Functions'
  BY DEF Functions, Created, Host
<1>2. Goals'
  BY DEF Goals
<1>3. Versions'
  <2> SUFFICES ASSUME ~hidden', NEW fl \in Flavor, checkpoint'[Uninstall(fl)] # None
               PROVE  \/ packages'[fl] = None
                      \/ \E pr \in Params :
                           /\ checkpoint'[Uninstall(fl)].triggers = VersionTriggers(pr.version)
                           /\ packages'[fl] = InstallScript(pr.version)
    BY DEF Versions
  <2>1. Uninstall(fl) \in Command
    BY Commands
  <2>2. CASE packages'[fl] = packages[fl] /\ c # Uninstall(fl)
    BY <2>1, <2>2 DEF Versions
  <2>3. CASE /\ c = Install /\ fl = params.version.flavor
             /\ packages'[fl] = InstallScript(params.version)
    <3>1. checkpoint'[Uninstall(fl)] = checkpoint[Uninstall(fl)]
      BY <2>1, <2>3, Names
    <3>2. checkpoint[Uninstall(fl)].triggers = VersionTriggers(params.version)
      BY <2>3, InstallReady
    <3> QED
      BY <2>3, <3>1, <3>2, ReadyAgent
  <2> QED
    BY <2>2, <2>3 DEF Created
<1> QED
  BY <1>1, <1>2, <1>3

LEMMA CreatedUnwatched ==
  ASSUME Inductive, NEW c \in Command, Engine!Ready(c), Created(c),
         ~RestartsLater' => ~RestartsLater,
         ~RestartsLater' => Covered(checkpoint[OnRemoval]) \subseteq Covered(checkpoint'[OnRemoval])
  PROVE  Unwatched'
<1> USE DEF Inductive
<1> SUFFICES ASSUME ~RestartsLater', loaded' # Stopped,
                    NEW f \in UserFile, f \notin Covered(checkpoint'[OnRemoval])
             PROVE  loaded'[f] = disk'[f].dest.content
  BY DEF Unwatched
<1>1. f \in Path /\ f \notin Covered(checkpoint[OnRemoval]) /\ ~RestartsLater
  BY DEF Path
<1>2. c # Move(f)
  BY <1>1, MoveReady
<1>3. disk'[f].dest.content = disk[f].dest.content
  BY <1>1, <1>2 DEF Created
<1>4. CASE loaded' = loaded
  BY <1>1, <1>3, <1>4 DEF Unwatched
<1>5. CASE \A p \in Path : loaded'[p] = disk[p].dest.content
  BY <1>1, <1>3, <1>5
<1> QED
  BY <1>4, <1>5 DEF Created

(* A command runs and the engine records it.                               *)
Executed(c) ==
  /\ Engine!Ready(c) /\ Created(c)
  /\ DOMAIN checkpoint' = Command /\ checkpoint'[c] = goal[c]
  /\ \A d \in Command \ {c} : checkpoint'[d] = checkpoint[d]
  /\ done' = done \cup {c}
  /\ \/ /\ stale' = stale
        /\ c \in Moves \/ checkpoint[c] = None \/ checkpoint[c].triggers = goal[c].triggers
     \/ stale' = stale \cup {<<c, checkpoint[c]>>} /\ c \notin Moves
  /\ goal' = goal /\ phase' = phase /\ params' = params /\ outcome' = outcome
  /\ hidden' \in BOOLEAN /\ (hidden' \/ hidden' = hidden)
  /\ c # Restart => restarted' = restarted
  /\ restarted' \in {restarted, "yes"}

LEMMA ExecutedInductive ==
  ASSUME Inductive, NEW c \in Command, Executed(c)
  PROVE  Inductive'
<1> USE DEF Inductive
<1>1. /\ Engine!Ready(c) /\ Created(c) /\ phase = "steps" /\ phase' = "steps"
      /\ c \notin done /\ goal[c] # None /\ params \in Params /\ params # NoAgent
      /\ Engine!Registered' = Engine!Registered /\ c \in Engine!Registered
  BY ReadyAgent, NothingAsked DEF Executed, Engine!Registered
<1>2. TypeOK'
  BY <1>1 DEF Executed, Created, Host, PathType, TypeOK
<1>3. Functions' /\ Goals' /\ Versions'
  BY <1>1, CreatedKeeps DEF Executed
<1>4. Phases'
  BY <1>1 DEF Executed, Phases
<1>5. Recorded'
  BY <1>1 DEF Executed, Recorded, TypeOK, Engine!Registered
<1>6. Moved'
  <2> SUFFICES ASSUME NEW p \in Path, Move(p) \in done'
               PROVE  disk'[p].dest.content = goal'[Move(p)].content
    BY DEF Moved
  <2> QED
    BY <1>1 DEF Executed, Created, Moved
<1>7. ASSUME ~RestartsLater'
      PROVE  /\ ~RestartsLater
             /\ Covered(checkpoint[OnRemoval]) \subseteq Covered(checkpoint'[OnRemoval])
  <2>1. ~RestartsLater
    BY <1>7 DEF Executed, RestartsLater
  <2>2. CASE c # OnRemoval
    BY <2>1, <2>2, Commands DEF Executed
  <2>3. CASE c = OnRemoval
    <3>1. OnRemoval \notin Moves
      BY Names DEF Moves
    <3>2. checkpoint[c] = None \/ checkpoint[c].triggers = goal[c].triggers
      <4>1. <<c, checkpoint[c]>> \in stale' => RestartsLater'
        BY <2>3 DEF RestartsLater
      <4> QED
        BY <1>7, <2>3, <3>1, <4>1 DEF Executed
    <3> QED
      BY <1>1, <2>1, <2>3, <3>2 DEF Executed, Covered
  <2> QED
    BY <2>2, <2>3
<1>8. Watched'
  <2> SUFFICES ASSUME ~RestartsLater', NEW f \in UserFile, checkpoint'[Move(f)] # None
               PROVE  f \in Covered(checkpoint'[OnRemoval])
    BY DEF Watched
  <2>1. Move(f) \in Command
    BY Commands DEF Path
  <2>2. CASE c = Move(f)
    BY <1>1, <1>7, <2>2, MoveReady
  <2>3. CASE c # Move(f)
    BY <1>7, <2>1, <2>3 DEF Executed, Watched
  <2> QED
    BY <2>2, <2>3
<1>9. Unwatched'
  BY <1>1, <1>7, CreatedUnwatched
<1>10. Restarted'
  <2>1. CASE c # Restart
    <3>1. /\ checkpoint'[Restart] = checkpoint[Restart] /\ restarted' = restarted
          /\ params' = params /\ loaded' \in {loaded, Stopped}
      BY <1>1, <2>1, Commands DEF Executed, Created
    <3> QED
      BY <3>1 DEF Restarted
  <2>2. CASE c = Restart
    <3>1. PICK hash \in Hashes(params) : AgentGoal(hash)
      BY <1>1, Asked
    <3>2. checkpoint'[Restart] = [triggers |-> RestartTriggers(params, hash)]
      BY <2>2, <3>1 DEF AgentGoal, Executed
    <3>3. \A p \in ConfigPath \cup Wanted(params) :
            p \in Path /\ disk[p].dest.content = Written(params, p)
      BY <1>1, <2>2, RestartReady, WantedMoved
    <3>4. loaded' = Stopped \/ \A p \in ConfigPath \cup Wanted(params) : loaded'[p] = Written(params, p)
      BY <1>1, <2>2, <3>3 DEF Created
    <3> QED
      BY <1>1, <3>2, <3>4 DEF Restarted
  <2> QED
    BY <2>1, <2>2
<1> QED
  BY <1>2, <1>3, <1>4, <1>5, <1>6, <1>8, <1>9, <1>10

LEMMA ExecutedSteps ==
  ASSUME Inductive, NEW c \in Command, CreateCommand(c) \/ UpdateCommand(c)
  PROVE  Inductive'
<1> USE DEF Inductive
<1>1. Engine!Ready(c) /\ RunCreate(c, goal[c])
  BY DEF CreateCommand, UpdateCommand, Engine!Create, Engine!Replace, Engine!Update
<1>2. Created(c)
  BY <1>1, RunsCreate
<1>3. /\ checkpoint' = [checkpoint EXCEPT ![c] = goal[c]] /\ done' = done \cup {c}
      /\ phase' = phase /\ goal' = goal
  BY DEF CreateCommand, UpdateCommand, Engine!Create, Engine!Replace, Engine!Update,
         Engine!NewInState
<1>4. \/ /\ stale' = stale
         /\ c \in Moves \/ checkpoint[c] = None \/ checkpoint[c].triggers = goal[c].triggers
      \/ stale' = stale \cup {<<c, checkpoint[c]>>} /\ c \notin Moves
  BY DEF CreateCommand, UpdateCommand, Engine!Create, Engine!Replace, Engine!Update,
         Engine!MustUpdate, Engine!MustReplace
<1>5. /\ params' = params /\ outcome' = outcome /\ hidden' = hidden
      /\ c # Restart => restarted' = restarted
      /\ restarted' \in {restarted, "yes"}
  BY DEF CreateCommand, UpdateCommand, ghosts
<1>6. Executed(c)
  BY <1>1, <1>2, <1>3, <1>4, <1>5 DEF Executed, Functions, TypeOK
<1> QED
  BY <1>6, ExecutedInductive

(* A removal that fails unnoticed.                                         *)
LEMMA HideInductive ==
  ASSUME Inductive, NEW fl \in Flavor, HideRemoval(fl)
  PROVE  Inductive'
<1> USE DEF Inductive
<1> DEFINE c == Uninstall(fl)
<1>1. c \in Command /\ c # Restart /\ \A p : c # Move(p)
  BY Commands, Names
<1>2. Engine!Ready(c)
  BY DEF HideRemoval, Engine!Create, Engine!Replace
<1>3. /\ checkpoint' = [checkpoint EXCEPT ![c] = goal[c]] /\ done' = done \cup {c}
      /\ phase' = phase /\ goal' = goal
  BY DEF HideRemoval, Engine!Create, Engine!Replace, Engine!NewInState
<1>4. \/ stale' = stale /\ checkpoint[c] = None
      \/ stale' = stale \cup {<<c, checkpoint[c]>>} /\ c \notin Moves
  BY DEF HideRemoval, Engine!Create, Engine!Replace
<1>5. /\ params' = params /\ outcome' = outcome /\ restarted' = restarted
      /\ packages' = packages /\ disk' = disk /\ loaded' \in {loaded, Stopped}
      /\ hidden' = TRUE
  BY DEF HideRemoval
<1>6. Host'
  BY <1>5 DEF TypeOK, Functions, Host, PathType
<1>7. Created(c)
  BY <1>1, <1>5, <1>6 DEF Created
<1>8. Executed(c)
  BY <1>1, <1>2, <1>3, <1>4, <1>5, <1>7 DEF Executed, Functions
<1> QED
  BY <1>1, <1>8, ExecutedInductive

(* A command runs and the engine does not record it.                       *)
LEMMA FailAfterCreateInductive ==
  ASSUME Inductive, NEW c \in Command, FailAfterCreate(c)
  PROVE  Inductive'
<1> USE DEF Inductive
<1>1. Engine!Ready(c) /\ RunCreate(c, goal[c]) /\ Fail(restarted = "yes" \/ c = Restart)
  BY DEF FailAfterCreate
<1>2. Created(c)
  BY <1>1, RunsCreate
<1>3. /\ phase' = "idle" /\ outcome' = "failed"
      /\ goal' = goal /\ checkpoint' = checkpoint /\ stale' = stale /\ done' = done
      /\ params' = params /\ hidden' = hidden
      /\ restarted' = IF restarted = "yes" \/ c = Restart THEN "stray" ELSE restarted
  BY <1>1 DEF Fail, Engine!Abort
<1>4. c \notin done
  BY <1>1, ReadyAgent
<1>5. TypeOK'
  BY <1>2, <1>3 DEF Created, Host, PathType, TypeOK, Engine!Registered
<1>6. Functions' /\ Goals' /\ Versions'
  BY <1>1, <1>2, <1>3, CreatedKeeps
<1>7. Phases'
  BY <1>3 DEF Phases
<1>8. Recorded' /\ Watched'
  BY <1>3 DEF Recorded, Watched, RestartsLater
<1>9. Moved'
  BY <1>2, <1>3, <1>4 DEF Moved, Created
<1>10. Unwatched'
  BY <1>1, <1>2, <1>3, CreatedUnwatched DEF RestartsLater
<1>11. Restarted'
  BY <1>2, <1>3 DEF Restarted, Created
<1> QED
  BY <1>5, <1>6, <1>7, <1>8, <1>9, <1>10, <1>11

(* The delete command of a file that is about to be written again.         *)
LEMMA RemovedFirst ==
  ASSUME Inductive, NEW c \in Moves, Engine!Ready(c), Deleted(c),
         goal' = goal /\ stale' = stale /\ done' = done,
         params' = params /\ hidden' = hidden,
         checkpoint' \in {checkpoint, [checkpoint EXCEPT ![c] = None]},
         restarted' = restarted \/ restarted' = "stray",
         phase' \in {"idle", "steps"}, outcome' \in {"running", "failed"}, Phases'
  PROVE  Inductive'
<1> USE DEF Inductive
<1>1. PICK q \in Path : c = Move(q)
  BY DEF Moves
<1>2. /\ c \in Command /\ c \notin done /\ c # OnRemoval /\ c # Restart
      /\ \A fl : c # Uninstall(fl)
  BY <1>1, Commands, Names, ReadyAgent
<1>3. \A d \in Command : d # c => checkpoint'[d] = checkpoint[d]
  BY DEF Functions
<1>4. checkpoint'[c] \in {checkpoint[c], None}
  BY <1>2 DEF Functions
<1>5. TypeOK' /\ Functions'
  BY <1>2 DEF Deleted, Host, PathType, TypeOK, Functions, Engine!Registered
<1>6. Goals'
  BY DEF Goals
<1>7. Recorded'
  BY <1>2, <1>3 DEF Recorded, TypeOK, Engine!Registered
<1>8. Moved'
  BY <1>2 DEF Moved, Deleted
<1>9. Versions'
  BY <1>2, <1>3, Commands DEF Versions, Deleted
<1>10. Watched'
  BY <1>2, <1>3, <1>4, Commands DEF Watched, RestartsLater, Path
<1>11. Unwatched'
  <2> SUFFICES ASSUME ~RestartsLater, loaded # Stopped,
                      NEW f \in UserFile, f \notin Covered(checkpoint[OnRemoval])
               PROVE  loaded[f] = disk'[f].dest.content
    BY <1>2, <1>3, Commands DEF Unwatched, RestartsLater, Deleted
  <2>1. c # Move(f)
    BY MoveReady
  <2> QED
    BY <2>1 DEF Unwatched, Deleted, Path
<1>12. Restarted'
  BY <1>2, <1>3, Commands DEF Restarted, Deleted
<1> QED
  BY <1>5, <1>6, <1>7, <1>8, <1>9, <1>10, <1>11, <1>12

LEMMA DeleteOldInductive ==
  ASSUME Inductive, NEW c \in Command, DeleteOldCommand(c)
  PROVE  Inductive'
<1> USE DEF Inductive
<1>1. /\ Engine!Ready(c) /\ c \in Moves
      /\ checkpoint' = [checkpoint EXCEPT ![c] = None]
      /\ phase' = phase /\ goal' = goal /\ stale' = stale /\ done' = done
      /\ RunDelete(c) /\ params' = params /\ outcome' = outcome
      /\ restarted' = restarted /\ hidden' = hidden
  BY DEF DeleteOldCommand, Engine!DeleteOld, ghosts
<1>2. Deleted(c)
  BY <1>1, RunsDelete
<1>3. phase = "steps" /\ outcome = "running"
  BY <1>1 DEF Engine!Ready, Phases
<1>4. Phases'
  BY <1>1, <1>3 DEF Phases
<1> QED
  BY <1>1, <1>2, <1>3, <1>4, RemovedFirst

(* A deletion runs, whether the engine records it or not.                  *)
LEMMA DeletedInductive ==
  ASSUME Inductive, NEW x \in Engine!Condemned, Engine!Deletable(x), Deleted(x[1]),
         goal' = goal /\ done' = done /\ params' = params /\ hidden' = hidden,
         \/ checkpoint' = checkpoint /\ stale' = stale
         \/ checkpoint' = checkpoint /\ stale' = stale \ {x} /\ x \in stale
         \/ /\ checkpoint' = [checkpoint EXCEPT ![x[1]] = None] /\ stale' = stale
            /\ x \notin stale,
         restarted' \in {restarted, "yes", "stray"},
         restarted' = "yes" => restarted = "yes" \/ x[1] = OnRemoval,
         restarted = "stray" => restarted' = "stray",
         x[1] = OnRemoval => restarted' # "no",
         phase' \in {"idle", "deletes"}, outcome' \in {"running", "failed"}, Phases'
  PROVE  Inductive'
<1> USE DEF Inductive
<1> DEFINE c == x[1]
<1>1. /\ c \in Command
      /\ x \in stale \/ (goal[c] = None /\ checkpoint[c] # None)
      /\ c \in Moves => x \notin stale
  BY IsCondemned
<1>2. \A d \in Command : goal[d] # None => d \in done
  BY DeletesLast
<1>3. x \notin stale => c \notin done
  BY <1>1 DEF TypeOK, Engine!Registered
<1>4. \A d \in Command : d # c => checkpoint'[d] = checkpoint[d]
  BY DEF Functions
<1>5. \A d \in Command : checkpoint'[d] \in {checkpoint[d], None}
  BY <1>1 DEF Functions
<1>6. x \in stale => checkpoint' = checkpoint
  OBVIOUS
<1>7. TypeOK' /\ Functions'
  BY <1>1 DEF Deleted, Host, PathType, TypeOK, Functions, Engine!Registered
<1>8. Goals'
  BY DEF Goals
<1>9. Recorded'
  BY <1>1, <1>3, <1>4 DEF Recorded, TypeOK, Engine!Registered
<1>10. Moved'
  <2> SUFFICES ASSUME NEW p \in Path, Move(p) \in done
               PROVE  disk'[p].dest.content = goal[Move(p)].content
    BY DEF Moved
  <2>1. c # Move(p)
    BY <1>1, <1>3 DEF Moves
  <2> QED
    BY <2>1 DEF Moved, Deleted
<1>11. Versions'
  BY <1>5, Commands DEF Versions, Deleted
<1>12. ASSUME c = OnRemoval, NEW f \in UserFile, checkpoint[Move(f)] # None
       PROVE  /\ goal[OnRemoval] # None /\ x \in stale
              /\ f \in Covered(checkpoint[OnRemoval])
  <2>1. f \in Path /\ f \notin ConfigPath /\ Move(f) \in Command
    BY PathAssumption, Commands DEF Path
  <2>2. goal[Move(f)] # None
    BY <1>12, FilesRemoved
  <2>3. params # NoAgent
    BY <2>1, <2>2, NothingAsked
  <2>4. goal[OnRemoval] # None
    BY <2>3, Asked DEF AgentGoal
  <2>5. f \in Wanted(params)
    BY <2>1, <2>2, MoveAsked
  <2> QED
    BY <1>1, <1>2, <1>12, <2>3, <2>4, <2>5, Commands, WatchedWanted
<1>13. Watched'
  <2> SUFFICES ASSUME ~RestartsLater', NEW f \in UserFile, checkpoint'[Move(f)] # None
               PROVE  f \in Covered(checkpoint'[OnRemoval])
    BY DEF Watched
  <2>1. checkpoint[Move(f)] # None
    BY <1>5, Commands DEF Path
  <2>2. CASE c = OnRemoval
    BY <1>6, <1>12, <2>1, <2>2
  <2>3. CASE c # OnRemoval
    <3>1. ~RestartsLater
      BY <2>3 DEF RestartsLater
    <3>2. checkpoint'[OnRemoval] = checkpoint[OnRemoval]
      BY <1>4, <2>3, Commands
    <3> QED
      BY <2>1, <3>1, <3>2 DEF Watched
  <2> QED
    BY <2>2, <2>3
<1>14. Unwatched'
  <2> SUFFICES ASSUME ~RestartsLater', loaded' # Stopped,
                      NEW f \in UserFile, f \notin Covered(checkpoint'[OnRemoval])
               PROVE  loaded'[f] = disk'[f].dest.content
    BY DEF Unwatched
  <2>1. f \in Path /\ Move(f) \in Command
    BY Commands DEF Path
  <2>2. CASE c = OnRemoval
    BY <2>1, <2>2, Names DEF Deleted
  <2>3. CASE c # OnRemoval
    <3>1. ~RestartsLater /\ checkpoint'[OnRemoval] = checkpoint[OnRemoval]
      BY <1>4, <2>3, Commands DEF RestartsLater
    <3>2. c # Move(f)
      <4>1. c = Move(f) => checkpoint[Move(f)] # None
        BY <1>1, <2>1 DEF Moves
      <4> QED
        BY <3>1, <4>1 DEF Watched
    <3> QED
      BY <2>1, <2>3, <3>1, <3>2 DEF Unwatched, Deleted
  <2> QED
    BY <2>2, <2>3
<1>15. Restarted'
  <2> SUFFICES ASSUME checkpoint'[Restart] # None PROVE Restarted'
    BY DEF Restarted
  <2>1. checkpoint'[Restart] = checkpoint[Restart] /\ checkpoint[Restart] # None
    BY <1>5, Commands
  <2>2. CASE c # OnRemoval
    BY <2>1, <2>2 DEF Restarted, Deleted
  <2>3. CASE c = OnRemoval /\ (restarted' = "stray" \/ params = NoAgent)
    <3>1. restarted' = "stray" \/ (params' = NoAgent /\ restarted' = "yes")
      BY <2>3 DEF TypeOK
    <3> QED
      BY <2>1, <3>1 DEF Restarted
  <2>4. CASE c = OnRemoval /\ params # NoAgent
    <3>1. PICK hash \in Hashes(params) : params \in Params /\ AgentGoal(hash)
      BY <2>4, Asked
    <3>2. Restart \in done
      BY <1>2, <3>1, Commands DEF AgentGoal
    <3>3. checkpoint[Restart] = [triggers |-> RestartTriggers(params, hash)]
      BY <3>1, <3>2 DEF AgentGoal, Recorded
    <3>4. \A p \in ConfigPath \cup Wanted(params) :
            p \in Path /\ disk[p].dest.content = Written(params, p)
      BY <1>2, <2>4, Commands, WantedMoved
    <3>5. \A p \in ConfigPath \cup Wanted(params) : loaded'[p] = Written(params, p)
      BY <2>4, <3>4 DEF Deleted
    <3> QED
      BY <2>1, <3>1, <3>3, <3>5 DEF Restarted
  <2> QED
    BY <2>2, <2>3, <2>4
<1> QED
  BY <1>7, <1>8, <1>9, <1>10, <1>11, <1>13, <1>14, <1>15

LEMMA DeleteInductive ==
  ASSUME Inductive, NEW x \in Engine!Condemned, DeleteCommand(x)
  PROVE  Inductive'
<1> USE DEF Inductive
<1>1. /\ Engine!Deletable(x) /\ RunDelete(x[1])
      /\ phase' = phase /\ goal' = goal /\ done' = done
      /\ params' = params /\ outcome' = outcome /\ hidden' = hidden
      /\ restarted' = IF x[1] = OnRemoval /\ restarted = "no" THEN "yes" ELSE restarted
  BY DEF DeleteCommand, Engine!Delete
<1>2. \/ checkpoint' = checkpoint /\ stale' = stale \ {x} /\ x \in stale
      \/ /\ checkpoint' = [checkpoint EXCEPT ![x[1]] = None] /\ stale' = stale
         /\ x \notin stale
  BY DEF DeleteCommand, Engine!Delete
<1>3. Deleted(x[1])
  BY <1>1, IsCondemned, RunsDelete
<1>4. phase = "deletes" /\ outcome = "running"
  BY <1>1 DEF Engine!Deletable, Phases
<1>5. Phases'
  BY <1>1, <1>4 DEF Phases, Engine!Registered
<1> QED
  BY <1>1, <1>2, <1>3, <1>4, <1>5, DeletedInductive DEF TypeOK

LEMMA FailAfterDeleteInductive ==
  ASSUME Inductive, NEW x \in InState, FailAfterDelete(x)
  PROVE  Inductive'
<1> USE DEF Inductive
<1>1. /\ RunDelete(x[1]) /\ phase' = "idle" /\ outcome' = "failed"
      /\ goal' = goal /\ checkpoint' = checkpoint /\ stale' = stale /\ done' = done
      /\ params' = params /\ hidden' = hidden
      /\ restarted' = IF restarted = "yes" \/ x[1] = OnRemoval THEN "stray" ELSE restarted
  BY DEF FailAfterDelete, Fail, Engine!Abort
<1>2. Phases'
  BY <1>1 DEF Phases
<1>3. CASE Engine!Deletable(x)
  <2>1. x \in Engine!Condemned
    BY <1>3 DEF Engine!Deletable
  <2>2. Deleted(x[1])
    BY <1>1, <2>1, IsCondemned, RunsDelete
  <2> QED
    BY <1>1, <1>2, <1>3, <2>1, <2>2, DeletedInductive
<1>4. CASE x[1] \in Moves /\ Engine!Ready(x[1])
  <2>1. x[1] \in Command
    BY <1>4, Commands DEF Moves
  <2>2. Deleted(x[1])
    BY <1>1, <2>1, RunsDelete
  <2> QED
    BY <1>1, <1>2, <1>4, <2>2, RemovedFirst
<1> QED
  BY <1>3, <1>4 DEF FailAfterDelete

----------------------------------------------------------------------------
LEMMA NextInductive == Inductive /\ [Next]_vars => Inductive'
<1> SUFFICES ASSUME Inductive, [Next]_vars PROVE Inductive'
  OBVIOUS
<1>1. ASSUME NEW pr \in Params \cup {NoAgent}, Deploy(pr) PROVE Inductive'
  BY <1>1, DeployInductive
<1>2. CASE Step
  <2>1. ASSUME NEW c \in Command, CreateCommand(c) \/ UpdateCommand(c) PROVE Inductive'
    BY <2>1, ExecutedSteps
  <2>2. ASSUME NEW c \in Command, DeleteOldCommand(c) PROVE Inductive'
    BY <2>2, DeleteOldInductive
  <2>3. ASSUME NEW x \in Engine!Condemned, DeleteCommand(x) PROVE Inductive'
    BY <2>3, DeleteInductive
  <2> QED
    BY <1>2, <2>1, <2>2, <2>3, QuietSteps DEF Step
<1>3. ASSUME NEW fl \in Flavor, HideRemoval(fl) PROVE Inductive'
  BY <1>3, HideInductive
<1>4. ASSUME NEW c \in Command, FailAfterCreate(c) PROVE Inductive'
  BY <1>4, FailAfterCreateInductive
<1>5. ASSUME NEW x \in InState, FailAfterDelete(x) PROVE Inductive'
  BY <1>5, FailAfterDeleteInductive
<1>6. CASE FailBefore \/ UNCHANGED vars
  BY <1>6, QuietSteps
<1> QED
  BY <1>1, <1>2, <1>3, <1>4, <1>5, <1>6 DEF Next

LEMMA SpecInductive == Spec => []Inductive
BY InitInductive, NextInductive, PTL DEF Spec

----------------------------------------------------------------------------
(* The theorems.                                                           *)

(* When an update is over, the stack is what the update registered.        *)
LEMMA Over ==
  ASSUME Inductive, outcome = "ok"
  PROVE  /\ ~RestartsLater
         /\ \A c \in Command : checkpoint[c] = goal[c]
         /\ \A c \in Command : goal[c] # None => c \in done
<1> USE DEF Inductive
<1>1. stale = {} /\ \A c \in Command : goal[c] = None => checkpoint[c] = None
  <2>1. Engine!Condemned = {}
    BY DEF Phases
  <2>2. stale = {}
    BY <2>1 DEF Engine!Condemned
  <2>3. ASSUME NEW c \in Command, goal[c] = None, checkpoint[c] # None PROVE FALSE
    <3>1. <<c, checkpoint[c]>> \in Engine!Condemned
      BY <2>3 DEF Engine!Condemned
    <3> QED
      BY <2>1, <3>1
  <2> QED
    BY <2>2, <2>3
<1>2. \A c \in Command : goal[c] # None => c \in done
  BY DEF Phases, Engine!Registered
<1> QED
  BY <1>1, <1>2 DEF RestartsLater, Recorded

(* The variables keep to their types.                                      *)
THEOREM TypeCorrect == Spec => []TypeOK
<1>1. Inductive => TypeOK
  BY DEF Inductive
<1> QED
  BY <1>1, SpecInductive, PTL

(* An update never leaves another version of the package than the one it   *)
(* asked for, whatever failed before (the triggers of                      *)
(* ensureAgentUninstalled).                                                *)
THEOREM VersionAsked == Spec => []NoOtherVersion
<1>1. ASSUME Inductive, outcome = "ok", params # NoAgent, ~hidden
      PROVE  packages[params.version.flavor] \in {None, InstallScript(params.version)}
  <2> DEFINE fl == params.version.flavor
  <2> USE <1>1 DEF Inductive
  <2>1. PICK hash \in Hashes(params) : params \in Params /\ AgentGoal(hash)
    BY Asked
  <2>2. fl \in Flavor /\ Uninstall(fl) \in Command
    BY <2>1, FlavorAssumption, Commands
  <2>3. /\ checkpoint[Uninstall(fl)] # None
        /\ checkpoint[Uninstall(fl)] = [triggers |-> VersionTriggers(params.version)]
    BY <2>1, <2>2, Over DEF AgentGoal
  <2>4. \/ packages[fl] = None
        \/ \E pr \in Params :
             /\ checkpoint[Uninstall(fl)].triggers = VersionTriggers(pr.version)
             /\ packages[fl] = InstallScript(pr.version)
    BY <2>2, <2>3 DEF Versions
  <2> QED
    BY <2>3, <2>4, SameScript
<1>2. Inductive => NoOtherVersion
  BY <1>1 DEF NoOtherVersion
<1> QED
  BY <1>2, SpecInductive, PTL

(* What the service has read when an update is over, path by path.  The    *)
(* content of datadog.yaml is the exception: it is merged with values that *)
(* are no trigger of the restart.                                          *)
LEMMA LoadedOver ==
  ASSUME Inductive, outcome = "ok", params # NoAgent, loaded # Stopped,
         restarted # "stray"
  PROVE  /\ \A p \in Path \ {CoreConfig} : loaded[p] = disk[p].dest.content
         /\ params \in Params
         /\ \E pr \in Params :
              /\ pr.config = params.config
              /\ loaded[CoreConfig] = Merged(pr)
         /\ disk[CoreConfig].dest.content = Merged(params)
<1> USE DEF Inductive
<1>1. PICK hash \in Hashes(params) : params \in Params /\ AgentGoal(hash)
  BY Asked
<1>2. /\ ~RestartsLater
      /\ \A c \in Command : checkpoint[c] = goal[c]
      /\ \A c \in Command : goal[c] # None => c \in done
  BY Over
<1>3. /\ checkpoint[Restart] # None
      /\ checkpoint[Restart] = [triggers |-> RestartTriggers(params, hash)]
  BY <1>1, <1>2, Commands DEF AgentGoal
<1>4. PICK pr \in Params : \E other \in Hashes(pr) :
        /\ checkpoint[Restart] = [triggers |-> RestartTriggers(pr, other)]
        /\ params # NoAgent => \A p \in ConfigPath \cup Wanted(pr) : loaded[p] = Written(pr, p)
  BY <1>3 DEF Restarted
<1>5. PICK other \in Hashes(pr) :
        checkpoint[Restart] = [triggers |-> RestartTriggers(pr, other)]
  BY <1>4
<1>6. RestartTriggers(pr, other) = RestartTriggers(params, hash)
  BY <1>3, <1>5
<1>7. pr.config = params.config /\ other = hash
  BY <1>6 DEF RestartTriggers
<1>8. /\ Wanted(pr) = Wanted(params)
      /\ \A f \in Wanted(pr) : pr.files[f].content = params.files[f].content
  BY <1>5, <1>7, SameHash
<1>9. \A p \in ConfigPath \cup Wanted(pr) : loaded[p] = Written(pr, p)
  BY <1>4
<1>10. \A p \in ConfigPath \cup Wanted(params) :
         p \in Path /\ disk[p].dest.content = Written(params, p)
  BY <1>2, Commands, WantedMoved
<1>11. \A p \in (ConfigPath \cup Wanted(params)) \ {CoreConfig} :
         Written(pr, p) = Written(params, p)
  BY <1>7, <1>8 DEF Written, ConfigPath
<1>12. ASSUME NEW f \in UserFile \ Wanted(params)
       PROVE  loaded[f] = disk[f].dest.content
  <2>1. OnRemoval \in done
    BY <1>1, <1>2, Commands DEF AgentGoal
  <2>2. f \notin Covered(checkpoint[OnRemoval])
    BY <2>1, WatchedWanted
  <2> QED
    BY <1>2, <2>2 DEF Unwatched
<1>13. ASSUME NEW p \in Path \ {CoreConfig} PROVE loaded[p] = disk[p].dest.content
  BY <1>8, <1>9, <1>10, <1>11, <1>12 DEF Path
<1>14. CoreConfig \in ConfigPath
  BY DEF ConfigPath
<1>15. loaded[CoreConfig] = Merged(pr) /\ disk[CoreConfig].dest.content = Merged(params)
  BY <1>9, <1>10, <1>14 DEF Written
<1> QED
  BY <1>1, <1>7, <1>13, <1>15

(* When an update is over, a service that runs has read what is at every   *)
(* path but that of datadog.yaml (the triggers of the restarts), for any   *)
(* parameters.                                                             *)
THEOREM FilesLoaded ==
  Spec => [](outcome = "ok" /\ params # NoAgent /\ loaded # Stopped /\ restarted # "stray" =>
               \A p \in Path \ {CoreConfig} : loaded[p] = disk[p].dest.content)
<1>1. Inductive =>
        (outcome = "ok" /\ params # NoAgent /\ loaded # Stopped /\ restarted # "stray" =>
           \A p \in Path \ {CoreConfig} : loaded[p] = disk[p].dest.content)
  BY LoadedOver
<1> QED
  BY <1>1, SpecInductive, PTL

(* And that of datadog.yaml too, where parameters with the same            *)
(* configuration are merged with the same values.                          *)
THEOREM AllLoaded ==
  ASSUME \A p, q \in Params : p.config = q.config => p.extra = q.extra /\ p.apiKey = q.apiKey
  PROVE  Spec => []ConfigurationLoaded
<1>1. ASSUME Inductive, outcome = "ok", params # NoAgent, loaded # Stopped,
             restarted # "stray"
      PROVE  \A p \in Path : loaded[p] = disk[p].dest.content
  <2>1. PICK pr \in Params :
          pr.config = params.config /\ loaded[CoreConfig] = Merged(pr)
    BY <1>1, LoadedOver
  <2>2. params \in Params /\ disk[CoreConfig].dest.content = Merged(params)
    BY <1>1, LoadedOver
  <2>3. pr.extra = params.extra /\ pr.apiKey = params.apiKey
    BY <2>1, <2>2
  <2>4. loaded[CoreConfig] = disk[CoreConfig].dest.content
    BY <2>1, <2>2, <2>3 DEF Merged
  <2> QED
    BY <1>1, <2>4, LoadedOver
<1>2. Inductive => ConfigurationLoaded
  BY <1>1 DEF ConfigurationLoaded
<1> QED
  BY <1>2, SpecInductive, PTL

(* The service is only started when everything that is asked for is        *)
(* written, and when it is restarted because of a removal, everything that *)
(* was to be removed is gone.                                              *)
THEOREM StartsLast == Spec => StartedLast
<1> DEFINE Start ==
      loaded' # loaded /\ loaded' # Stopped =>
        /\ \A p \in Path :
             goal[Move(p)] # None => disk[p].dest.content = goal[Move(p)].content
        /\ phase = "deletes" =>
             \A f \in UserFile : goal[Move(f)] = None => checkpoint[Move(f)] = None
<1>1. ASSUME Inductive, NEW c \in Command, Engine!Ready(c), RunCreate(c, goal[c])
      PROVE  Start
  <2> USE <1>1 DEF Inductive
  <2> SUFFICES ASSUME loaded' # loaded, loaded' # Stopped PROVE Start
    OBVIOUS
  <2>1. c = Restart
    BY RunsCreate DEF Created
  <2>2. phase = "steps" /\ params # NoAgent
    BY ReadyAgent, NothingAsked
  <2> QED
    BY <2>1, <2>2, RestartReady, WantedMoved
<1>2. ASSUME Inductive, NEW x \in Engine!Condemned, Engine!Deletable(x), RunDelete(x[1])
      PROVE  Start
  <2> USE <1>2 DEF Inductive
  <2> SUFFICES ASSUME loaded' # loaded PROVE Start
    OBVIOUS
  <2>1. x[1] = OnRemoval
    BY IsCondemned, RunsDelete DEF Deleted
  <2>2. \A f \in UserFile : goal[Move(f)] = None => checkpoint[Move(f)] = None
    BY <2>1, FilesRemoved
  <2>3. \A p \in Path : goal[Move(p)] # None => Move(p) \in done
    BY Commands, DeletesLast
  <2>4. \A p \in Path : goal[Move(p)] # None =>
          disk[p].dest.content = goal[Move(p)].content
    BY <2>3 DEF Moved
  <2> QED
    BY <2>2, <2>4
<1>3. ASSUME Inductive, NEW c \in Moves, Engine!Ready(c), RunDelete(c) PROVE Start
  <2>1. c \in Command /\ c # OnRemoval
    BY Commands, Names DEF Moves
  <2>2. loaded' = loaded
    BY <1>3, <2>1, RunsDelete DEF Deleted, Inductive
  <2> QED
    BY <2>2
<1>4. Inductive /\ [Next]_vars => [Start]_vars
  <2> SUFFICES ASSUME Inductive, Next PROVE Start
    BY DEF vars
  <2> HIDE DEF Start
  <2>1. ASSUME loaded' \in {loaded, Stopped} PROVE Start
    BY <2>1 DEF Start
  <2>2. ASSUME NEW pr \in Params \cup {NoAgent}, Deploy(pr) PROVE Start
    BY <2>1, <2>2 DEF Deploy, host
  <2>3. CASE Step
    <3>1. ASSUME NEW c \in Command, KeepCommand(c) PROVE Start
      BY <2>1, <3>1 DEF KeepCommand, host
    <3>2. ASSUME NEW c \in Command, CreateCommand(c) \/ UpdateCommand(c) PROVE Start
      BY <1>1, <3>2
      DEF CreateCommand, UpdateCommand, Engine!Create, Engine!Replace, Engine!Update
    <3>3. ASSUME NEW c \in Command, DeleteOldCommand(c) PROVE Start
      BY <1>3, <3>3 DEF DeleteOldCommand, Engine!DeleteOld
    <3>4. ASSUME NEW x \in Engine!Condemned, DeleteCommand(x) PROVE Start
      BY <1>2, <3>4 DEF DeleteCommand, Engine!Delete
    <3>5. CASE StartDeletes \/ CommandRefused \/ EndUpdate
      BY <2>1, <3>5 DEF StartDeletes, CommandRefused, EndUpdate, host
    <3> QED
      BY <2>3, <3>1, <3>2, <3>3, <3>4, <3>5 DEF Step
  <2>4. CASE FailBefore
    BY <2>1, <2>4 DEF FailBefore, host
  <2>5. ASSUME NEW fl \in Flavor, HideRemoval(fl) PROVE Start
    BY <2>1, <2>5 DEF HideRemoval
  <2>6. ASSUME NEW c \in Command, FailAfterCreate(c) PROVE Start
    BY <1>1, <2>6 DEF FailAfterCreate
  <2>7. ASSUME NEW x \in InState, FailAfterDelete(x) PROVE Start
    BY <1>2, <1>3, <2>7 DEF FailAfterDelete, Engine!Deletable
  <2> QED
    BY <2>2, <2>3, <2>4, <2>5, <2>6, <2>7 DEF Next
<1> QED
  BY <1>4, SpecInductive, PTL DEF Spec, StartedLast

----------------------------------------------------------------------------
(* An update is never stuck.                                               *)

(* The stages of the commands: none waits for one of its own stage or of a *)
(* later one.                                                              *)
Stage(c) ==
  IF c[1] = "uninstall" \/ c = OnRemoval THEN 0
  ELSE IF c = Install THEN 1
  ELSE IF c[1] = "move-file" THEN 2
  ELSE 3

LEMMA StageOf ==
  /\ Stage(OnRemoval) = 0 /\ Stage(Install) = 1 /\ Stage(Restart) = 3
  /\ \A fl : Stage(Uninstall(fl)) = 0
  /\ \A p : Stage(Move(p)) = 2
  /\ \A p, m : Stage(Permissions(p, m)) = 3
<1>1. /\ Install # OnRemoval /\ Restart # OnRemoval /\ Restart # Install
      /\ \A p : Move(p) # OnRemoval /\ Move(p) # Install
      /\ \A p, m : Permissions(p, m) # OnRemoval /\ Permissions(p, m) # Install
  BY Names
<1> QED
  BY <1>1, Names DEF Stage

LEMMA WaitsForEarlier ==
  ASSUME NEW c \in Command, NEW d \in DependsOn[c]
  PROVE  Stage(d) < Stage(c)
<1>1. d \in WaitsFor(c)
  BY DEF DependsOn
<1>2. /\ Install # Restart
      /\ Install[1] \notin {"move-file", "set-permissions"}
      /\ OnRemoval # Install /\ OnRemoval # Restart
      /\ OnRemoval[1] \notin {"move-file", "set-permissions"}
      /\ Restart[1] \notin {"move-file", "set-permissions"}
  BY Names
<1>3. CASE c = Install
  <2>1. WaitsFor(Install) = {Uninstall(fl) : fl \in Flavor}
    BY <1>2, Zenon DEF WaitsFor
  <2> QED
    BY <1>1, <1>3, <2>1, StageOf
<1>4. CASE c = OnRemoval
  <2>1. WaitsFor(OnRemoval) = {}
    BY <1>2, Zenon DEF WaitsFor
  <2> QED
    BY <1>1, <1>4, <2>1
<1>5. CASE c = Restart
  <2>1. WaitsFor(Restart) = Children
    BY <1>2, Zenon DEF WaitsFor
  <2> QED
    BY <1>1, <1>5, <2>1, StageOf DEF Children
<1>6. ASSUME NEW fl \in Flavor, c = Uninstall(fl) PROVE FALSE
  <2>1. /\ Uninstall(fl) # Install /\ Uninstall(fl) # Restart
        /\ Uninstall(fl)[1] # "move-file" /\ Uninstall(fl)[1] # "set-permissions"
    BY Names
  <2>2. WaitsFor(Uninstall(fl)) = {}
    BY <2>1, Zenon DEF WaitsFor
  <2> QED
    BY <1>1, <1>6, <2>2
<1>7. ASSUME NEW p \in Path, c = Move(p) PROVE Stage(d) < Stage(c)
  <2>1. /\ Move(p) # Install /\ Move(p) # Restart
        /\ Move(p)[1] = "move-file" /\ Move(p)[2] = p
    BY Names
  <2>2. WaitsFor(Move(p)) = IF p \in UserFile THEN {Install, OnRemoval} ELSE {Install}
    BY <2>1, Zenon DEF WaitsFor
  <2>3. d \in {Install, OnRemoval}
    BY <1>1, <1>7, <2>2
  <2> QED
    BY <1>7, <2>3, StageOf
<1>8. ASSUME NEW p \in UserFile, NEW m \in Mode, c = Permissions(p, m)
      PROVE  Stage(d) < Stage(c)
  <2>1. /\ Permissions(p, m) # Install /\ Permissions(p, m) # Restart
        /\ Permissions(p, m)[1] = "set-permissions" /\ Permissions(p, m)[2] = p
    BY Names
  <2>2. WaitsFor(Permissions(p, m)) = {Move(p)}
    BY <2>1, Zenon DEF WaitsFor
  <2> QED
    BY <1>1, <1>8, <2>2, StageOf
<1> QED
  BY <1>3, <1>4, <1>5, <1>6, <1>7, <1>8, Commands

(* Of any commands, one waits for none of them, and for one none waits.    *)
LEMMA FirstAndLast ==
  ASSUME NEW S \in SUBSET Command, S # {}
  PROVE  /\ \E c \in S : DependsOn[c] \cap S = {}
         /\ \E c \in S : \A d \in S : c \notin DependsOn[d]
<1>1. \A c \in Command : Stage(c) \in {0, 1, 2, 3}
  BY DEF Stage
<1>2. \A c, d \in S : d \in DependsOn[c] => Stage(d) < Stage(c)
  BY WaitsForEarlier
<1>3. PICK c \in S : \A d \in S : Stage(c) <= Stage(d)
  <2>1. CASE \E c \in S : Stage(c) = 0
    BY <1>1, <2>1
  <2>2. CASE (\A c \in S : Stage(c) # 0) /\ \E c \in S : Stage(c) = 1
    BY <1>1, <2>2
  <2>3. CASE (\A c \in S : Stage(c) \notin {0, 1}) /\ \E c \in S : Stage(c) = 2
    BY <1>1, <2>3
  <2>4. CASE \A c \in S : Stage(c) = 3
    BY <2>4
  <2> QED
    BY <1>1, <2>1, <2>2, <2>3, <2>4
<1>4. PICK e \in S : \A d \in S : Stage(d) <= Stage(e)
  <2>1. CASE \E e \in S : Stage(e) = 3
    BY <1>1, <2>1
  <2>2. CASE (\A e \in S : Stage(e) # 3) /\ \E e \in S : Stage(e) = 2
    BY <1>1, <2>2
  <2>3. CASE (\A e \in S : Stage(e) \notin {2, 3}) /\ \E e \in S : Stage(e) = 1
    BY <1>1, <2>3
  <2>4. CASE \A e \in S : Stage(e) = 0
    BY <2>4
  <2> QED
    BY <1>1, <2>1, <2>2, <2>3, <2>4
<1>5. DependsOn[c] \cap S = {}
  BY <1>1, <1>2, <1>3
<1>6. \A d \in S : e \notin DependsOn[d]
  BY <1>1, <1>2, <1>4
<1> QED
  BY <1>5, <1>6

(* Until all that is registered is done something is ready, and as long as *)
(* something is to be deleted, something may be.                           *)
NeverStuck ==
  /\ phase = "steps" =>
       Engine!Registered \subseteq done \/ \E c \in Command : Engine!Ready(c)
  /\ phase = "deletes" =>
       Engine!Condemned = {} \/ \E x \in Engine!Condemned : Engine!Deletable(x)

(* What UpdateEnds rests on, for any files, modes and flavors: the files   *)
(* wait for the restart on removal and the final restart for the files     *)
(* (host.go:274 and 173), and still no commands wait for each other, also  *)
(* when commands of several updates are deleted together.                  *)
THEOREM UpdatesNeverStuck == Spec => []NeverStuck
<1>1. Inductive => NeverStuck
  <2> SUFFICES ASSUME Inductive PROVE NeverStuck
    OBVIOUS
  <2>1. ASSUME phase = "steps", ~(Engine!Registered \subseteq done)
        PROVE  \E c \in Command : Engine!Ready(c)
    <3> DEFINE S == Engine!Registered \ done
    <3>1. S \in SUBSET Command /\ S # {}
      BY <2>1 DEF Engine!Registered
    <3> HIDE DEF S
    <3>2. PICK c \in S : DependsOn[c] \cap S = {}
      BY <3>1, FirstAndLast
    <3>3. Engine!Ready(c)
      BY <2>1, <3>2 DEF S, Engine!Ready
    <3> QED
      BY <3>1, <3>3
  <2>2. ASSUME phase = "deletes", Engine!Condemned # {}
        PROVE  \E x \in Engine!Condemned : Engine!Deletable(x)
    <3> DEFINE S == {x[1] : x \in Engine!Condemned}
    <3>1. S \in SUBSET Command /\ S # {}
      BY <2>2 DEF Engine!Condemned, Inductive, Recorded
    <3>2. PICK c \in S : \A d \in S : c \notin DependsOn[d]
      <4> HIDE DEF S
      <4> QED
        BY <3>1, FirstAndLast
    <3>3. PICK x \in Engine!Condemned : x[1] = c
      OBVIOUS
    <3>4. Engine!Deletable(x)
      BY <2>2, <3>2, <3>3 DEF Engine!Deletable
    <3> QED
      BY <3>4
  <2> QED
    BY <2>1, <2>2 DEF NeverStuck
<1> QED
  BY <1>1, SpecInductive, PTL
=============================================================================
