--------------------------- MODULE HostResources ---------------------------
(***************************************************************************)
(* What a program registers on a machine: commands, files, packages,       *)
(* services, and the docker manager (components/remote, components/os,     *)
(* components/docker).  A machine `m' has a name, an operating system, the *)
(* urns that its commands wait for, and what the package manager remembers *)
(* of the commands it has registered.                                      *)
(***************************************************************************)
EXTENDS ResourceGraph

Package(m, p) == <<"Package", m.name, p>>
File(m, path) == <<"File", m.name, path>>
Service_(m, s) == <<"Running", m.name, s>>

(* A command is a child of what the caller says, and of the machine        *)
(* otherwise; it waits for the command that waits for the machine.  When   *)
(* it is deleted nothing is undone, unless it has a delete command.        *)
UrnOfCommand(m, owner, name) == <<owner, "Command", m.name \o "-cmd-" \o name>>

Command(m, owner, name, after, makes, needs) ==
  [Resource(UrnOfCommand(m, owner, name), after \cup m.after, makes, needs)
     EXCEPT !.keeps = makes]

WithDelete(command) == [command EXCEPT !.keeps = {}]

CopyInlineFile(m, owner, path, after) ==
  WithDelete(Command(m, owner, "copy-" \o path, after, {File(m, path)}, {}))

CreateDirectory(m, owner, name, after, path) ==
  WithDelete(Command(m, owner, name, after, {File(m, path)}, {}))

(* EnsureRestarted                                                         *)
Restart(m, owner, service, after, needs) ==
  Command(m, owner, "running-" \o service, after, {Service_(m, service)}, needs)

----------------------------------------------------------------------------
(* Machines.                                                               *)

WindowsFamily == {"windows-server", "windows-client"}
MacOSFamily   == {"macos"}

(* newLinuxOS, newMacOS, newWindowsOS: the package manager of a flavor.    *)
Manager(os) ==
  CASE os \in {"amazon-linux", "amazon-linux-ecs", "centos"} -> "yum"
    [] os \in {"fedora", "redhat", "rocky-linux"}            -> "dnf"
    [] os \in {"debian", "ubuntu"}                           -> "apt"
    [] os = "suse"                                           -> "zypper"
    [] os \in MacOSFamily                                    -> "brew"
    [] os \in WindowsFamily                                  -> "none"

(* InitHost: the machine that a host component stands for, under a parent. *)
(* The command that waits for it is the first one.                         *)
Child(parent, type) == IF parent = "" THEN type ELSE parent \o "$" \o type

HostComponent(m) == <<m.parent, "dd:Host", m.name>>
WaitCommand(m)   == <<m.type, "Command", m.name \o "-cmd-wait">>

(* Mutant: commands do not wait for the one that waits for the machine.    *)
MachineAtOnce(parent, name, os) ==
  LET m == [parent |-> parent, type |-> Child(parent, "dd:Host"), name |-> name]
  IN [parent |-> parent, type |-> m.type, name |-> name, os |-> os,
      packages |-> {}, update |-> {}, after |-> {HostComponent(m)}]

MachineOf(parent, name, os) ==
  LET m == [parent |-> parent, type |-> Child(parent, "dd:Host"), name |-> name]
  IN [parent |-> parent, type |-> m.type, name |-> name, os |-> os,
      packages |-> {}, update |-> {},
      after |-> {HostComponent(m), WaitCommand(m)}]

Machine(name, os) == MachineOf("", name, os)

(* The machine of the developer: its commands are children of nothing.     *)
LocalMachine ==
  [parent |-> "", type |-> "", name |-> "local", os |-> "macos",
   packages |-> {}, update |-> {}, after |-> {}]

InitHost(m, opts, connection) ==
  {Resource(HostComponent(m), opts, {}, {}),
   Resource(WaitCommand(m), {HostComponent(m)} \cup connection, {}, {})}

----------------------------------------------------------------------------
(* The package managers.  One must not run twice at a time on a machine, so *)
(* that a command waits for all the ones before it.                         *)

(* The managers with an update command, and the names that one of them     *)
(* uses for a package.                                                     *)
HasUpdate(manager) == manager \in {"apt", "brew"}

PackageName(manager, p) == IF manager = "apt" /\ p = "docker" THEN "docker.io" ELSE p

(* updateDB: one command, with the options of the first package.           *)
UpdateDB(m, owner, after) ==
  IF HasUpdate(Manager(m.os)) /\ m.update = {}
  THEN {Command(m, owner, Manager(m.os) \o "-update", after \cup m.packages,
                {<<"PackageLists", m.name, Manager(m.os)>>}, {})}
  ELSE {}

(* Mutant: only the update command is waited for.                          *)
EnsureAtOnce(m, owner, p, after) ==
  LET db == UpdateDB(m, owner, after)
  IN db \cup
     {Command(m, owner,
              Manager(m.os) \o "-install-" \o PackageName(Manager(m.os), p),
              after \cup m.update \cup Urns(db), {Package(m, p)}, {})}

Ensure(m, owner, p, after) ==
  LET db == UpdateDB(m, owner, after)
  IN db \cup
     {Command(m, owner,
              Manager(m.os) \o "-install-" \o PackageName(Manager(m.os), p),
              after \cup m.packages \cup m.update \cup Urns(db),
              {Package(m, p)}, {})}

EnsureUninstalled(m, owner, p, after) ==
  {Command(m, owner, Manager(m.os) \o "-uninstall-" \o p, after \cup m.packages,
           {<<"NoPackage", m.name, p>>}, {})}

(* zypper has no lists to update.                                          *)
EnsureByZypper(m, owner, p, after) ==
  {Command(m, owner, "zypper-install-" \o p, after \cup m.packages,
           {Package(m, p)}, {})}

PackageKinds == {"Package", "PackageLists", "NoPackage"}

PackageCommands(G, name) ==
  {r \in G : \E o \in r.makes : o[1] \in PackageKinds /\ o[2] = name}

(* The machine once the commands of G are registered.                      *)
After(m, G) ==
  LET lists == {r \in G : <<"PackageLists", m.name, Manager(m.os)>> \in r.makes}
  IN [m EXCEPT !.packages = @ \cup Urns(PackageCommands(G, m.name) \ lists),
               !.update   = @ \cup Urns(lists)]

----------------------------------------------------------------------------
(* The docker manager.                                                     *)

Compose(m) == File(m, "/usr/local/bin/docker-compose")

DockerComponent(parent, m) == <<parent, "dd:Manager", m.name>>

(* install: the package, the configuration of the daemon, a restart, and   *)
(* the user in the group; installCompose after that.                       *)
DockerInstall(m, owner, all) ==
  LET docker == Ensure(m, owner, "docker", all)
      step(name, after, makes, needs) ==
        Command(m, owner, name, all \cup after, makes, needs)
      patch   == step("docker-daemon-patch", Urns(docker),
                      {File(m, "/etc/docker/daemon.json")}, {})
      restart == Restart(m, owner, "docker", all \cup {patch.urn},
                         {Package(m, "docker"), File(m, "/etc/docker/daemon.json")})
      whoami  == step("docker-whoami", {restart.urn}, {}, {})
      group   == step("docker-group", {whoami.urn}, {<<"Group", m.name, "docker">>},
                      {Package(m, "docker")})
  IN docker \cup {patch, restart, whoami, group}

ComposeInstall(m, owner, after) ==
  Command(m, owner, "docker-install-compose", after, {Compose(m)}, {})

NewManager(m, parent, opts) ==
  LET comp    == Resource(DockerComponent(parent, m), opts, {}, {})
      owner   == Child(parent, "dd:Manager")
      all     == opts \cup {comp.urn}
      install == DockerInstall(m, owner, all)
      group   == UrnOfCommand(m, owner, "docker-group")
  IN {comp} \cup install \cup {ComposeInstall(m, owner, all \cup {group})}

(* What the manager's own commands wait for, once it is there (d.opts).    *)
Installed(m, parent, opts) ==
  LET owner == Child(parent, "dd:Manager")
  IN opts \cup {UrnOfCommand(m, owner, "docker-group"),
                UrnOfCommand(m, owner, "docker-install-compose")}

Docker(m, parent, opts) ==
  [machine |-> m, owner |-> IF parent = "" THEN m.type ELSE parent,
   opts |-> Installed(m, parent, opts)]

Running(m) == {Compose(m), Service_(m, "docker")}

(* ComposeStrUp: a directory, a file for each manifest (its name, and what  *)
(* its content waits for), and the command.  What the caller asks for is    *)
(* the parent of the directory and what it waits for, and of nothing else.  *)
ComposeStrUp(d, name, manifests, makes, owner, opts) ==
  LET m     == d.machine
      dir   == CreateDirectory(m, owner, name \o "-compose-tmp", d.opts \cup opts,
                               "~/" \o name \o "-compose-tmp")
      file(f) == [CopyInlineFile(m, d.owner, name \o "-compose-tmp/" \o f.name,
                                 d.opts \cup f.after \cup {dir.urn})
                  EXCEPT !.needs = dir.makes]
      files == {file(f) : f \in manifests}
  IN {dir} \cup files \cup
     {WithDelete(Command(m, d.owner, "docker-compose-run-" \o name,
                         d.opts \cup Urns(files), makes, Running(m) \cup Makes(files)))}

(* ComposeFileUp: a temporary directory, a copy of the file, the command.  *)
ComposeFileUp(d, path, makes, opts) ==
  LET m    == d.machine
      all  == d.opts \cup opts
      dir  == CreateDirectory(m, d.owner, "temp-" \o path, all, "/tmp/" \o path)
      copy == [CopyInlineFile(m, d.owner, "/tmp/" \o path \o "/" \o path,
                              all \cup {dir.urn}) EXCEPT !.needs = dir.makes]
  IN {dir, copy,
      WithDelete(Command(m, d.owner, "docker-run-" \o path, all \cup {copy.urn}, makes,
                         Running(m) \cup copy.makes))}
=============================================================================
