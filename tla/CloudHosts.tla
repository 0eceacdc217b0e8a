---------------------------- MODULE CloudHosts ----------------------------
(***************************************************************************)
(* The machines of the clouds, and what programs install on one: the       *)
(* Agent, on the host or in docker, the updater, Active Directory, IIS,    *)
(* and the fake intakes that are a machine.                                *)
(***************************************************************************)
EXTENDS HostResources

RandomString(owner, name, after) ==
  Resource(<<owner, "RandomString", name>>, after, {}, {})

----------------------------------------------------------------------------
(* AWS.                                                                    *)

(* A macOS machine has a host of its own, that nothing ever deletes        *)
(* (RetainOnDelete).                                                       *)
DedicatedHost(m) ==
  LET host == {<<"DedicatedHost", "", m.name>>}
  IN [Resource(<<"", "DedicatedHost", m.name>>, {}, host, {}) EXCEPT !.keeps = host]

OwnHost(m, hostID) ==
  IF m.os \in MacOSFamily /\ hostID = "" THEN {DedicatedHost(m)} ELSE {}

Instance(m) == <<m.type, "Instance", m.name>>

(* Mutant: machines are kept, like dedicated hosts.                        *)
RetainedInstance(m, after) ==
  [Resource(Instance(m), {HostComponent(m)} \cup after, {MachineObject(m.name)}, {})
   EXCEPT !.keeps = {MachineObject(m.name)}]

NewInstance(m, after) ==
  Resource(Instance(m), {HostComponent(m)} \cup after, {MachineObject(m.name)}, {})

(* The password of the administrator is set again, for the tests.          *)
ResetPassword(m, opts) ==
  LET all    == opts \cup {HostComponent(m)}
      random == RandomString(m.type, m.name \o "-win-admin-password", all)
  IN {random, Command(m, m.type, "reset-admin-password", all \cup {random.urn},
                      {<<"Password", m.name, "Administrator">>}, {})}

EC2VM(m, hostID, opts) ==
  OwnHost(m, hostID)
  \cup {NewInstance(m, opts \cup Urns(OwnHost(m, hostID)))}
  \cup InitHost(m, {}, {Instance(m)})
  \cup IF m.os \in WindowsFamily THEN ResetPassword(m, opts) ELSE {}

InstallECRCredentialsHelper(m) ==
  LET helper == Ensure(m, m.type, "amazon-ecr-credential-helper", {})
  IN helper \cup {Command(m, m.type, "ecr-config", Urns(helper),
                          {File(m, "~/.docker/config.json")}, {})}

EcrConfig(m) == {<<m.type, "Command", m.name \o "-cmd-ecr-config">>}

----------------------------------------------------------------------------
(* Azure, GCP, podman, Hyper-V.                                            *)

(* The options of the caller are copied into a slice of length zero, so    *)
(* that nothing is a child of the host and nothing waits for what the      *)
(* caller asked for.                                                       *)
NetworkInterface(m) == Resource(<<"", "NetworkInterface", m.name>>, {}, {}, {})

NewVMInstance(m, after) ==
  {NetworkInterface(m),
   Resource(<<"", "VirtualMachine", m.name>>, {NetworkInterface(m).urn} \cup after,
            {MachineObject(m.name)}, {})}

(* The address is the one of the interface, which is there before the      *)
(* machine is.                                                             *)
AzureLinuxInstance(m) == NewVMInstance(m, {})

(* Windows: the address waits for the command that sets SSH up.            *)
AzureInit(m) ==
  Resource(<<"VirtualMachine", "RunCommand", m.name \o "-init-cmd">>,
           {<<"", "VirtualMachine", m.name>>}, {<<"SSH", m.name, "windows">>},
           {MachineObject(m.name)})

AzureWindowsInstance(m) ==
  LET random == RandomString("", m.name \o "-admin-password", {})
  IN {random, AzureInit(m)} \cup NewVMInstance(m, {random.urn})

AzureAddress(m) ==
  {NetworkInterface(m).urn}
  \cup IF m.os \in WindowsFamily THEN {AzureInit(m).urn} ELSE {}

AzureVM(m, opts) ==
  InitHost(m, opts, AzureAddress(m))
  \cup IF m.os \in WindowsFamily THEN AzureWindowsInstance(m)
                                 ELSE AzureLinuxInstance(m)

GCPVM(m) == {NewInstance(m, {})} \cup InitHost(m, {}, {Instance(m)})

(* A container on the machine of the developer: two files in a directory,  *)
(* an image, the container.                                                *)
Podman(name) == <<"Image", "local", name>>

PodmanVM(m) ==
  LET own == {HostComponent(m)}
      dir == CreateDirectory(LocalMachine, "", "create-directory-localpodman", {},
                             "~/.localpodman")
      files == {[CopyInlineFile(LocalMachine, "", "~/.localpodman/" \o f, {dir.urn})
                 EXCEPT !.needs = dir.makes] : f \in {"Dockerfile", "config.json"}}
      build == WithDelete(Command(LocalMachine, m.type, "podman-build" \o m.name,
                 own \cup Urns(files), {Podman(m.name)}, Makes(files)))
      run   == WithDelete(Command(LocalMachine, m.type, "podman-run" \o m.name,
                 own \cup Urns(files) \cup {build.urn}, {MachineObject(m.name)},
                 {Podman(m.name)}))
  IN {dir, build, run} \cup files \cup InitHost(m, {}, {run.urn})

HyperV(m) ==
  LET create == Resource(<<"", "Command", "hyperv">>, {}, {MachineObject(m.name)}, {})
  IN {create} \cup InitHost(m, {}, {create.urn})

----------------------------------------------------------------------------
(* The Agent on a host, whose commands wait for one another (module        *)
(* HostAgent runs them).  p: from a file of the developer or with the      *)
(* script, the files asked for and the ones with permissions, and what the *)
(* configuration takes its content from.                                   *)

Agent(m) == <<"Agent", m.name, "datadog-agent">>

(* ensureAgentUninstalled: nothing to do on macOS.                         *)
AgentUninstalled(m, owner, after) ==
  CASE m.os \in WindowsFamily -> {Command(m, owner, "uninstall-agent", after, {}, {})}
    [] m.os \in MacOSFamily   -> {Command(m, owner, "no-op-uninstall-agent", after, {}, {})}
    [] OTHER                  -> EnsureUninstalled(m, owner, "datadog-agent", after)

InstallByScript(m, owner, after) ==
  LET uninstall == AgentUninstalled(m, owner, after)
  IN uninstall \cup {Command(m, owner, "install-agent", after \cup Urns(uninstall),
                             {Agent(m)}, {})}

InstallPackage(m, owner, after) ==
  IF m.os \in WindowsFamily
  THEN {Command(m, owner, "install-agent", after, {}, {})}
  ELSE Ensure(m, owner, "./datadog-agent", after)

(* There is no direct installation on macOS.                               *)
DirectInstall(m, owner, after) ==
  LET upload  == Command(m, owner, "copy-agent-package", after,
                         {File(m, "./datadog-agent")}, {})
      install == InstallPackage(m, owner, after \cup {upload.urn})
      lists   == {r \in install : \E o \in r.makes : o[1] = "PackageLists"}
  IN {upload} \cup lists \cup
     {[r EXCEPT !.makes = @ \cup {Agent(m)}, !.keeps = @ \cup {Agent(m)},
                !.needs = upload.makes] : r \in install \ lists}

ConfigFiles(m, owner, after, fakeintake) ==
  {CopyInlineFile(m, owner, f, after) : f \in {"system-probe.yaml", "security-agent.yaml"}}
  \cup {CopyInlineFile(m, owner, "datadog.yaml", after \cup fakeintake)}

(* writeFileDefinition: the permissions are a child of the host.           *)
WriteFile(m, owner, path, permissions, after) ==
  LET dir  == CreateDirectory(m, owner, "create-directory-" \o path, after, path \o "/..")
      copy == [CopyInlineFile(m, owner, path, after \cup {dir.urn})
               EXCEPT !.needs = dir.makes]
  IN {dir, copy} \cup
     IF permissions
     THEN {Command(m, m.type, "set-permissions-" \o path, {copy.urn}, {}, copy.makes)}
     ELSE {}

OnRemoval(m) == Command(m, m.type, "restart-on-intg-removal", {}, {}, {})

(* The last restart waits for the children of the component, so far.       *)
NewHostAgent(m, p, opts) ==
  LET comp    == <<m.type, "dd:HostAgent", m.name>>
      owner   == m.type \o "$dd:HostAgent"
      all     == opts \cup {comp}
      install == IF p.local THEN DirectInstall(m, owner, all)
                            ELSE InstallByScript(m, owner, all)
      after   == all \cup {r.urn : r \in {r \in install : Agent(m) \in r.makes}}
      files   == UNION {WriteFile(m, owner, f, f \in p.permissions,
                                  after \cup {OnRemoval(m).urn}) : f \in p.files}
      content == install \cup ConfigFiles(m, owner, after, p.fakeintake) \cup files
      mine    == {r \in content : r.urn[1] = owner}
  IN {Resource(comp, {HostComponent(m)}, {}, {}), OnRemoval(m)} \cup content
     \cup {Restart(m, m.type, "datadog-agent", {comp} \cup Urns(mine),
                   {Agent(m)} \cup UNION {r.makes : r \in mine})}

NewHostUpdater(m) ==
  LET comp == <<m.type, "dd:HostUpdater", m.name>>
  IN {Resource(comp, {HostComponent(m)}, {}, {}),
      Command(m, m.type \o "$dd:HostUpdater", "install-updater", {comp}, {}, {})}

LabHost(m) ==
  {Component("dd:LabHost", m.name, {}),
   Command(m, m.type, "install-script", {}, {}, {})}

(* The Agent in docker; its ports are those that dogstatsd is reached at.  *)
NewDockerAgent(d, manifests, fakeintake) ==
  {Component("dd:DockerAgent", d.machine.name, {})} \cup
  ComposeStrUp(d, "agent",
    {[name |-> "agent", after |-> fakeintake]} \cup manifests,
    {<<"Port", d.machine.name, p>> : p \in {"8125/udp", "8126/tcp"}},
    "dd:DockerAgent", {<<"", "dd:DockerAgent", d.machine.name>>})

----------------------------------------------------------------------------
(* Fake intakes on a machine: the address is known before the container is *)
(* started.                                                                *)

(* The delete command stops the container, that keeps its name.  Another   *)
(* retention period, that stands for all the options, is another command.  *)
DockerFakeintake(m, period) ==
  LET docker == NewManager(m, m.type, {HostComponent(m)})
  IN docker \cup {Command(m, m.type, "docker_run_fakeintake", Urns(docker),
                          {<<"Fakeintake", m.name, "fakeintake">>,
                           <<"RetentionPeriod", m.name, period>>}, {Service_(m, "docker")})}

AzureFakeintake(m, period) ==
  {Component("dd:Fakeintake", "fakeintake", {})}
  \cup AzureVM(m, {<<"", "dd:Fakeintake", "fakeintake">>}) \cup DockerFakeintake(m, period)

GCPFakeintake(m, period) ==
  {Component("dd:Fakeintake", "fakeintake", {})} \cup GCPVM(m) \cup DockerFakeintake(m, period)

LocalFakeintake ==
  {Component("dd:Fakeintake", "fakeintake", {}),
   Resource(<<"", "Container", "local-docker-container">>, {},
            {<<"Fakeintake", "", "fakeintake">>}, {})}

----------------------------------------------------------------------------
(* Active Directory and IIS, which reboot the machine and then sleep.      *)

TimeProvider(m) == Resource(<<"", "TimeProvider", m.name \o "-time-provider">>, {}, {}, {})

Sleep(m, name, after) ==
  Resource(<<"", "Sleep", m.name \o "-" \o name>>, after \cup {TimeProvider(m).urn}, {}, {})

JoinDomain(m, owner, comp, so_far) ==
  LET join == Command(m, owner, "join-domain", {comp}, {<<"Domain", m.name, "member">>}, {})
  IN {join, Sleep(m, "wait-for-host-to-reboot-after-joining-domain",
                  so_far \cup {join.urn})}

DomainController(m, owner, comp, so_far) ==
  LET forest == Command(m, owner, "install-forest", {comp} \cup so_far,
                        {<<"Domain", m.name, "controller">>}, {})
      reboot == Sleep(m, "wait-for-host-to-reboot", so_far \cup {forest.urn})
  IN {forest, reboot,
      Command(m, m.type, "ensure-adws-started", {reboot.urn},
              {Service_(m, "ADWS")}, forest.makes)}

(* p: whether to join a domain, whether to control one, and the users.     *)
NewActiveDirectory(m, p, opts) ==
  LET comp == <<m.type, "dd:Component", m.name>>
      own  == m.type \o "$dd:Component"
      join == {TimeProvider(m)} \cup
              IF p.join THEN JoinDomain(m, own, comp, {TimeProvider(m).urn}) ELSE {}
      both == join \cup
              IF p.controller THEN DomainController(m, own, comp, Urns(join)) ELSE {}
  IN {Resource(comp, opts \cup {HostComponent(m)}, {}, {})} \cup both
     \cup {Command(m, m.type, "create-domain-users-" \o u, Urns(both), {}, {}) : u \in p.users}

(* CopyAbsoluteFolder: the folder, then the file.                          *)
SiteAssets(m, site, after) ==
  LET dir == CreateDirectory(m, m.type, "create-directory-" \o site, after, site)
  IN {dir, [CopyInlineFile(m, m.type, site \o "/index.html", {dir.urn})
            EXCEPT !.needs = dir.makes]}

NewIISServer(m, sites) ==
  LET comp    == <<m.type, "dd:Component", m.name>>
      install == Command(m, m.type \o "$dd:Component", "install-iis", {comp}, {}, {})
      reboot  == Sleep(m, "wait-for-host-to-reboot", {install.urn})
      started == Command(m, m.type, "ensure-iis-started", {reboot.urn},
                         {Service_(m, "W3SVC")}, {})
      assets(s) == SiteAssets(m, s, {started.urn})
      files(s)  == {r.urn : r \in {r \in assets(s) : r.needs # {}}}
  IN {Resource(comp, {HostComponent(m)}, {}, {}), install, TimeProvider(m), reboot, started}
     \cup UNION {assets(s) : s \in sites}
     \cup {Command(m, m.type, "create-iis-site-" \o s, {started.urn} \cup files(s), {},
                   started.makes \cup Makes(assets(s))) : s \in sites}
=============================================================================
