---------------------------- MODULE MicroVMLaunch ----------------------------
(***************************************************************************)
(* The resources of the micro-VM scenario (scenarios/aws/microVMs): the    *)
(* keys, the storage pools, the images of the file systems, the volumes,   *)
(* the networks and the machines, and what is done in each machine.  The   *)
(* names, the CPUs and the addresses are in module DomainPlan.             *)
(*                                                                         *)
(* A collection is what one host runs.  It has the machine of its runner,  *)
(* its pools and its VM sets, each in the order that Go goes through the   *)
(* map that holds them, which is another one in the next run.              *)
(*   set      [id, images, vms, nvram]                                     *)
(*   image    [name, path, http, compressed, pool, mount]                  *)
(*   vm       [id, images]   the images that its disks are over            *)
(***************************************************************************)
EXTENDS CloudHosts, Integers

Local(c) == c.machine.name = "local"
IsMacOSHost(c) == Local(c) /\ c.machine.os = "macos"

(* The order that the resources of a sequence of sets are registered in.   *)
Elements(s) == {s[i] : i \in DOMAIN s}

----------------------------------------------------------------------------
(* The host: the variables that SSH lets through, and the key that the     *)
(* provider has to reach libvirt with.                                     *)

ProvisionMetalInstance(m) ==
  LET allow == Command(m, m.type, "allow-ssh-env", {}, {File(m, "sshd_config")}, {})
  IN {allow, Command(m, m.type, "reload sshd", {allow.urn}, {}, allow.makes)}

PrepareLibvirtSSHKeys(m) ==
  LET gen == WithDelete(Command(LocalMachine, "", "gen-libvirt-sshkey-" \o m.name, {},
                          {File(LocalMachine, "libvirt_rsa-" \o m.name)}, {}))
  IN {gen, Command(m, m.type, "write-ssh-key", {gen.urn},
                   {File(m, "authorized_keys")}, {})}

ConfigureInstance(c) ==
  IF Local(c) THEN {}
  ELSE ProvisionMetalInstance(c.machine) \cup PrepareLibvirtSSHKeys(c.machine)

(* What configureInstance returns: all but the first command of each.      *)
Configured(c) ==
  IF Local(c) THEN {}
  ELSE {<<c.machine.type, "Command", c.machine.name \o "-cmd-" \o n>> :
          n \in {"reload sshd", "write-ssh-key"}}

(* One provider for a collection, made when it is first asked for.         *)
LibvirtProvider(c) == <<"", "LibvirtProvider", c.machine.name>>

NewLibvirtProvider(c, depends) ==
  Resource(LibvirtProvider(c),
           depends \cup (IF Local(c) THEN {} ELSE {HostComponent(c.machine)}), {}, {})

(* A resource of libvirt; the commands of virsh do without the provider.   *)
Libvirt(c, type, name, after, makes, needs) ==
  Resource(<<"", type, name>>, after \cup {LibvirtProvider(c)}, makes, needs)

----------------------------------------------------------------------------
(* Pools.                                                                  *)

Pool(c, kind) == <<"Pool", c.machine.name, kind>>

RemoteGlobalPool(c, depends) ==
  LET m == c.machine
      step(name, after, makes, needs) ==
        Command(m, m.type, "global-pool-" \o name, after, makes, needs)
      xml     == WithDelete(step("write-pool-xml", depends, {File(m, "pool.xml")}, {}))
      define  == step("define-libvirt-pool", depends \cup {xml.urn},
                      {<<"PoolDefinition", m.name, "global">>}, xml.makes)
      build   == WithDelete(step("build-libvirt-pool", {define.urn}, {File(m, "pool")},
                                 define.makes))
      start   == WithDelete(step("start-libvirt-pool", {build.urn},
                                 {<<"PoolStarted", m.name, "global">>},
                                 define.makes \cup build.makes))
  IN {xml, define, build, start,
      step("refresh-libvirt-pool", {start.urn}, {Pool(c, "global")}, start.makes)}

LocalGlobalPool(c, depends) ==
  {Libvirt(c, "Pool", "create-libvirt-pool", depends, {Pool(c, "global")}, {})}

(* The disk in memory is built for any host; the pool has the same name in *)
(* the program, whatever the host.                                         *)
RAMBackedPool(c, depends) ==
  LET m    == c.machine
      disk == WithDelete(Command(m, m.type, "build-shared-disk", depends,
                                 {File(m, "ramfs")}, {}))
  IN {disk, Libvirt(c, "Pool", "ram-pool-create-libvirt-ram-pool", {disk.urn},
                    {Pool(c, "ram")}, disk.makes)}

SetupLibvirtPool(c, kind, depends) ==
  CASE kind = "ram" -> RAMBackedPool(c, depends)
    [] kind = "global" /\ Local(c) -> LocalGlobalPool(c, depends)
    [] OTHER -> RemoteGlobalPool(c, depends)

PoolReady(c, kind) ==
  CASE kind = "ram" -> <<"", "Pool", "ram-pool-create-libvirt-ram-pool">>
    [] kind = "global" /\ Local(c) -> <<"", "Pool", "create-libvirt-pool">>
    [] OTHER -> <<c.machine.type, "Command",
                  c.machine.name \o "-cmd-global-pool-refresh-libvirt-pool">>

(* One pool after the other.                                               *)
PoolsReady(c, n, depends) == depends \cup {PoolReady(c, c.pools[i]) : i \in 1 .. n}

CollectionPools(c, depends) ==
  UNION {SetupLibvirtPool(c, c.pools[i], PoolsReady(c, i - 1, depends)) : i \in DOMAIN c.pools}

----------------------------------------------------------------------------
(* Images.  One that several sets have is kept for the first of them.      *)

(* Mutant: each set has all its images.                                    *)
AllImages(c, i) == c.sets[i].images

Kept(c, i) ==
  {image \in c.sets[i].images :
     \A j \in 1 .. (i - 1) : \A other \in c.sets[j].images : other.path # image.path}

DownloadPath(image) == IF image.compressed THEN image.path \o ".xz" ELSE image.path

VolumeCommand(c, s, image, name, after, makes, needs) ==
  Command(c.machine, c.machine.type, image.name \o "-" \o s.id \o "-" \o name, after,
          makes, needs)

(* An image in the backing store is read and moved to its place, under its *)
(* final name.                                                             *)
RefreshFromBackingStore(c, s, image) ==
  WithDelete(VolumeCommand(c, s, image, "download-rootfs", {},
                           {File(c.machine, image.path)}, {}))

(* A script downloads the others of the set.                               *)
DownloadImages(c, s, images) ==
  LET m == c.machine
      step(name, after, makes, needs) ==
        Command(m, m.type, s.id \o "-" \o name, after, makes, needs)
      specs  == WithDelete(step("write-download-specs", {},
                                {File(m, s.id \o "-specs.json")}, {}))
      script == WithDelete(step("copy-download-script", {},
                                {File(m, s.id \o "-download.py")}, {}))
  IN IF images = {} THEN {}
     ELSE {specs, script,
           step("download-vm-images", {specs.urn, script.urn},
                {File(m, DownloadPath(image)) : image \in images},
                specs.makes \cup script.makes)}

ExtractImage(c, s, image, after) ==
  Command(c.machine, c.machine.type, s.id \o "-" \o image.name \o "-extract-base-volume-package",
          after, {File(c.machine, image.path)}, {File(c.machine, DownloadPath(image))})

(* Nothing comes before the downloads.  What an extraction waits for is    *)
(* the download by the script and the last image that was refreshed, and   *)
(* the caller waits for the extractions alone.                             *)
Extractions(c, s, images, waited) ==
  {ExtractImage(c, s, image, waited) : image \in {image \in images : image.compressed}}

DownloadAndExtractRootfs(c, s, kept) ==
  LET images    == {image \in kept : image.pool = "global"}
      refreshed == {RefreshFromBackingStore(c, s, image) :
                      image \in {image \in images : ~image.http}}
      last      == IF refreshed = {} THEN {} ELSE {(CHOOSE r \in refreshed : TRUE).urn}
      download  == DownloadImages(c, s, {image \in images : image.http})
      fetched   == {r.urn : r \in {r \in download : \E image \in images :
                              File(c.machine, DownloadPath(image)) \in r.makes}}
      extracted == Extractions(c, s, images, last \cup fetched)
  IN [all |-> refreshed \cup download \cup extracted, done |-> Urns(extracted)]

----------------------------------------------------------------------------
(* Volumes: one for an image, that the disks of the machines are over.     *)

Volume(c, image) == <<"Volume", c.machine.name, image.pool \o "/" \o image.name>>

(* libvirt opens the file of an image, and refuses a volume that it has.   *)
VolumeNeeds(c, image) ==
  {Pool(c, image.pool)} \cup
  IF image.pool = "global" THEN {File(c.machine, image.path)} ELSE {}

RemoteLibvirtVolume(c, s, image, depends) ==
  LET xml == WithDelete(VolumeCommand(c, s, image, "write-vol-xml", {},
                          {File(c.machine, image.name \o "-" \o s.id \o ".xml")}, {}))
  IN {xml, WithDelete(VolumeCommand(c, s, image, "build-libvirt-basevolume",
             depends \cup {xml.urn}, {Volume(c, image)},
             xml.makes \cup VolumeNeeds(c, image)))}

LocalLibvirtVolume(c, s, image, depends) ==
  {Libvirt(c, "Volume", image.name \o "-" \o s.id \o "-build-libvirt-basevolume", depends,
           {Volume(c, image)}, VolumeNeeds(c, image))}

SetupLibvirtVMVolume(c, s, image, depends) ==
  IF Local(c) THEN LocalLibvirtVolume(c, s, image, depends)
              ELSE RemoteLibvirtVolume(c, s, image, depends)

SetupLibvirtFilesystem(c, i, depends) ==
  LET s     == c.sets[i]
      files == DownloadAndExtractRootfs(c, s, Kept(c, i))
  IN files.all \cup
     UNION {SetupLibvirtVMVolume(c, s, image, depends \cup files.done) : image \in Kept(c, i)}

SetupCollectionFilesystems(c, depends) ==
  LET ready == PoolsReady(c, Len(c.pools), depends)
  IN CollectionPools(c, depends)
     \cup UNION {SetupLibvirtFilesystem(c, i, ready) : i \in DOMAIN c.sets}

FilesystemsDone(c, G) ==
  {r.urn : r \in {r \in G : \E o \in r.makes : o[1] = "Volume" /\ o[2] = c.machine.name}}

----------------------------------------------------------------------------
(* Machines: a disk over each volume, and a variable store on ARM.         *)

Overlay(c, s, vm, image) ==
  <<"", "Volume", image.name \o "-" \o s.id \o "-overlay-" \o vm.id>>

Nvram(c, vm) ==
  WithDelete(Command(c.machine, c.machine.type, vm.id \o "-create-nvram", {},
                     {File(c.machine, "varstore." \o vm.id)}, {}))

NvramOf(c, s, waitFor) ==
  IF s.nvram THEN {[Nvram(c, vm) EXCEPT !.after = @ \cup waitFor] : vm \in s.vms} ELSE {}

SetupDomainVolumes(c, s, waitFor) ==
  UNION {{Libvirt(c, "Volume", Overlay(c, s, vm, image)[3], waitFor, {},
                  {Pool(c, image.pool), Volume(c, image)}) : image \in vm.images} : vm \in s.vms}

CreateDomainConsoleLog(c, vm, depends) ==
  Command(c.machine, c.machine.type, vm.id \o "-create-console-log", depends,
          {File(c.machine, "ddvm-" \o vm.id \o ".log")}, {})

SetupCollectionDomainConfigurations(c, waitFor) ==
  UNION {SetupDomainVolumes(c, s, waitFor) \cup NvramOf(c, s, waitFor) : s \in Elements(c.sets)}

(* The network of a set, and the rules for its file server.                *)
Network(c, s) == <<"", "Network", c.machine.name \o "-network-" \o s.id>>

AllowNFSPortsForBridge(c, s) ==
  {WithDelete(Command(c.machine, c.machine.type, "allow-nfs-ports-" \o p \o "-" \o s.id,
                      {Network(c, s)}, {<<"Rule", c.machine.name, p \o s.id>>}, {})) :
     p \in {"tcp", "udp"}}

(* macOS has a network of its own.                                         *)
SetupCollectionNetwork(c, waitFor) ==
  IF IsMacOSHost(c) THEN {} ELSE
  UNION {{Libvirt(c, "Network", Network(c, s)[3], waitFor,
                  {<<"Network", c.machine.name, s.id>>}, {})}
         \cup AllowNFSPortsForBridge(c, s) : s \in Elements(c.sets)}

(* The collections one after the other: a file system only waits for the   *)
(* hosts, and the machines for all the file systems so far.                *)
BuildVMCollection(c, depends, soFar) ==
  LET files   == SetupCollectionFilesystems(c, depends)
      waitFor == soFar \cup FilesystemsDone(c, files)
      consoles == {CreateDomainConsoleLog(c, vm, depends) :
                     vm \in UNION {s.vms : s \in Elements(c.sets)}}
      configs == SetupCollectionDomainConfigurations(c, waitFor)
      nvram   == {r.urn : r \in {r \in configs : r.urn[2] = "Command"}}
  IN [all |-> {NewLibvirtProvider(c, depends)} \cup files \cup configs \cup consoles,
      wait |-> waitFor \cup nvram \cup Urns(consoles)]

BuildVMCollections(cs, depends) ==
  LET built[i \in 0 .. Len(cs)] ==
        IF i = 0 THEN [all |-> {}, wait |-> {}]
        ELSE LET b == BuildVMCollection(cs[i], depends, built[i - 1].wait)
             IN [b EXCEPT !.all = @ \cup built[i - 1].all]
      b == built[Len(cs)]
  IN [b EXCEPT !.all = @ \cup UNION {SetupCollectionNetwork(c, b.wait) : c \in Elements(cs)}]

Domain(c, vm) == <<"", "Domain", vm.id>>

NetworkOf(c, s) == IF IsMacOSHost(c) THEN {} ELSE {Network(c, s)}

LaunchVMCollections(cs, depends) ==
  UNION {UNION {{Libvirt(c, "Domain", vm.id,
                         depends \cup NetworkOf(c, s) \cup {Overlay(c, s, vm, i) : i \in vm.images},
                         {<<"Domain", c.machine.name, vm.id>>, MachineObject("conn-" \o vm.id)},
                         IF s.nvram THEN Nvram(c, vm).makes ELSE {}) : vm \in s.vms} :
                s \in Elements(c.sets)} : c \in Elements(cs)}

----------------------------------------------------------------------------
(* What is done in the machines, over their own connection.                *)

Guest(c, vm, after) ==
  LET m == [LocalMachine EXCEPT !.type = "Domain", !.name = "conn-" \o vm.id]
  IN [m EXCEPT !.after = {Domain(c, vm), WaitCommand(m)} \cup after]

WaitForGuest(c, vm, after) ==
  LET m == Guest(c, vm, after)
  IN Resource(WaitCommand(m), {Domain(c, vm)} \cup after, {}, {})

MountMicroVMDisks(g, vm) ==
  {Command(g, g.type, "mount-disk-" \o image.name, {}, {File(g, image.mount)}, {}) :
     image \in {image \in vm.images : image.mount # "/"}}

DockerMountpoint == "/mnt/docker"

(* The disk that docker uses is mounted before.                            *)
SetDockerDataRoot(g, vm, mounted) ==
  IF \E image \in vm.images : image.mount = DockerMountpoint
  THEN {Command(g, g.type, "set-docker-data-root", mounted, {},
                {File(g, DockerMountpoint)})}
  ELSE {}

ReloadSSHD(g, after) == Command(g, g.type, "reload sshd", after, {}, {})

MicroVMSSHKey(c) ==
  {<<c.machine.type, "Command", c.machine.name \o "-cmd-read-microvm-ssh-key">>}

SetupMicroVMSSHConfig(c, depends) ==
  LET m   == c.machine
      dir == Command(m, m.type, "add-microvm-ssh-dir", depends, {File(m, "~/.ssh")}, {})
  IN {dir, Command(m, m.type, "add-microvm-ssh-config", {dir.urn},
                   {File(m, "~/.ssh/config")}, dir.makes)}

ReadMicroVMSSHKey(c) ==
  Command(c.machine, c.machine.type, "read-microvm-ssh-key",
          {<<c.machine.type, "Command", c.machine.name \o "-cmd-add-microvm-ssh-config">>},
          {}, {})

(* A collection on a remote host, after the machines of the ones before.   *)
ProvisionRemoteMicroVMs(c, depends) ==
  LET key == MicroVMSSHKey(c)
      inside(vm) ==
        LET g      == Guest(c, vm, key)
            mounts == MountMicroVMDisks(g, vm)
            docker == SetDockerDataRoot(g, vm, Urns(mounts))
        IN {WaitForGuest(c, vm, key), ReloadSSHD(g, Urns(docker))} \cup mounts \cup docker
  IN SetupMicroVMSSHConfig(c, depends) \cup {ReadMicroVMSSHKey(c)}
     \cup UNION {inside(vm) : vm \in UNION {s.vms : s \in Elements(c.sets)}}

(* A guest of macOS may lose its NFS connections, and ends the dead ones.  *)
EnableNFSConnKiller(c, g) ==
  IF IsMacOSHost(c) THEN {Command(g, g.type, "enable-nfs-conn-killer", {}, {}, {})} ELSE {}

ProvisionLocalMicroVMs(c) ==
  LET inside(vm) ==
        LET g      == Guest(c, vm, {})
            mounts == MountMicroVMDisks(g, vm)
        IN {WaitForGuest(c, vm, {})} \cup EnableNFSConnKiller(c, g) \cup mounts
           \cup SetDockerDataRoot(g, vm, Urns(mounts))
  IN UNION {inside(vm) : vm \in UNION {s.vms : s \in Elements(c.sets)}}

Provision(cs) ==
  LET reloaded(n) == {<<"Domain", "Command", "conn-" \o vm.id \o "-cmd-reload sshd">> :
                        vm \in UNION {UNION {s.vms : s \in Elements(cs[i].sets)} :
                                      i \in {i \in 1 .. n : ~Local(cs[i])}}}
  IN UNION {IF Local(cs[i]) THEN ProvisionLocalMicroVMs(cs[i])
            ELSE ProvisionRemoteMicroVMs(cs[i], reloaded(i - 1)) : i \in DOMAIN cs}

----------------------------------------------------------------------------
(* run                                                                     *)

MicroVMs(cs) ==
  LET hosts   == UNION {IF Local(c) THEN {} ELSE EC2VM(c.machine, "", {}) : c \in Elements(cs)}
      depends == UNION {Configured(c) : c \in Elements(cs)}
      built   == BuildVMCollections(cs, depends)
  IN hosts \cup UNION {ConfigureInstance(c) : c \in Elements(cs)}
     \cup built.all \cup LaunchVMCollections(cs, built.wait) \cup Provision(cs)
=============================================================================
