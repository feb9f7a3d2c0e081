# A verification project for terraform-provider-nsxt

TLA+ models of the parts of the Terraform provider for VMware NSX-T that have
behaviour of their own, configurations that check them with TLC, and proofs
checked by TLAPS. Source paths below are relative to the repository.

## 1. The system

The provider (`main.go`, `nsxt/`) is a Go program that Terraform starts for a
plan or an apply. It exposes several hundred resources and data sources; each
has Create, Read, Update and Delete functions that translate the resource's
arguments to calls of the NSX API. The provider has no threads of its own and
no database. What makes it hard all the same:

* Terraform calls the functions of independent resources **concurrently** in
  one process, and several of them change the same NSX object;
* NSX **moves on its own** between any two calls: upgrades progress, status
  fields lag, managers restart, other users change objects;
* a function that **fails half way**, or whose process dies, leaves NSX in a
  state that the next apply must cope with, knowing only the Terraform state,
  which may have been saved, or not, with the values that were not applied;
* every call can fail, and be lost after it took effect; the connector of the
  policy API sends a request again, whatever it asks for.

### Inventory

| Component | Source (`nsxt/`) | State it keeps | Operations | Hard behaviour |
|---|---|---|---|---|
| Upgrade execution | `resource_nsxt_upgrade_run.go` | on NSX: component and overall status, upgrade plan, staging; in Terraform: the configuration | create/update = configure plan, then upgrade component by component; delete forgets | NSX progresses between calls, manager restarts, partial upgrades resumed by later applies, failures anywhere |
| Upgrade preparation | `resource_nsxt_upgrade_prepare.go`, `data_source_nsxt_upgrade_prepare_ready.go`, `resource_nsxt_upgrade_precheck_acknowledge.go` | bundles, coordinator version, prechecks and acknowledgements | upload, accept, upgrade coordinator, run and acknowledge prechecks | read has side effects, acknowledgements carried over a new run |
| Post checks | `data_source_nsxt_upgrade_postcheck.go` | - | wait and list | - |
| Locale services | `gateway_common.go`, `resource_nsxt_policy_tier0_gateway.go`, `resource_nsxt_policy_tier0_gateway_ha_vip_config.go`, `resource_nsxt_policy_gateway_redistribution_config.go`, `policy_utils.go` (`retryUponPreconditionFailed`) | one NSX object with a revision, parts of which belong to different resources | patch, read-modify-write with retries | concurrent writers, stale revisions |
| Firewall exclude list members | `resource_nsxt_policy_firewall_exclude_list_member.go` | one NSX list with a revision, one resource per member | read-modify-write with retries | concurrent writers, lost answers |
| Manager cluster | `resource_nsxt_manager_cluster.go`, `resource_nsxt_cluster_virtual_ip.go` | the nodes of the cluster | join and remove node by node | failure between two nodes, nodes that the state does not know |
| Segments | `segment_common.go` | a segment and its ports | delete waits for ports to go | ports attached after the wait |
| Rule sequence numbers | `policy_common.go` | - | numbers for the rules of a policy | given and generated numbers share a space |
| VM tags | `resource_nsxt_policy_vm_tags.go` | tags of a VM and its ports | written call by call | failure between calls |
| Provider configuration | `provider.go`, `utils.go`, `policy_errors.go` | NSX version and licenses, set up on demand | connect, retry | unsynchronised initialisation |
| Listing by pages | `utils.go`, `resource_nsxt_policy_vm_tags.go`, `gateway_common.go` | - | loops over cursors | objects deleted between pages |
| Realization waits | `*_realization.go`, transport nodes, VPC subnets | - | one polling loop each | - |
| Life of the resources | `resource_nsxt_*.go`, `policy_utils.go`, `policy_errors.go` | one NSX object each, and its copy in the Terraform state | check, create, read, update, delete, import | lost answers, requests sent again, stale revisions, objects changed and deleted by others, what a failed function leaves in the state |
| Lookups of the data sources | `data_source_nsxt_*.go`, `policy_search.go` | - | list and choose by name | lists that change between pages |
| API wrappers | `api/`, `tools/` | - | generated dispatch | - |
| Schema reflection | `nsxt/metadata/` | - | generic conversion | - |

What makes each of them correct:

* **Upgrade execution.** Components are upgraded in the order of
  `getUpgradeComponentList`, one at a time, each with the plan configured for
  it; a plan is never changed under a running upgrade; an apply that reports
  success has upgraded everything it could; every apply ends.
* **Upgrade preparation.** An upgrade is ready only if everything has been
  checked for the bundle that is in place and no finding is open; running the
  checks again loses no acknowledgement and makes up none.
* **Locale services.** No resource loses or undoes what another wrote.
* **Exclude list.** The list holds exactly the members whose resources exist.
* **Manager cluster.** An apply that succeeds has formed the cluster of the
  configuration and leaves no node of its own behind.
* **Life of the resources.** An apply that succeeds has applied the
  configuration; nothing that others wrote is overwritten unseen; an object is
  lost only with a lost answer; applied again, everything ends as configured.
* **Lookups of the data sources.** What is there all the time is found, unless
  the list has changed; what is found twice is there twice.
* **Segments.** A segment with ports is not deleted.
* **Rule numbers.** Strictly increasing, and given numbers are kept.
* **VM tags.** After an error, a second apply completes the tags.
* **Provider configuration.** Version and licenses are set before use.
* **Listing by pages.** Terminates, and returns every object that was there
  all the time, once.

## 2. Plan

Most important first; each module is written to be proved about as well as
checked (parameters are constants with named assumptions, one action per call,
invariants in named parts, no recursive operators).

1. `UpgradeCoordinator`, `UpgradeRun`, `UpgradeRunProofs` - done.
2. `PartRegisters`, `LocaleService`, `LocaleServiceProofs` - done: the shared
   object, `retryUponPreconditionFailed` and the three kinds of writers; the
   abstract specification makes each owner's part a register; the refinement
   is checked and proved.
3. `ExcludeList`, `ExcludeListProofs` - done: the same retry loop over one
   list, refining the same `PartRegisters`, checked and proved.
4. `UpgradePrepare`, `UpgradePrepareProofs` - done: bundle, coordinator,
   prechecks, acknowledgements and the ready data source, up to the ready id
   that `UpgradeRun` asks for; the safety properties are proved.
5. `ManagerCluster`, `ManagerClusterProofs` - done: join and remove loops with
   failures; the safety properties are proved.
6. `ResourceKinds`, `Lifecycle`, `LifecycleProofs` - done: one protocol for the
   life of a resource, and for each of 177 resources the profile that selects
   its variant of it; the safety properties are proved for every profile.
7. `DataSources`, `Lookup`, `CountingProofs`, `LookupProofs` - done: one
   protocol for listing and choosing, and the profiles of 84 data sources; the
   safety properties are proved for every profile, any number of objects and
   pages of any size.
8. `RulePolicy`: sequence numbers as a recursive function, checked against a
   reference over bounded rule lists; lemmas on order. Left.
9. `ProviderInit`, the version and licenses set up on demand by threads that
   run at the same time, and `VMTags`, the tags port by port (`Lifecycle` has a
   failure leave any part of them). Left.
10. Node users and edge transport nodes, which need a protocol of their own
   (section 7). Left.

Every safety property that a run checks is proved (section 5). The theorem left
is the order lemma of 8.

## 3. Modules

### UpgradeCoordinator, UpgradeRun

`UpgradeCoordinator` is NSX as `resource_nsxt_upgrade_run.go` uses it, and is
external to the repository: a status for each component, an overall status
that follows with a lag (`NsxSettle`), the plan of EDGE and HOST, staging, and
a manager that stops answering after its own upgrade (`NsxRestart`). It refuses
no call. That the provider never makes a call NSX would have to refuse is what
the properties say, so it must not be built in.

`UpgradeRun` is the resource. `pc` names the call the apply makes next, so NSX
moves between any two calls.

| Code | Model |
|---|---|
| `resourceNsxtUpgradeRunCreate`, `Update`, `upgradeRunCreateOrUpdate` | `ApplyStart`, `Begin`, `Finish` |
| `prepareUpgrade` | `PrepareSkip` ... `PrepareDone`, one action per call |
| `runUpgrade` | `RunSkipFinalize` ... `RunDone` |
| `waitUpgradeForStatus` | `WaitUntil`, `WaitUnexpected`, `Timeout`, `Panic` |
| `getPartialUpgradeMap` | `MayPause` |
| `d.HasChange` | `saved` differs from `desired` |
| `resourceNsxtUpgradeRunDelete` | `Destroy` |
| failing call, lost answer, groups written in part | `CallError` |
| interrupted Terraform | `Kill` |

The configuration of a component is reduced to what the control flow tells
apart (`PlanChoice`): nothing configured, all groups enabled, some group
disabled or pausing, some group staged in vLCM. `"mixed"` is what a
configuration that failed half way leaves on NSX. `saved` is the Terraform
state: an update that fails is saved as if it had succeeded, because the code
does not set `d.Partial(true)`; a process that dies saves nothing.

### PartRegisters, LocaleService

`PartRegisters` is the abstract specification: a part of a shared object is
written by the operations of its owner only, to the value the operation wants,
and an operation that succeeds leaves it so. It knows no revisions, no retries
and no faults other than an operation that ends in an error.

`LocaleService` is the code. Terraform runs the operations of the three owners
at the same time; each is a short sequence of calls.

| Code | Model |
|---|---|
| HA VIP and redistribution create and update: patch of one part | `Find`, `Patch` in `Write`, `ReadBack` |
| their deletes: read, clear the part, write all of it back, in `retryUponPreconditionFailed` | `Get`, `Put` in `Write`, `Refused`, `Again` |
| gateway: list the locale services, then one patch of the hierarchy with the revision that was read | `List`, `PatchGateway`, `Remove` |
| `_revision` check of NSX (external) | `Put`, `Fresh` |
| connection errors that become InvalidRequest, and are retried | `CallFails` |

`Kept` stands for the two ways the gateway is configured: `locale_service`
blocks keep the HA VIP configuration of the copy, `edge_cluster_path` sends
the whole copy back.

### ExcludeList

The exclude list as a sequence, one resource per member. `GetToAdd` and
`GetToRemove` are the two `readAndUpdate` closures, `Put` the update with the
revision that was read, `Refused` and `Again` the retry loop. `inState` says
whether Terraform holds the resource: set by `d.SetId` before the read that
ends a create, so that a create whose read fails leaves a (tainted) resource.
The same `PartRegisters` is what it implements, a member being a part that is
on or off.

### UpgradePrepare

What comes before `UpgradeRun`: three resources that depend on each other, in
one Terraform run, and NSX, which uploads, upgrades its coordinator and checks
in its own time. `pc` is the next call of the function that runs, `doing`
which function that is: a refresh is a Read too, and runs all checks again.

| Code | Model |
|---|---|
| `resourceNsxtUpgradePrepareCreate`, `Update`, `prepareForUpgrade` | `Plan`, `UploadBundle`, `WaitForBundleUpload`, `AcceptUserAgreement`, `UpgradeUc`, `WaitForUcUpgrade` |
| `resourceNsxtUpgradePrepareRead`, `getSummaryInfo` | `Summary`, `Previous`, `ExecutePreupgradeChecks`, `WaitForPrecheckComplete`, `AcknowledgePrecheckWarnings`, `Reacknowledged`, `ReadFailures` |
| `resourceNsxtUpgradePrecheckAcknowledge*` | `AcknowledgePrecheckWarnings`, `Acknowledged` |
| `dataSourceNsxtUpgradePrepareReadyRead` | `Ready` |
| a function that fails | `Fail`, with what is left in the state: `FailedPrepare`, `FailedAck` |

A changed `upgrade_bundle_url` forces a new resource (`ForceNew`,
`resource_nsxt_upgrade_prepare.go:50`), and so does a taint: `Prepares`. `Plan`
then deletes what is in the state and goes on with Create, which uploads the
bundle; an Update, for anything else that has changed, never does. What a
replacement leaves when it fails is therefore no resource, or a tainted one if
Create has come to its Read (`FailedPrepare`), and a new bundle on NSX in either
case. The target version of a replaced resource is not known, and so the
acknowledgements are replaced with it (`AckPlan`).

`strict` stands for the two ways NSX may answer the acknowledgement of a
warning it has not found. Both Delete functions do nothing. `had`, `busy`,
`asked`, `refreshed` and `disturbed` are history, for the properties.

### ManagerCluster

One resource, one loop of removals and one of joins; `toRemove` and `toJoin`
are what is left of them: the places of the nodes that a loop will not skip, in
the list of the state and in that of the configuration. Neither list changes
while a loop runs. `Plan` chooses the function, `Info`, `NoAddress` and `GiveUp`
are `getClusterInfoFromHostNode`, which reads the cluster until its first node
has an address, at most `max_retries` times, and so fails without any call having
failed, always if `max_retries` is 0; `RemoveNode`, `RemoveMissing` and `JoinNode` the
bodies of the loops, `Looped` their end, `Refresh` and `Read` the Read of the
resource, which keeps of the listed nodes those that are in the cluster.
A node is removed by the id the state has for it, and joined by its address:
after an update that failed, the state may pair the address of one with the id
of another (`Saved`).

### ResourceKinds, Lifecycle

Most resources are one object, or a setting of one, with four functions. What
distinguishes them as protocols is a profile: who names the object, whether
Create checks the name first, which request creates and which updates, with
what revision, whether a failed Update asks for a partial update, what an
object that is gone is to Read and to Delete, and the further calls that some
make. `ResourceKinds` has a definition for each resource, and its entry in the
map is the four functions. `Lifecycle` is what all of them do: one action per
call, with the calls that fail, are lost, or are sent again (`SentAgain`:
`getPolicyConnectorWithHeaders`), a Terraform that is killed, and others who
create, change and delete.

| Code | Model |
|---|---|
| `getOrGenerateID`, `getOrGenerateID2`, `getOrGenerateIDWithParent` | `Check`, `NameFree` |
| Create | `Check`, `Write`, `Second`, `Undo`, then a Read (`readCreated`) |
| Read, `handleReadError` | `ReadFinds`, `ReadMisses`, `Forgets` |
| Update, `handleUpdateError`, `d.Partial(true)` | `Get`, `Write`, `WriteRefused`, `Clear`, `FailedState` |
| Delete, `handleDeleteError` | `WaitBefore`, `Get`, `Delete`, `DeleteRefused`, `WaitAfter` |
| `nsxtPolicyPathResourceImporter` and the like | `Import` |

An object holds a value, perhaps a secret, and a revision; `origin`, `seen` and
`doubt` are history. The arguments of a resource are one value because the
properties only ask whether it is the one that was configured, or another: it
stands for what every Create and Update sends and every Read returns.

`secret` stands for the arguments that no Read returns, the passwords and keys of
seven resources (`hides`); Read leaves them as they are in the state
(`Remembered`). `nsxt_policy_bgp_neighbor` sends its password only if it has
changed (`resource_nsxt_policy_bgp_neighbor.go:301`), the others with every
write (`Sends`). None of the seven asks for a partial update, so that an Update
that fails saves a secret that was not applied, and no refresh shows it. `doubt`
says that this has happened since the secret was last sent, or that others have
been at the object: what the state says of it cannot be relied on (`Known`).

Some writes are two requests (`halves`): the router and its advertisement, a
project and its default security profile, a virtual machine and its ports. If the second
fails, the object may hold any value (`Half`).

### DataSources, Lookup

`DataSources` has the profile of each data source: which listing it uses, and
how it chooses. `Lookup` is the listing: `Fetch` asks for a page and counts it
against what the first has announced (`handlePagination`, `searchLM`), `Take`
chooses, `Get` is the lookup by id, and `Create` and `Delete` are other users,
between any two pages. Objects have the name, a name that begins with it, or
another. Objects are numbered in the order in which NSX lists them, so that a
page is a set of numbers, and what comes before it is a number of them
(`Before`); what has matched is kept with its place among all that has come, so
that an object that comes twice is there twice.

## 4. Runs

| Run | Asks | Bounds |
|---|---|---|
| `upgrade_run` | order, one at a time, plans at rest, as configured, honest success, every apply ends | all releases, 3 applies, every fault: 500,764 states |
| `locale_service` | each part is a register; giving up needs contention | 2 values, 1 retry, 4 operations or foreign changes, 1 fault: 2,487,101 states |
| `exclude_list` | no duplicate, state and list agree, each member a register | 3 members, 1 foreign, 1 retry, 5 operations, 2 faults: 373,728 states |
| `lifecycle` | success means applied, the state is never ahead, nothing unseen overwritten, nothing taken over, nothing lost, convergence | every kind, 2 values, 2 secrets, 1 retry, 2 faults, 1 foreign change, 1 edit: 736,917 states |
| `lookup` | nothing that stayed is missed, nothing found twice that is not, listings end | every kind, 3 objects, pages of 1: 732,806 states |
| `cluster` | success means formed and nothing left behind, failures need trouble, convergence | 3 nodes, 1 retry, 2 faults, 1 foreign change, 1 edit: 696,633 states |
| `prepare` | ready means checked, acknowledgements kept and not invented, it gets ready | 2 components, 2 warnings, 1 failure, 2 troubles: 748,958 states |
| `upgrade_restart`, `upgrade_reapply`, `upgrade_finalize`, `upgrade_lost_plan`, `exclude_absent` | the findings below | the smallest that show them |

Why the bounds are enough. *Upgrade:* three applies let one fail, a second
change the configuration of what the first left, and a third resume; a further
apply starts from NSX and Terraform states of the same kinds. The choices of
`EDGE` and `HOST` include one that pauses and one that does not, so both
branches of the partial-upgrade check are taken before and after each other.
*Locale service and exclude list:* an operation needs one other writer between
its read and its write to be refused, and with one retry it needs two to give
up; four and five operations allow that with a third party besides. One retry
has both a try that is not the last and one that is. *Lifecycle:* what goes wrong
needs at most an apply that fails, something that happens to the object
meanwhile, and an apply after it; two faults let the second apply, or the
rollback, fail too. A change of the configuration between them makes the
values that were not applied differ from those that are asked for. Which value,
and which secret, is configured at first (`FirstValues`, `FirstSecrets`) makes no
difference, because they are interchangeable: the run begins with one of each.
*Lookup:* with pages of one object, three objects make a first page, a page in
the middle and a last one, and each can be created or deleted between any two
of them. *Cluster:* with three nodes a loop can fail before, between and after
others, and removals can be followed by joins. *Prepare:* a trouble is a
failure, something an administrator does or a change of the configuration:
two of them in any order; two components let one still run when the other is
done, and warn or fail independently. The theorems of section 5 lift these
bounds where they apply.

Fairness is stated in the `FairSpec` of a module. In `UpgradeRun` it is
`WF_vars(ApplyStep)`, the provider's process goes on running, and
`WF_vars(Environment)`, NSX ends an upgrade that is in flight, in whatever
status, updates its overall status and comes back after a restart. No fairness
is given to faults or to `Timeout`, so no apply is ended by its timeout; and
none to `ApplyStart`. In `Lifecycle`, `ManagerCluster` and `UpgradePrepare` it
is `WF_vars(Progress)`, every call returns or fails and so does every wait,
which all have timeouts; `SF_vars(Info)` in `ManagerCluster`, the manager has an
address in one of the reads, sooner or later, without which no apply would ever
form a cluster; `WF_vars(Nsx)` in the last, for what NSX has begun;
and `SF_vars(BeginAgain(TRUE))`: the user applies again, sooner or later, with
the refresh that Terraform makes by default, which is not something the code
does but what convergence is about. In `Lookup` it is that every call is
answered. Where a bound can be used up, `Quiescent` lets a behaviour stop
once nothing runs; deadlock is checked in every
run, and means an operation that can take no step.

### What convergence leaves out

`Converges` and `GetsReady` hold but for states that no further apply mends.
The models name them, and they are where the code can be argued about.

* `Lifecycle!Stuck`: the name is taken by others, or by an object that the
  provider created and whose id it lost, because the answer or the process was
  lost before `d.SetId` was saved; the parent of a setting is gone; the Read of
  an object that is gone makes an error of it (`nsxt_nat_rule`, `nsxt_vm_tags`,
  the RTEP of a transport node) and never forgets it; the PUT leaves the
  revision out (`nsxt_dhcp_server_ip_pool`, `nsxt_policy_role_binding`), so
  that the second update is refused if NSX insists on it.
* `ManagerCluster!Stuck`: a node has joined in a Create or Update that then
  failed, the state does not know it, and the next Create or Update joins it
  again. The comment over Create (`resource_nsxt_manager_cluster.go:217`)
  speaks of "nodes that are not in the cluster", but nothing looks.
* `Lifecycle!Unseen`: a secret that the state has and the object has not. An
  Update that was to change it has failed and saved it all the same
  (`resource_nsxt_policy_bgp_neighbor.go:417`, `resource_nsxt_compute_manager.go:423`,
  `resource_nsxt_policy_ldap_identity_source.go:148` and the like), or others have
  changed it. No refresh shows the difference, and every further apply reports
  success with nothing applied, until the secret is changed once more (or, where
  every write sends it, anything else). `OkMeansApplied` asks the secret only of a state that can be
  relied on (`Known`).
* `UpgradePrepare!Forgotten`: the coordinator fails and the wait takes that for an
  end (`resource_nsxt_upgrade_prepare.go:485`): nothing differs any more, Read
  skips the checks because the coordinator is not updated, and the data source,
  finding no findings, says ready. `ReadyMeansChecked` has `uc = "updated"` in
  front of its second part for this reason.
* `UpgradePrepare!LostAcks`: killed, or failed, between the new run of the
  checks and the acknowledgements (`:243-247`), the provider was the only one
  to remember them.

Also seen and not given a run: `website/docs/r/upgrade_prepare.html.markdown`
says that errors of the prechecks make the creation fail, while Read records
them and only the data source fails; the Delete of a cluster that meets a node
that is gone, for instance because its own request was sent again, reports
success and leaves the rest (`resource_nsxt_manager_cluster.go:515`;
`OkLeavesNothing` is about results other than this one); the tags of a policy
virtual machine report success for any error of the lookup
(`resource_nsxt_policy_vm_tags.go:427`), as the comment there says they should
(`OkMeansApplied` leaves that kind out); the Update of a firewall section to no
rules deletes the rules one by one, without a revision, also after its PUT was
refused as stale, and with them rules that others have just written
(`resource_nsxt_firewall_section.go:399`; `NothingUnseenOverwritten` leaves that
kind out); the pause between two reads of the cluster panics if the two intervals
it is drawn between are equal (`resource_nsxt_manager_cluster.go:273`); listings that read the first page only
miss what is behind it (`data_source_nsxt_edge_cluster.go:81`), which
`NothingStayedMissed` asks only of lists of one page.

### Findings

Each is a run that violates what a comment or the documentation says.

1. `upgrade_restart`: a poll that fails makes `waitUpgradeForStatus` panic (a
   nil pointer in a non-nil interface, `resource_nsxt_upgrade_run.go:570,587`).
   With 9.0.0 and later the restart of the manager is enough: only the wait
   for MP tolerates it, and the overall wait of EDGE comes right after.
2. `upgrade_reapply`: after a complete upgrade every further apply fails in the
   wait for the overall status (`:798`), which does not accept SUCCESS.
3. `upgrade_finalize`: `finalize_upgrade_setting` is looked at only when it has
   changed (`:426`); an update of something else finalizes although it is off.
4. `upgrade_lost_plan`: after an update that failed, the next apply sees no
   difference and starts the component with a plan that was not configured.
5. `exclude_absent`: on an exclude list that does not exist, every create
   reports AlreadyExists (`resource_nsxt_policy_firewall_exclude_list_member.go:76-85`).

## 5. Proofs

The theorems hold for every value of the constants, under the assumptions the
modules name: `ChoicesAssumption` (what a configuration may hold, any bound on
applies, faults or none); `ValueAssumption` (at least one value, `None` not
among them, the bounds natural numbers); `MemberAssumption` (no member is both
managed and foreign, or the name that stands for no root);
`UpgradePrepareAssumption` (the warnings and failures are those of components,
the bound on troubles a natural number) and `AbsentAssumption` (`Absent` is not a
resource); `ManagerClusterAssumption` (finitely
many nodes, `None` not among them, the bounds natural numbers, and the name that
stands for no resource not a resource); `LookupAssumption` (the kinds are
profiles, there is at least one object and one in a page, and what takes every
object asks for every object); and, for
`Lifecycle`, `LifecycleAssumption`, `AbsentAssumption` and `KindsAssumption`.
The first says that there is a value, that what is configured at first is among
the values and secrets, and that `None` is neither; the last says of the profiles
what the proofs need: a resource with a deletion of its own kind is a setting at a
fixed place; one that forgets its object after any error is such a setting, is
patched, and asks for no partial update; and one with a secret is an object of its
own, whose Update is one request that clears nothing, followed by Read. TLC evaluates them all; with `Kinds <- AllKinds`, `KindsAssumption` is
checked of each of the 177 resources, and the theorems hold for each.

| Theorem | Statement |
|---|---|
| `UpgradeRunProofs!TypeCorrect` | `Spec => []TypeOK` |
| `UpgradeRunProofs!UpgradeOrderHolds` | `Spec => []UpgradeOrder` |
| `UpgradeRunProofs!StartsDoNotOverlap` | `Spec => NoOverlappingStart` |
| `UpgradeRunProofs!PlanChangesAtRest` | `Spec => PlanChangedOnlyAtRest` |
| `UpgradeRunProofs!StartsAsConfigured` | `Spec => StartedAsConfigured` |
| `UpgradeRunProofs!SuccessMeansUpgraded` | `Spec => []OkMeansUpgraded` |
| `UpgradePrepareProofs!TypeCorrect` | `Spec => []TypeOK` |
| `UpgradePrepareProofs!ReadyIsChecked` | `Spec => []ReadyMeansChecked` |
| `UpgradePrepareProofs!NothingForgotten` | `Spec => []AcknowledgementsSurvive` |
| `UpgradePrepareProofs!NothingUnasked` | `Spec => []OnlyWhatWasAsked` |
| `LocaleServiceProofs!TypeCorrect` | `Spec => []TypeOK` |
| `LocaleServiceProofs!GivesUpUnderContention` | `Spec => GivesUpOnlyUnderContention` |
| `LocaleServiceProofs!Refinement` | `Spec => PartsAreRegisters` |
| `ExcludeListProofs!TypeCorrect` | `Spec => []TypeOK` |
| `ExcludeListProofs!NoneListedTwice` | `Spec => []ListedOnce` |
| `ExcludeListProofs!ListAgrees` | `Spec => []StateMatchesList` |
| `ExcludeListProofs!Refinement` | `Spec => MembersAreRegisters` |
| `LifecycleProofs!TypeCorrect` | `Spec => []TypeOK` |
| `LifecycleProofs!SuccessIsTrue` | `Spec => []OkMeansApplied` |
| `LifecycleProofs!StateTrails` | `Spec => []StateNeverAhead` |
| `LifecycleProofs!CreatesOnlyFree` | `Spec => CreateTakesOnlyFree` |
| `LifecycleProofs!NothingLost` | `Spec => NothingUnseenOverwritten` |
| `LifecycleProofs!LossIsForced` | `Spec => LossNeedsLostAnswer` |
| `ManagerClusterProofs!TypeCorrect` | `Spec => []TypeOK` |
| `ManagerClusterProofs!SuccessMeansFormed` | `Spec => []OkMeansJoined` |
| `ManagerClusterProofs!SuccessLeavesNothing` | `Spec => OkLeavesNothing` |
| `ManagerClusterProofs!TroubleIsForced` | `Spec => []FailsOnlyInTrouble` |
| `LookupProofs!TypeCorrect` | `Spec => []TypeOK` |
| `LookupProofs!NothingMissed` | `Spec => []NothingStayedMissed` |
| `LookupProofs!MultipleIsTrue` | `Spec => []NoFalseMultiple` |
| `LookupProofs!ListingAdvances` | `Spec => Advances` |

**Upgrade.** `UpgradeOrder` is not inductive. That a component about to be
started has only upgraded components before it rests on where the loop of
`runUpgrade` is and on what it remembers: `PrefixDone` says that everything
behind the loop is upgraded, or that one component was left paused and that
`prevPartial` names it; `PrevIsBehind` that this component is behind the loop,
so that the check at its head (`RunCheckPrevious`) waits for the right one.
That this stays true although NSX moves needs `OverallIsSafe` (a static overall
status means nothing is in flight) and `QuietBeforeStart` (nothing gets going
between the wait and the start). `PrepareAtRest` gives the rule on plans,
`PlansInPlace`, `StagedInTime` and `FinalizeWanted` the one on configurations;
`ListFacts` collects what is used of the component list: no component twice,
EDGE before HOST (without which `hasVLCM` would be lost), finalization last.
Each is shown of `Init` and of every step, the steps first reduced to the one
call they make on NSX (`NsxMove`).

`OkMeansUpgraded` needs more: the loop passes over a component without waiting
if it was upgraded before (`BeforehandDone`), or is the finalization that is not
wanted (the second case of `Done`); it remembers a component only if that may
end paused (`PrevMayPause`); and the output is read only when the loop is over
(`ReadAtEnd`). With `PrefixDone` an apply that gets there has upgraded
everything, or has one paused component and everything before it upgraded,
which `OkAtRest` keeps until the next apply begins.

**Preparation.** `ControlOK` says which functions run with a resource in the
state. `AskedOK` is `OnlyWhatWasAsked` for what is acknowledged and for what is
still to be (`left`, remembered from before the new run). `RememberedOK` follows
an acknowledgement through the Read: it is on NSX, or remembered from the call
that lists it to the one that gives it again, and the checks that run find the
problems there are. `BusyOK` says that the coordinator is upgraded only while the
provider waits for it, or after an apply that has failed. `ReadyOK` says for each
call after the checks that they are complete, and for the bundle in place; from
these and `AskedOK` the three properties follow. `PlaceOK` follows the bundle
itself: where a function is behind the upload, or a resource that is not to be
replaced is in the state, the bundle of its url is in place, however many
replacements have failed in between.

**Locale service.** The invariant is, for each owner, `Role` (which calls it
makes, with what it wants), `FreshCopy` (a copy that has the current revision
has the current content, so that writing it back changes the owner's part
only), `ReadsItsWrite` (from its write to its end an operation's part is as it
wants it) and `Effort` (each refused try has met a change or a failed call since
the operation began), together with `Alone` and `Gone` for the removal of the
service. The refinement then goes by cases: a call that takes effect is a
`Write` of its owner, whether it succeeds, fails afterwards or is tried again;
what reads is a stutter; what ends is a `Succeed` or a `Fail`; `OtherUser` is
an `Other`.

**Exclude list.** The list is a sequence, so the proofs begin with what
`Append` and `RemoveFirst` do to a sequence without repetitions (`Appended`,
`Removed`): this is where `ListedOnce` is needed, because a delete takes out the
first occurrence only. `ListedOnce` and `StateMatchesList` become inductive
with `FreshCopy` (a copy of the current revision is the list, and has the
member exactly if it is to be taken out), `ReadsItsWrite` (a member that is read
back is listed and its resource in the state) and `Gone`. `EffectWrites` says
what a call does that takes effect, `OwnStep` that a step of one operation
disturbs no other; the steps of the code are instances of it. The refinement
goes as above.

**Lifecycle.** Each property relates the object to the Terraform state across
applies that failed, so the invariant says for each call what it can rely on.
`ControlOK`: which calls run with and which without a resource in the state.
`HeldOK`: what the object holds has been written, and the call after an accepted
write finds that the wanted value has been held (`StateNeverAhead` rests on it).
`OriginOK`: an object that Terraform has created is in the state, or the function
that created it is still running (this gives `LossNeedsLostAnswer`), and between
the check of the name and the create only Terraform itself, or others meanwhile,
can have made the object (`CreateTakesOnlyFree`). `SeenOK`: a revision that is
sent is not ahead of what was seen of the object (`NothingUnseenOverwritten`).
`MatchOK`: after a refresh and with nobody else there, the state agrees with the
object wherever a function begins, and the calls after a write find what was
wanted (`OkMeansApplied`). `SecretOK`: as long as there is no doubt, the secret of
the object is the one in the state, unless an import has left none there, or the
one wanted where it has just been sent;
an Update that leaves it out was not to change it. The steps are reduced to three forms first, a move to
the next call, an end, and a call that fails.

**Manager cluster.** That an apply has formed the cluster is a fact about loops
that skip: a node that Update does not join must be there already. `Known` says
why it is: after a refresh the state lists only nodes that are in the cluster
(while no administrator has been there), each with its own id. `Joins` follows
it through the loops: every node of the configuration is in the cluster or its
place is still to come, and no removal takes one away, because `Keeps` says that
Update removes nothing it is to keep and `Known` that the ids are the right
ones. Without the refresh neither holds: an Update that failed may have paired
the address of one node with the id of another. `Leaves` is the counterpart for
`OkLeavesNothing`: what the resource has joined and is not to keep has a place
that is still to be removed. `Phases` says which function runs with what is left
of its loops. `FoundFacts` is what Read keeps: the nodes of the list that are in
the cluster, all of them, in order; it rests on `CountingProofs!RankOnto`.
`Untroubled` is about applies before anything has gone wrong, refreshed or not:
the state, the cluster and what the resource has joined agree between two
functions (`Agree`), and within one but for what is left of its loops
(`Underway`), so that no call can be refused, and only `GiveUp` can end it
otherwise, which `gaveUp` remembers. `Stuck`, which `Converges` excepts,
is therefore always the trace of a trouble.

**Lookups.** The properties speak of what was there all the time, in a list that
others change between two pages, and the argument is a count. While nothing is
created, what is left behind the cursor is not more than what was announced and
has not come (`NoneMissed`): so when as many have come as were announced,
nothing is left, and everything looked for has come (`AllSeen`). If objects are
deleted meanwhile the last page comes too early, without a cursor, and the
listing begins again with the first page: then everything has come already
(`HaveCome(stayed)`, the first case of `NoneMissed`), and may come twice. While
nothing is deleted, what is left is at least what is still expected
(`NoneTwice`): the last page is the end, no page comes again, and nothing comes
twice (`Distinct`), so that several candidates are several objects. For pages by
number the two exchange roles: what has come is what stands before the number of
objects that have come, which deletions move forward and creations back.
`Going` says where a listing stands that goes on. `PageFacts`, `CursorFacts`,
`PageAfterCursor` and `PageFull` say what a page is in these terms.
`ListingAdvances` is the part of `Ends` that needs no fairness: every request
but the last adds to a count that `TypeCorrect` bounds, or follows a page that
has found nothing behind the cursor.

`CountingProofs` holds what both need of finite sets of numbers: least and
greatest elements, and ranks, which are in the order of the numbers (`RankAfter`)
and leave none out (`RankOnto`). The induction theorems of the library take an
operator, which the provers cannot instantiate; that `<` is well-founded on the
naturals (`NatLessThanWellFounded`) is a statement about sets, gives
`LeastElement`, and does as well.

## 6. Model-checked only

* `ApplyEnds`, `Converges` (of `Lifecycle` and of `ManagerCluster`), `Ends`,
  `GetsReady`: liveness under fairness is out of the proof system's reach.
* The findings: a counterexample needs no proof.

## 7. What is not modelled, and why

* *Upgrade run.* The text of errors, the computed `upgrade_group_plan` and
  `state` output, and how groups are written one by one: a plan is one of the
  choices of section 3, and a partly written one is `"mixed"`. Of the errors
  that are tolerated while waiting for MP only the unavailability of the
  manager is a state of the model. Nobody upgrades from the NSX UI at the same
  time (`website/docs/guides/upgrade.html.markdown:15-16` assumes that nobody does).
* *Locale service.* Terraform orders the removal of the service after the
  deletion of what depends on it, so `Begin` removes it alone. A
  `locale_service` block without `nsx_id` is a new service, not a change of
  this one. The deprecated `redistribution_config` block of the gateway, and
  the gateway's own fields, are left out. The revision of a service that is
  created again goes on counting.
* *Exclude list.* Other users do not take out a member that has a resource:
  what follows then is a difference that Terraform shows. Import is left out.
* *Upgrade preparation.* The precheck bundle is one more upload of the same
  kind. The user agreement is taken as accepted. A request of a lost answer is
  not sent again: each is idempotent, or is made again by the next apply. The
  post checks are one wait and a listing.
* *Manager cluster.* Credentials, thumbprints, the choice between address
  families, and probing, which fails like a call.
* *Lifecycle.* The arguments of the resources, what validates them before any
  call, and differences within a value: a resource is configured as a whole,
  but for the secrets. The path of a parent is part of the place of an object, and
  options of one call (`force` of the cluster's virtual address,
  `ignore_overridden_hosts`, `overwrite_local_user`, `insert_before`) are no
  content. References between resources, which Terraform orders. Waits for a
  realization that only read are calls that may fail. Resources whose functions
  do more are modelled on their own, or are in the list above. Several
  resources on the same object are modelled where the code expects them
  (locale services, exclude lists).
* *Node users* (`resource_nsxt_node_user.go`). Create leaves `active` out
  (`:113-141`), Update activates or deactivates by a call of its own before the PUT,
  and to change the password names the old one (`:179-216`), which the provider has
  never read: after an Update that failed it names one that was never set.
* *Edge transport nodes* (`resource_nsxt_edge_transport_node.go`). Create may take
  over a node that exists, through Update (`:902-937`); Read stores `node_id`, and
  with it in the state an Update leaves out the whole of the deployment
  (`:840-884`), so that what is configured there is not one value with the rest.
* *Lookup.* Arguments other than the name that narrow a search down; data
  sources that read one object by its path.
* *Everything else in the inventory* is planned in section 2 or is generated,
  a conversion, or a single polling loop, and has no interleaving that a model
  would add to.
