------------------------------ MODULE Programs ------------------------------
(***************************************************************************)
(* What the handlers of the two interpreters and the domain services do     *)
(* with a call, one table for each stretch of the source: args/index.ts,    *)
(* cli/adapter.ts, native/linux.ts, libzfs.ts and libzfs-extra.ts,          *)
(* services/*.ts.  Module Calls runs them.                                  *)
(*                                                                         *)
(* Every library and symbol is loaded, except zpool_vdev_remove_cancel,     *)
(* which may be missing.  Options that only shape a call (force, properties, *)
(* formats, ...) are left to it.  Where the object may be left out, "all"    *)
(* stands for that; "name" is an option where a name is looked at together   *)
(* with "all".  The native destroy, rollback, send and receive are the      *)
(* subject of Destruction, NativeSend and NativeReceive.                    *)
(***************************************************************************)
EXTENDS Operations

(* A handler: how it works through its objects; the options it never reads, *)
(* or not on every path; those it refuses, those it cannot do without, and  *)
(* those it asks the version of the tools for; how it learns which children *)
(* there are: from what does the work, by a walk of libzfs whose return     *)
(* code nobody looks at, or by such a walk made when the effect is built;   *)
(* and what else happens when the effect is built.                          *)
Handler(how) ==
    [how |-> how, drops |-> {}, may |-> {}, refuses |-> {}, needs |-> {},
     gated |-> {}, lists |-> "run", eager |-> "no"]

(* One handler for two cases: with the option, and without.                *)
Fork(option, yes, no) == [on |-> option, yes |-> yes.yes, no |-> no.no]
Always(h) == [on |-> "always", yes |-> h, no |-> h]

(* A command of zfs or zpool, or one libzfs function; one lzc call.         *)
Once  == Always(Handler("once"))
Call  == Always(Handler("call"))
Each  == Always(Handler("each"))
Never == Always(Handler("never"))

(* One call for each object, where a failure is not told, or not always, or *)
(* told only after all of them.                                            *)
Silent == Always(Handler("silent"))
Quiet  == Always(Handler("quiet"))
GoesOn == Always(Handler("goesOn"))

Change(p, F(_)) == [p EXCEPT !.yes = F(@), !.no = F(@)]
Dropping(p, S)  == LET F(h) == [h EXCEPT !.drops = S] IN Change(p, F)
Refusing(p, S)  == LET F(h) == [h EXCEPT !.refuses = S] IN Change(p, F)
Needing(p, S)   == LET F(h) == [h EXCEPT !.needs = S] IN Change(p, F)
Gated(p, S)     == LET F(h) == [h EXCEPT !.gated = S] IN Change(p, F)
MayDrop(p, S)   == LET F(h) == [h EXCEPT !.may = S] IN Change(p, F)
Eager(p, part)  == LET F(h) == [h EXCEPT !.eager = part] IN Change(p, F)
Soon(p)        == Eager(p, "yes")
ListedEarly(p)  == LET F(h) == [h EXCEPT !.lists = "build"] IN Change(p, F)
Walking(p)      == LET F(h) == [h EXCEPT !.lists = "walk"] IN Change(p, F)

-----------------------------------------------------------------------------
(* The options of the arguments, in the order of args/index.ts.            *)
DatasetOptions ==
       "Dataset.List" :> {"recursive"}
    @@ "Snapshot.List" :> {"root", "recursive"}
    @@ "Dataset.Get" :> {"recursive", "targets"}
    @@ [op \in {"Pool.Get", "Dataset.Set", "Pool.Set"} |-> {"targets"}]
    @@ "Dataset.Inherit" :> {"recursive", "targets"}
    @@ "Dataset.CreateFilesystem" :> {"parents", "dryRun"}
    @@ "Dataset.CreateVolume" :> {"dryRun"}
    @@ [op \in {"Dataset.Destroy", "Snapshot.Destroy"} |->
           {"recursive", "names", "dryRun"}]
    @@ "Snapshot.Create" :> {"recursive", "snapshots"}
    @@ "Snapshot.Clone" :> {"parents"}
    @@ [op \in {"Snapshot.Rollback", "Snapshot.Promote", "Pool.Status"} |-> {}]
    @@ [op \in {"Dataset.Rename", "Snapshot.Rename"} |-> {"parents", "recursive"}]

PoolOptions ==
       "Pool.Import" :> {"searchDirs"}
    @@ [op \in {"Pool.Export", "Pool.Create", "Pool.Destroy", "Pool.Reguid",
           "Pool.Upgrade", "Dataset.Exists", "Pool.List", "Pool.LabelClear",
           "Replication.SnaprangeSpace", "Pool.Checkpoint",
           "Pool.GetVdev"} |-> {}]
    @@ "Pool.SetVdev" :> {"fru"}   \* of a vdev given by its path
    @@ "Dataset.Upgrade" :> {"recursive", "all"}

VdevOptions ==
       "Pool.Add" :> {"dryRun"}
    @@ "Pool.Remove" :> {"cancel", "dryRun", "wait"}
    @@ [op \in {"Pool.Attach", "Pool.Replace"} |-> {"wait"}]
    @@ "Pool.Split" :> {"devices", "dryRun"}
    @@ [op \in {"Pool.Detach", "Pool.Online", "Pool.Offline"} |-> {}]
    @@ [op \in {"Pool.Trim", "Pool.Initialize"} |-> {"devices", "wait", "all"}]
    @@ "Pool.Clear" :> {"devices", "dryRun"}

(* Scrub's "range" is startAfter or endBefore; its "wait" is a command that  *)
(* waits for a scrub instead of starting one.                               *)
ScanOptions ==
       [op \in {"Pool.Reopen", "Pool.Sync"} |-> {}]
    @@ "Pool.Scrub" :> {"all", "range", "wait"}
    @@ "Pool.Resilver" :> {"wait"}

(* An estimate of the space is always a dry run.                            *)
TransferOptions ==
       [op \in {"Replication.Send", "Replication.Receive"} |-> {"dryRun"}]
    @@ "Replication.SendSpace" :> {"resumeToken", "redact"}
    @@ "Replication.SendProgress" :> {"fd"}
    @@ "Replication.AbortReceive" :> {}

HoldOptions ==
       [op \in {"Snapshot.Hold", "Snapshot.Holds", "Snapshot.Release"} |->
           {"recursive"}]
    @@ [op \in {"Bookmark.Create", "Bookmark.Destroy", "Bookmark.Get"} |-> {}]
    @@ "Bookmark.List" :> {"root", "recursive"}

UpkeepOptions ==
       [op \in {"Pool.Program", "Snapshot.Redact", "Dataset.Wait", "Pool.Wait",
           "Dataset.Diff", "Dataset.Zone", "Dataset.Unzone", "Pool.GetBootenv",
           "Pool.SetBootenv", "Pool.DdtPrune", "Zfs.Version"} |-> {}]
    @@ "Pool.Condense" :> {"wait"}

KeyOptions ==
       "Crypto.LoadKey" :> {"name", "all", "recursive", "noop", "wrappingKey"}
    @@ "Crypto.UnloadKey" :> {"name", "all", "recursive"}
    @@ "Crypto.ChangeKey" :> {}

ObservationOptions ==
       [op \in {"Pool.EventsClear", "Pool.EventsSeek"} |-> {}]
    @@ [op \in {"Pool.Iostat", "Pool.History"} |-> {"all"}]
    @@ "Pool.Events" :> {"follow"}
    @@ "Pool.Prefetch" :> {"type"}

MountOptions ==
       "Dataset.Rewrite" :> {"recursive", "physical", "skipBrt"}
    @@ "Mount.Mount" :> {"all", "recursive"}
    @@ [op \in {"Mount.Unmount", "Mount.Share", "Mount.Unshare"} |-> {"all"}]

DelegationOptions ==
       [op \in {"Dataset.Allow", "Dataset.ListAllow", "Dataset.Userspace",
           "Dataset.Groupspace", "Dataset.Projectspace"} |-> {}]
    @@ [op \in {"Dataset.Unallow", "Dataset.Project"} |-> {"recursive"}]

FaultOptions ==
       [op \in {"Pool.Freeze", "Pool.Remap", "Pool.SetVdevPath", "Pool.SetVdevFru",
           "Pool.InjectFault", "Pool.ClearFault", "Pool.ListFaults",
           "Pool.ErrorLog", "Dataset.ObjToPath", "Dataset.DsobjToName",
           "Dataset.NextObj", "Dataset.ObjToStats", "Mount.SmbAcl"} |-> {}]

ArgOptions ==
    DatasetOptions @@ PoolOptions @@ VdevOptions @@ ScanOptions
    @@ TransferOptions @@ HoldOptions @@ UpkeepOptions @@ KeyOptions
    @@ ObservationOptions @@ MountOptions @@ DelegationOptions @@ FaultOptions

(* Operations whose arguments are a list of objects.                       *)
ListOperations ==
    {"Pool.Remove", "Pool.Online", "Pool.Offline", "Dataset.Rewrite",
     "Dataset.Project", "Pool.SetBootenv", "Pool.Wait"}

(* Operations that start work the pool goes on with on its own.            *)
LastingOperations ==
    {"Pool.Trim", "Pool.Initialize", "Pool.Scrub", "Pool.Resilver",
     "Pool.Remove", "Pool.Attach", "Pool.Replace", "Pool.Condense"}

-----------------------------------------------------------------------------
(* The CLI adapter: nothing is run before the effect is, and nearly every   *)
(* operation is one command that is given all the options.                  *)
CliDatasets ==
    [op \in {"Dataset.List", "Dataset.Get", "Pool.Get", "Dataset.Set", "Pool.Set",
             "Dataset.Inherit"} |-> Once]

CliCreation ==
    [op \in {"Dataset.CreateFilesystem", "Dataset.CreateVolume", "Dataset.Destroy",
             "Snapshot.Destroy", "Snapshot.Create", "Snapshot.Clone"} |-> Once]

CliSnapshots ==
    [op \in {"Snapshot.List", "Snapshot.Rollback", "Snapshot.Promote",
             "Snapshot.Rename", "Dataset.Rename", "Pool.List"} |-> Once]

(* poolStatus is run again without -j if its failure reads as if the tool   *)
(* did not know the flag.                                                  *)
CliPools ==
       "Pool.Status" :> Always(Handler("again"))
    @@ [op \in {"Pool.Create", "Pool.Destroy", "Pool.Import", "Pool.Export",
                "Pool.Reguid", "Pool.Upgrade", "Pool.LabelClear",
                "Pool.Checkpoint"} |-> Once]

CliTransfers ==
       [op \in {"Replication.Send", "Replication.SendSpace", "Replication.Receive",
                "Replication.AbortReceive"} |-> Once]
    @@ "Replication.SendProgress" :> Never

CliVdevProperties ==
    [op \in {"Dataset.Upgrade", "Dataset.Exists", "Pool.GetVdev", "Pool.SetVdev",
             "Replication.SnaprangeSpace"} |-> Once]

(* refuseAllImported: -a would reach every imported pool.                   *)
CliScans ==
       [op \in {"Pool.Trim", "Pool.Initialize"} |-> Refusing(Once, {"all"})]
    @@ [op \in {"Pool.Clear", "Pool.Reopen", "Pool.Sync", "Pool.Resilver"} |-> Once]
    @@ "Pool.Scrub" :> Gated(Refusing(Once, {"all"}), {"range"})

CliHolds ==
    [op \in {"Snapshot.Hold", "Snapshot.Holds", "Snapshot.Release",
             "Bookmark.Create", "Bookmark.Destroy", "Bookmark.List",
             "Bookmark.Get"} |-> Once]

CliMounts ==
       [op \in {"Mount.Mount", "Mount.Unmount", "Mount.Share", "Mount.Unshare",
                "Snapshot.Redact", "Dataset.Wait", "Pool.Wait", "Dataset.Diff",
                "Zfs.Version", "Dataset.Zone", "Dataset.Unzone"} |-> Once]
    @@ "Pool.Program" :> Always(Handler("again"))

CliFaults ==
       "Dataset.Rewrite" :> Gated(Once, {"physical", "skipBrt"})
    @@ [op \in {"Pool.Freeze", "Pool.Remap", "Pool.SetVdevPath", "Pool.SetVdevFru",
                "Pool.InjectFault", "Pool.ClearFault", "Pool.ListFaults",
                "Pool.ErrorLog", "Mount.SmbAcl"} |-> Once]
    @@ [op \in {"Dataset.ObjToPath", "Dataset.DsobjToName", "Dataset.NextObj",
                "Dataset.ObjToStats"} |-> Never]

(* One zfsbootenv for each pair.                                           *)
CliKeys ==
       "Pool.SetBootenv" :> Each
    @@ [op \in {"Pool.GetBootenv", "Pool.DdtPrune", "Pool.Condense",
                "Crypto.LoadKey", "Crypto.UnloadKey", "Crypto.ChangeKey"} |-> Once]

CliDelegation ==
    [op \in {"Dataset.Allow", "Dataset.Unallow", "Dataset.ListAllow",
             "Dataset.Userspace", "Dataset.Groupspace", "Dataset.Projectspace",
             "Dataset.Project"} |-> Once]

CliObservation ==
       [op \in {"Pool.Events", "Pool.EventsClear", "Pool.Iostat",
                "Pool.History"} |-> Once]
    @@ "Pool.EventsSeek" :> Never
    @@ "Pool.Prefetch" :> Gated(Once, {"type"})

(* remove -s is run for "cancel" before "dryRun" is looked at.              *)
CliVdevs ==
       "Pool.Remove" :> Fork("cancel", Dropping(Once, {"dryRun"}), Once)
    @@ [op \in {"Pool.Add", "Pool.Attach", "Pool.Detach", "Pool.Replace",
                "Pool.Split", "Pool.Online", "Pool.Offline"} |-> Once]

CliProgram ==
    CliDatasets @@ CliCreation @@ CliSnapshots @@ CliPools @@ CliTransfers
    @@ CliVdevProperties @@ CliScans @@ CliHolds @@ CliMounts @@ CliFaults
    @@ CliKeys @@ CliDelegation @@ CliObservation @@ CliVdevs

-----------------------------------------------------------------------------
(* The native handlers of linux.ts (lzc).  Those that call the library in   *)
(* their own body, outside of an effect, do it too soon.                     *)
LzcBasics ==
       "Dataset.Exists" :> Silent
    @@ [op \in {"Dataset.Rename", "Snapshot.Rename"} |->
            Soon(Dropping(Call, {"parents", "recursive"}))]
    @@ "Snapshot.Promote" :> Soon(Call)
    @@ "Crypto.UnloadKey" :> Soon(Needing(Dropping(Call, {"recursive", "all"}),
                                          {"name"}))
    @@ [op \in {"Pool.Reopen", "Pool.Checkpoint", "Pool.Prefetch"} |-> Soon(Call)]

(* lzc_wait for one activity after the other.                               *)
LzcWaits ==
       "Pool.Wait" :> Each
    @@ "Dataset.Wait" :> Call
    @@ "Replication.SnaprangeSpace" :> Call
    @@ "Replication.SendSpace" :> Refusing(Call, {"resumeToken", "redact"})
    @@ "Pool.Condense" :> Soon(Dropping(Call, {"wait"}))

(* The ancestors are created by zfs_create_ancestors when the effect is     *)
(* put together.                                                           *)
LzcCreation ==
       "Dataset.CreateFilesystem" :> Eager(Refusing(Call, {"dryRun"}), "parents")
    @@ "Dataset.CreateVolume" :> Refusing(Call, {"dryRun"})

LzcSnapshots ==
       "Snapshot.Create" :> Fork("recursive", Always(Handler("names")), Call)
    @@ "Snapshot.Clone" :> Eager(Call, "parents")
    @@ [op \in {"Snapshot.Hold", "Snapshot.Release"} |-> Fork("recursive", Once, Call)]
    @@ [op \in {"Bookmark.Create", "Bookmark.Destroy"} |-> Call]

LzcReads ==
       "Snapshot.Holds" :> ListedEarly(Each)
    @@ "Bookmark.List" :> ListedEarly(Needing(Each, {"root"}))
    @@ "Bookmark.Get" :> Call
    @@ "Pool.Get" :> Dropping(Call, {"targets"})

(* With "all" zfs_crypto_attempt_load_keys of libzfs-extra.ts, which knows  *)
(* no dry run.                                                             *)
LzcKeys ==
       "Crypto.LoadKey" :> Fork("all", Soon(Dropping(Once, {"noop"})),
                                Soon(Needing(Dropping(Call, {"recursive"}),
                                              {"name", "wrappingKey"})))
    @@ [op \in {"Crypto.ChangeKey", "Pool.Sync"} |-> Call]

(* By GUID through lzc, which is not told to wait; by path through libzfs.  *)
LzcScans ==
       "Pool.Trim" :> Refusing(MayDrop(Once, {"wait"}), {"all"})
    @@ "Pool.Initialize" :> Refusing(Dropping(Once, {"wait"}), {"all"})
    @@ "Pool.Scrub" :> Refusing(Dropping(Call, {"range"}), {"all"})
    @@ "Pool.Resilver" :> Dropping(Call, {"wait"})

LzcLate ==
       [op \in {"Pool.Program", "Snapshot.Redact", "Pool.GetBootenv",
                "Pool.SetBootenv", "Pool.GetVdev"} |-> Call]
    @@ "Replication.SendProgress" :> Needing(Call, {"fd"})
    @@ [op \in {"Pool.DdtPrune", "Replication.AbortReceive"} |-> Soon(Call)]

(* By GUID through lzc; by path through libzfs, with an ioctl of its own for *)
(* "path" and, made in the handler's body, for "fru".                       *)
MergedVdev == "Pool.SetVdev" :> Fork("fru", Soon(Once), Once)

(* rewriteOne for each of the files, which walks directories itself.        *)
LzcRewrite == "Dataset.Rewrite" :> Each

(* libzfs.ts.  What the iterators of libzfs return is not looked at: a list  *)
(* that breaks off is the answer.                                          *)
LibzfsLists ==
       [op \in {"Dataset.List", "Pool.List"} |-> Silent]
    @@ "Snapshot.List" :> Needing(Dropping(Silent, {"recursive"}), {"root"})

LibzfsProperties ==
       [op \in {"Dataset.Set", "Pool.Set"} |-> Dropping(Once, {"targets"})]
    @@ [op \in {"Dataset.Inherit", "Dataset.Get"} |->
            Dropping(Once, {"recursive", "targets"})]

(* "all" is a walk that goes on after a failure; sharing does not even       *)
(* report it.                                                              *)
LibzfsMount ==
       "Mount.Mount" :> Fork("all", Walking(GoesOn), Dropping(Once, {"recursive"}))
    @@ "Mount.Unmount" :> Fork("all", Walking(GoesOn), Once)

LibzfsShare ==
    [op \in {"Mount.Share", "Mount.Unshare"} |-> Fork("all", Walking(Silent), Once)]

LibzfsPools == [op \in {"Pool.Create", "Pool.Destroy"} |-> Once]

(* libzfs-extra.ts.                                                        *)
ExtraPools ==
       [op \in {"Pool.Export", "Pool.Reguid", "Pool.Upgrade", "Pool.LabelClear"} |->
            Once]
    @@ "Pool.Clear" :> Fork("devices", Dropping(Each, {"dryRun"}),
                            Dropping(Once, {"dryRun"}))

ExtraVdevs ==
       "Pool.Add" :> Refusing(Once, {"dryRun"})
    @@ "Pool.Remove" :> Refusing(Dropping(MayDrop(Each, {"cancel"}), {"wait"}),
                                 {"dryRun"})
    @@ [op \in {"Pool.Attach", "Pool.Replace"} |-> Dropping(Once, {"wait"})]
    @@ "Pool.Detach" :> Once
    @@ [op \in {"Pool.Online", "Pool.Offline"} |-> Each]
    @@ "Pool.Split" :> Refusing(Dropping(Once, {"devices"}), {"dryRun"})

ExtraImport == "Pool.Import" :> Needing(Once, {"searchDirs"})

(* Status leaves out what it cannot read.  Without follow, events are read  *)
(* when the stream is built, and an error of zpool_events_next ends them as *)
(* if there were no more.                                                   *)
ExtraObservation ==
       "Pool.Status" :> Silent
    @@ "Pool.Events" :> Fork("follow", Once, Soon(Silent))
    @@ "Pool.EventsClear" :> Once
    @@ "Pool.EventsSeek" :> Soon(Once)

(* iostat passes over a pool that does not open or has no configuration, and *)
(* version over a kernel module that does not answer.                       *)
ExtraStatistics ==
       "Pool.Iostat" :> ListedEarly(Silent)
    @@ "Pool.History" :> Fork("all", Walking(Each), Once)
    @@ "Zfs.Version" :> Silent

(* upgrade and unallow work through a list read when they were called.      *)
ExtraDelegation ==
       [op \in {"Dataset.Upgrade", "Dataset.Unallow"} |-> ListedEarly(Each)]
    @@ "Dataset.Allow" :> Once
    @@ "Dataset.ListAllow" :> Silent

(* The callbacks' errors and those of the ioctl that sets a project are     *)
(* dropped; a file that cannot be opened stops the list.                    *)
ExtraQuotas ==
       [op \in {"Dataset.Userspace", "Dataset.Groupspace",
                "Dataset.Projectspace"} |-> Silent]
    @@ "Dataset.Project" :> Quiet

(* Any failure ends the list of faults as its end does; a fault for a device *)
(* that is not found is injected for the GUID 0.                            *)
ExtraLate ==
       [op \in {"Dataset.Diff", "Dataset.NextObj", "Dataset.ObjToStats"} |-> Once]
    @@ "Pool.ListFaults" :> Silent
    @@ "Pool.InjectFault" :> Quiet
    @@ [op \in {"Dataset.Zone", "Dataset.Unzone", "Pool.Freeze", "Pool.Remap",
                "Mount.SmbAcl", "Pool.ClearFault"} |-> Soon(Once)]

(* No name found reads as the root, no error log as an empty one.           *)
ExtraPaths ==
       [op \in {"Dataset.ObjToPath", "Dataset.DsobjToName", "Pool.ErrorLog"} |->
            Silent]
    @@ "Pool.SetVdevPath" :> Once
    @@ "Pool.SetVdevFru" :> Soon(Once)

NativeProgram ==
    LzcBasics @@ LzcWaits @@ LzcCreation @@ LzcSnapshots @@ LzcReads @@ LzcKeys
    @@ LzcScans @@ LzcLate @@ LzcRewrite @@ MergedVdev @@ LibzfsLists
    @@ LibzfsProperties @@ LibzfsMount @@ LibzfsShare @@ LibzfsPools @@ ExtraPools
    @@ ExtraVdevs @@ ExtraImport @@ ExtraObservation @@ ExtraStatistics
    @@ ExtraDelegation @@ ExtraQuotas @@ ExtraLate @@ ExtraPaths

Interpreters == [by \in {"cli", "native"} |->
                IF by = "cli" THEN CliProgram ELSE NativeProgram]

-----------------------------------------------------------------------------
(* The domain services: what a method adds to the call of the protocol that *)
(* it makes.  Some decode the arguments first, or check them; some decode   *)
(* the answer; one call may be made for each of several properties; and     *)
(* Pools.create lists the pools afterwards.                                *)
DatasetPropertyService ==
       "Dataset.List" :> {{"decodes"}}
    @@ "Dataset.Get" :> {{}, {"reads"}}
    @@ "Dataset.Set" :> {{}, {"repeats"}}
    @@ "Dataset.Inherit" :> {{}}

DatasetService ==
       [op \in {"Dataset.CreateFilesystem", "Dataset.Destroy", "Dataset.Rename"} |->
            {{}}]
    @@ [op \in {"Dataset.CreateVolume", "Dataset.Upgrade", "Dataset.Exists"} |->
            {{"decodes"}}]

DatasetLateService ==
    [op \in {"Dataset.Wait", "Dataset.Zone", "Dataset.Unzone", "Dataset.Rewrite",
             "Dataset.ObjToPath", "Dataset.DsobjToName", "Dataset.NextObj",
             "Dataset.ObjToStats"} |-> {{"decodes"}}]

PoolPropertyService ==
       "Pool.List" :> {{"decodes"}}
    @@ "Pool.Get" :> {{}, {"reads"}}
    @@ "Pool.GetVdev" :> {{"decodes"}, {"decodes", "reads"}}
    @@ "Pool.SetVdev" :> {{"decodes", "repeats"}}
    @@ "Pool.Set" :> {{"repeats"}}

PoolService ==
       [op \in {"Pool.Status", "Pool.Destroy"} |-> {{"decodes"}}]
    @@ "Pool.Create" :> {{"decodes", "lists"}}

PoolScanService ==
    [op \in {"Pool.Trim", "Pool.Initialize", "Pool.Clear", "Pool.Reopen",
             "Pool.Sync", "Pool.Scrub", "Pool.Resilver"} |-> {{"decodes"}}]

PoolUpkeepService ==
    [op \in {"Pool.Import", "Pool.Export", "Pool.Reguid", "Pool.Upgrade",
             "Pool.LabelClear", "Pool.Checkpoint"} |-> {{"decodes"}}]

PoolObservationService ==
       [op \in {"Pool.Events", "Pool.EventsSeek", "Pool.Iostat", "Pool.Wait",
                "Pool.History", "Pool.Prefetch"} |-> {{"decodes"}}]
    @@ "Pool.EventsClear" :> {{}}

PoolVdevService ==
    [op \in {"Pool.Add", "Pool.Remove", "Pool.Attach", "Pool.Detach",
             "Pool.Replace", "Pool.Split", "Pool.Online", "Pool.Offline"} |->
        {{"decodes"}}]

PoolLateService ==
       [op \in {"Pool.Program", "Pool.GetBootenv", "Pool.SetBootenv",
                "Pool.DdtPrune", "Pool.Condense"} |-> {{"decodes"}}]
    @@ "Zfs.Version" :> {{}}

PoolFaultService ==
       [op \in {"Pool.Freeze", "Pool.Remap", "Pool.SetVdevPath", "Pool.SetVdevFru",
                "Pool.InjectFault", "Pool.ClearFault", "Pool.ErrorLog"} |->
            {{"decodes"}}]
    @@ "Pool.ListFaults" :> {{}}

SnapshotService ==
       [op \in {"Snapshot.Create", "Snapshot.List"} |-> {{"decodes"}}]
    @@ [op \in {"Snapshot.Destroy", "Snapshot.Clone", "Snapshot.Rollback",
                "Snapshot.Promote", "Snapshot.Rename"} |-> {{}}]

HoldService ==
    [op \in {"Snapshot.Hold", "Snapshot.Holds", "Snapshot.Release",
             "Snapshot.Redact", "Dataset.Diff"} |-> {{"decodes"}}]

KeyService ==
    [op \in {"Crypto.LoadKey", "Crypto.UnloadKey", "Crypto.ChangeKey"} |->
        {{"decodes"}}]

(* Filesystems and volumes are created only with a key that can be right.   *)
CryptoService ==
    [op \in {"Dataset.CreateFilesystem", "Dataset.CreateVolume"} |-> {{"decodes"}}]

ReplicationService ==
    [op \in {"Replication.Send", "Replication.SendSpace",
             "Replication.SendProgress", "Replication.Receive",
             "Replication.AbortReceive", "Replication.SnaprangeSpace"} |->
        {{"decodes"}}]

MountService ==
    [op \in {"Mount.Mount", "Mount.Unmount", "Mount.Share", "Mount.Unshare",
             "Mount.SmbAcl"} |-> {{"decodes"}}]

BookmarkService ==
       [op \in {"Bookmark.Create", "Bookmark.List"} |-> {{"decodes"}}]
    @@ "Bookmark.Destroy" :> {{}}
    @@ "Bookmark.Get" :> {{"reads"}}

QuotaService ==
    [op \in {"Dataset.Userspace", "Dataset.Groupspace", "Dataset.Projectspace",
             "Dataset.Project"} |-> {{"decodes"}}]

DelegationService ==
    [op \in {"Dataset.Allow", "Dataset.Unallow", "Dataset.ListAllow"} |->
        {{"decodes"}}]

Services ==
    {DatasetPropertyService, DatasetService, DatasetLateService,
     PoolPropertyService, PoolService, PoolScanService, PoolUpkeepService,
     PoolObservationService, PoolVdevService, PoolLateService, PoolFaultService,
     SnapshotService, HoldService, KeyService, CryptoService,
     ReplicationService, MountService, BookmarkService, QuotaService,
     DelegationService}

(* No service hides an operation, and two offer the creation of datasets.   *)
ServiceStyles ==
    [op \in ProtocolOperations |->
        UNION {service[op] : service \in {s \in Services : op \in DOMAIN s}}]
=============================================================================
