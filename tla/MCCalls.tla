------------------------------- MODULE MCCalls -------------------------------
(* Instance of Calls for TLC, with the tables of Programs. *)
EXTENDS Calls

T == INSTANCE Programs

MCOperations == T!ProtocolOperations
MCOptions    == T!ArgOptions
MCLists      == T!ListOperations
MCLasting    == T!LastingOperations
MCStyles     == T!ServiceStyles
MCProgram    == T!Interpreters

Native(ops, with) == {"native"} \X ops \X {with}

(* Handlers with a body that calls the library, and the two that create      *)
(* ancestors in it.                                                        *)
MCEarly ==
    Native({"Dataset.Rename", "Snapshot.Rename", "Snapshot.Promote",
            "Crypto.UnloadKey", "Crypto.LoadKey", "Pool.Reopen", "Pool.Checkpoint",
            "Pool.Prefetch", "Pool.Condense", "Pool.DdtPrune",
            "Replication.AbortReceive", "Pool.EventsSeek", "Pool.Events",
            "Dataset.Zone", "Dataset.Unzone", "Pool.Freeze", "Pool.Remap",
            "Mount.SmbAcl", "Pool.ClearFault", "Pool.SetVdevFru"}, {})
    \cup Native({"Pool.SetVdev"}, {"fru"})
    \cup Native({"Dataset.CreateFilesystem", "Snapshot.Clone"}, {"parents"})

(* Those that swallow failures, on every path or on one.                    *)
Swallowing ==
    Native({"Dataset.Exists", "Dataset.List", "Snapshot.List", "Pool.List",
            "Pool.Status", "Pool.Iostat", "Zfs.Version", "Pool.Events",
            "Dataset.ListAllow", "Dataset.Userspace", "Dataset.Groupspace",
            "Dataset.Projectspace", "Dataset.Project", "Pool.ListFaults",
            "Pool.InjectFault", "Pool.ErrorLog", "Dataset.ObjToPath",
            "Dataset.DsobjToName"}, {})
    \cup Native({"Mount.Share", "Mount.Unshare", "Mount.Mount", "Mount.Unmount",
                 "Pool.History"}, {"all"})

(* Those that lose an option, or have worked at another time.               *)
Losing ==
    Native({"Dataset.Set", "Pool.Set", "Pool.Get", "Dataset.Inherit",
            "Dataset.Get"}, {"targets"})
    \cup Native({"Dataset.Inherit", "Dataset.Get", "Dataset.Rename",
                 "Snapshot.Rename", "Mount.Mount", "Crypto.UnloadKey",
                 "Crypto.LoadKey"}, {"recursive"})
    \cup Native({"Crypto.UnloadKey", "Crypto.LoadKey"}, {"all"})
    \cup Native({"Pool.Split"}, {"devices"}) \cup Native({"Pool.Remove"}, {"cancel"})
    \cup Native({"Dataset.Upgrade", "Dataset.Unallow", "Snapshot.Holds",
                 "Bookmark.List"}, {"recursive"})
    \cup Native({"Dataset.Upgrade"}, {"all"})

MCShort == Swallowing \cup Losing

(* Those that lose a restriction: one of them for remove -s of the CLI.      *)
MCWide ==
    Native({"Pool.Clear"}, {"dryRun"}) \cup Native({"Crypto.LoadKey"}, {"all", "noop"})
    \cup Native({"Pool.Split"}, {"devices"}) \cup Native({"Pool.Remove"}, {"cancel"})
    \cup Native({"Pool.Scrub"}, {"range"})
    \cup {<<"cli", "Pool.Remove", {"cancel", "dryRun"}>>}

(* Those that lose "wait".                                                 *)
MCHasty ==
    Native({"Pool.Condense", "Pool.Resilver", "Pool.Remove", "Pool.Attach",
            "Pool.Replace", "Pool.Initialize", "Pool.Trim"}, {"wait"})
=============================================================================
