------------------------------ MODULE SettingsStore ------------------------------
(***************************************************************************)
(* The add-on's settings: a configuration and a secrets file committed as  *)
(* one revision, each with its predecessor, and two markers; what a load   *)
(* recovers, migrates, seeds or refuses; saves and the import that ends    *)
(* configuration repair; and the operating mode, which settings may not    *)
(* deprive of its fallback schedule.                                       *)
(*                                                                         *)
(* A commit is the sequence of its directory operations: the process may   *)
(* die or an operation fail between any two, and a power cut may undo the  *)
(* latest ones, down to the last sync (a journalling file system keeps     *)
(* their order).  Files are complete: they are synced before they are      *)
(* renamed.  Settings are what the guards ask of them.                     *)
(* A refused save changes nothing and is not a step.                       *)
(***************************************************************************)
EXTENDS Naturals, Sequences

CONSTANTS
    Saves,          \* saves and imports of one behaviour
    Outages,        \* crashes and power cuts
    StoreFaults,    \* failing operations, files found unreadable
    Installs        \* what the first start may find: "options", "nothing", "before 0.31"

ASSUME StoreAssumption == /\ {Saves, Outages, StoreFaults} \subseteq Nat
                           /\ Installs \subseteq {"options", "nothing", "before 0.31"}

VARIABLES
    install,    \* what the first start finds
    disk,       \* the directory: files by name
    past,       \* what it was since it was last synced: what a power cut may bring back
    daemon,     \* "down", "loading", "repair", "up"
    job,        \* the operations still to do, and what they are for
    stored,     \* _inputs, _secrets, revision: the committed settings as memory knows them
    live,       \* the running snapshot; pending_restart while the two differ in restart fields
    storeFailed, \* save_failed
    judging,    \* an Optimise request being judged: by which snapshot
    grant,      \* the authority store: its durable mode, and whether memory knows it
    hope,       \* history: the settings last acknowledged, and every later attempt
    unguarded,  \* history: Optimise was entered on other settings than the ones checked
    saves, outages, storeFaults

storeVars == <<install, disk, past, daemon, job, stored, live, storeFailed, judging, grant, hope,
               unguarded, saves, outages, storeFaults>>

Files  == {"config", "secrets", "config.prev", "secrets.prev"}
Names  == Files \union {"initialised", "pending"}
\* A candidate: its commit, whether its fallback schedule is valid, its restart fields.
Settings(ids) == [id : ids, fallback : BOOLEAN, restart : {0, 1}]
None   == [id |-> 0, fallback |-> FALSE, restart |-> 0]
Ids    == 1 .. Saves + 2
\* An absent or unreadable file has revision 0; a marker is a file whose content is its kind.
Gone      == [rev |-> 0, is |-> None]
Old       == [rev |-> 1, is |-> None]       \* an initialised marker without hub_default
New       == [rev |-> 2, is |-> None]
Content(rev, s) == [rev |-> rev, is |-> s]
Idle      == [for |-> "nothing", ops |-> <<>>, rev |-> 0, is |-> None]

-----------------------------------------------------------------------------
(* Directory operations *)

Op(name, file) == <<[name |-> name, file |-> file]>>
Sync == <<[name |-> "sync", file |-> Gone]>>
\* _commit: hard links keep the current pair until both backups exist.
Backup(d) == Op("config.prev", Gone) \o Op("config.prev", d["config"])
             \o Op("secrets.prev", Gone) \o Op("secrets.prev", d["secrets"]) \o Sync
Replace(rev, s) == Op("secrets", Content(rev, s)) \o Op("config", Content(rev, s)) \o Sync
Mark == Op("initialised", New) \o Sync

-----------------------------------------------------------------------------
(* Load *)

Pair(d, c, s) == d[c].rev > 0 /\ d[c].rev = d[s].rev
Torn(d)    == d["config"].rev > 0 /\ d["secrets"].rev > 0 /\ d["config"].rev # d["secrets"].rev
\* A mutant for TLC: the predecessor stands in for any pair that does not read.
RecoversAny == ~Pair(disk, "config", "secrets") /\ Pair(disk, "config.prev", "secrets.prev")
Recovers   == Torn(disk) /\ Pair(disk, "config.prev", "secrets.prev")
Marked     == disk["initialised"] # Gone
\* The pair a load starts from: the committed one, its predecessor, or a seed of revision 1.
Seed == [id |-> 1, fallback |-> install # "nothing", restart |-> 0]
Found == IF ~Marked THEN Content(1, Seed)
         ELSE disk[IF Recovers THEN "config.prev" ELSE "config"]

Guarded(mode) == mode = "optimise"
\* A mutant for TLC: a restart does not judge what was left pending.
StartsUnjudged == \/ Marked /\ (Pair(disk, "config", "secrets") \/ Recovers)
                  \/ ~Marked
\* Everything else is configuration repair.
Starts == /\ \/ Marked /\ (Pair(disk, "config", "secrets") \/ Recovers)
             \/ ~Marked /\ (install = "nothing" => grant.mode = "observe")
          /\ (disk["pending"] # Gone /\ Guarded(grant.mode) => Found.is.fallback)

\* A store from before 0.31 gets its hub pinned: a commit of its own, then the new marker.
Migrates == Marked /\ disk["initialised"] = Old
Loading ==
    LET pinned == Migrates /\ Found.is.id = 1
        kept   == IF Recovers THEN [disk EXCEPT !["config"] = Found, !["secrets"] = Found] ELSE disk
        final  == [Found EXCEPT !.rev = @ + (IF pinned THEN 1 ELSE 0),
                                !.is.id = IF pinned THEN 2 ELSE @]
        Wipe   == Op("config", Gone) \o Op("secrets", Gone)
                  \o Op("config.prev", Gone) \o Op("secrets.prev", Gone)
    IN  [for |-> "load", rev |-> final.rev, is |-> final.is,
         ops |-> (IF Marked /\ Recovers THEN Replace(Found.rev, Found.is) ELSE <<>>)
                 \o (IF pinned THEN Backup(kept) \o Replace(final.rev, final.is) ELSE <<>>)
                 \o (IF Migrates THEN Mark ELSE <<>>)
                 \o (IF ~Marked THEN Wipe \o Replace(1, Seed) \o Mark ELSE <<>>)
                 \o (IF disk["pending"] # Gone THEN Op("pending", Gone) \o Sync ELSE <<>>)]

\* The daemon starts, or goes on after an import has ended the repair.
LoadStore ==
    /\ daemon = "down" \/ (daemon = "repair" /\ stored.rev > 0 /\ job = Idle)
    /\ live' = None /\ storeFailed' = FALSE /\ judging' = None /\ stored' = Gone
    /\ grant' = [grant EXCEPT !.known = grant.mode # "lost"]
    /\ IF Starts THEN daemon' = "loading" /\ job' = Loading
       ELSE daemon' = "repair" /\ job' = Idle
    /\ UNCHANGED <<disk, past, hope, unguarded, saves, outages, storeFaults>>

-----------------------------------------------------------------------------
(* Saves and imports *)

\* _guard: known authority that is in Optimise or moving there, or unknown authority while the
\* current fallback is valid.
MustBeValid == IF grant.known THEN Guarded(grant.mode) ELSE live.fallback
Restarts(s) == s.restart # live.restart
\* The pending marker is durable before the pair it is about.
SaveOps(s)  == (IF Restarts(s) THEN Op("pending", New) \o Sync ELSE <<>>)
               \o Backup(disk) \o Replace(stored.rev + 1, s)

Save(s) ==
    /\ daemon = "up" /\ job = Idle /\ ~storeFailed /\ saves > 0
    /\ MustBeValid => s.fallback
    /\ job' = [for |-> "save", ops |-> SaveOps(s), rev |-> stored.rev + 1, is |-> s]
    /\ hope' = hope \union {s.id} /\ saves' = saves - 1
    /\ UNCHANGED <<disk, past, daemon, stored, live, storeFailed, judging, grant, unguarded,
                   outages, storeFaults>>

\* The one write repair accepts; the untrusted pair is never kept to go back to.
Import(s) ==
    /\ daemon = "repair" /\ job = Idle /\ ~storeFailed /\ stored.rev = 0 /\ saves > 0
    /\ Guarded(grant.mode) => s.fallback
    /\ LET rev == 1 + (CHOOSE r \in {disk[f].rev : f \in Files} :
                          \A f \in Files : disk[f].rev <= r)
       IN  job' = [for |-> "import", rev |-> rev, is |-> s,
                   ops |-> Op("config.prev", Gone) \o Op("secrets.prev", Gone)
                           \o Replace(rev, s) \o Mark]
    /\ hope' = hope \union {s.id} /\ saves' = saves - 1
    /\ UNCHANGED <<disk, past, daemon, stored, live, storeFailed, judging, grant, unguarded,
                   outages, storeFaults>>

-----------------------------------------------------------------------------
(* Jobs *)

\* The next directory operation happens; a sync makes all of them last.
Perform ==
    /\ job.ops # <<>>
    /\ LET op == Head(job.ops)
       IN  IF op.name = "sync" THEN past' = {} /\ UNCHANGED disk
           ELSE past' = past \union {disk} /\ disk' = [disk EXCEPT ![op.name] = op.file]
    /\ job' = [job EXCEPT !.ops = Tail(@)]
    /\ UNCHANGED <<daemon, stored, live, storeFailed, judging, grant, hope, unguarded, saves,
                   outages, storeFaults>>

\* One fails: a save or import must wait for a restart, a load ends the process.
Fails ==
    /\ job.ops # <<>> /\ storeFaults > 0 /\ storeFaults' = storeFaults - 1
    /\ job' = Idle /\ storeFailed' = TRUE
    /\ daemon' = IF job.for = "load" THEN "down" ELSE daemon
    /\ UNCHANGED <<disk, past, stored, live, judging, grant, hope, unguarded, saves, outages>>

\* All done: the settings are published, unless a restart has to bring them in; an import is
\* loaded again.
Publish ==
    /\ job # Idle /\ job.ops = <<>>
    /\ stored' = Content(job.rev, job.is) /\ job' = Idle
    /\ live' = IF job.for = "save" /\ Restarts(job.is) THEN live ELSE job.is
    /\ daemon' = IF job.for = "load" THEN "up" ELSE daemon
    \* The owner is told of a save or an import; the start of the process syncs the directory.
    /\ hope' = IF job.for = "load" /\ job.is.id \in hope THEN hope ELSE {job.is.id}
    /\ past' = IF job.for = "load" /\ grant.known THEN {} ELSE past
    /\ unguarded' = (unguarded /\ (job.for = "load" \/ ~live'.fallback))
    /\ UNCHANGED <<disk, storeFailed, judging, grant, saves, outages, storeFaults>>

-----------------------------------------------------------------------------
(* The operating mode *)

\* _accept_mode judges a request by the tick's settings, reads the devices, then saves.
Ask ==
    /\ daemon = "up" /\ job = Idle /\ judging = None
    /\ grant.known /\ grant.mode = "observe" /\ live.fallback /\ judging' = live
    /\ UNCHANGED <<disk, past, daemon, job, stored, live, storeFailed, grant, hope, unguarded,
                   saves, outages, storeFaults>>

SaveMode(mode, known) ==
    /\ daemon = "up" /\ job = Idle
    /\ grant' = [mode |-> mode, known |-> known] /\ past' = {}
    /\ UNCHANGED <<disk, daemon, job, stored, live, storeFailed, hope, saves, outages>>

Accept ==
    /\ judging # None /\ judging' = None
    /\ SaveMode("optimise", TRUE) /\ UNCHANGED storeFaults
    /\ unguarded' = (storeFailed \/ live # judging)

\* Back to Observe, or Observe confirmed for an unknown authority.
Leave ==
    /\ judging = None /\ ~(grant.known /\ grant.mode = "observe")
    /\ SaveMode("observe", TRUE) /\ unguarded' = FALSE /\ UNCHANGED <<judging, storeFaults>>

\* A save of the authority that fails, before or after it reached the disk.
AuthorityFails ==
    /\ storeFaults > 0 /\ storeFaults' = storeFaults - 1 /\ judging = None /\ grant.known
    /\ \E mode \in {grant.mode, "lost"} : SaveMode(mode, FALSE)
    /\ UNCHANGED <<judging, unguarded>>

-----------------------------------------------------------------------------
(* Outages *)

Down ==
    /\ daemon' = "down" /\ job' = Idle /\ live' = None /\ stored' = Gone /\ judging' = None
    /\ storeFailed' = FALSE /\ UNCHANGED <<grant, hope, unguarded, saves>>

StoreCrash == daemon # "down" /\ outages > 0 /\ outages' = outages - 1 /\ Down
         /\ UNCHANGED <<disk, past, storeFaults>>

\* The operations since the last sync are undone, from some point on.
PowerCut ==
    /\ outages > 0 /\ outages' = outages - 1 /\ Down /\ disk' \in past /\ past' = {}
    /\ UNCHANGED storeFaults

\* A committed file is found unreadable.
Damage ==
    /\ daemon = "down" /\ storeFaults > 0 /\ storeFaults' = storeFaults - 1
    /\ \E f \in {"config", "secrets"} : disk' = [disk EXCEPT ![f] = Gone]
    /\ UNCHANGED <<past, daemon, job, stored, live, storeFailed, judging, grant, hope, unguarded,
                   saves, outages>>

-----------------------------------------------------------------------------
(* Specification *)

StoreTypeOK ==
    /\ install \in Installs
    /\ daemon \in {"down", "loading", "repair", "up"} /\ DOMAIN disk = Names
    /\ job.for \in {"nothing", "load", "save", "import"} /\ hope \subseteq Ids
    /\ live \in Settings(Ids) \union {None} /\ stored.is \in Settings(Ids) \union {None}
    /\ grant \in [mode : {"observe", "optimise", "lost"}, known : BOOLEAN]
    /\ {storeFailed, unguarded} \subseteq BOOLEAN
    /\ daemon = "up" => stored.rev > 0 /\ live # None

StoreInit ==
    /\ install \in Installs
    /\ disk = [n \in Names |->
                 IF install # "before 0.31" \/ n \in {"config.prev", "secrets.prev", "pending"}
                 THEN Gone ELSE IF n = "initialised" THEN Old ELSE Content(1, Seed)]
    /\ past = {} /\ daemon = "down" /\ job = Idle /\ stored = Gone /\ live = None
    /\ storeFailed = FALSE /\ judging = None /\ hope = {1, 2} /\ unguarded = FALSE
    /\ grant \in [mode : {"observe"} \union (IF install = "nothing" THEN {} ELSE {"optimise"}),
                      known : {FALSE}]
    /\ saves = Saves /\ outages = Outages /\ storeFaults = StoreFaults

StoreNext ==
    /\ UNCHANGED install
    /\ \/ LoadStore \/ Perform \/ Fails \/ Publish \/ Ask \/ Accept \/ Leave \/ AuthorityFails
       \/ StoreCrash \/ PowerCut \/ Damage
       \/ \E s \in Settings({Saves + 3 - saves}) : Save(s) \/ Import(s)

StoreSpec == StoreInit /\ [][StoreNext]_storeVars

-----------------------------------------------------------------------------
(* Properties *)

\* Whatever died, failed or was undone, the settings that run are the ones the owner was last
\* told of or a later attempt, both files of the same commit; an older pair never comes back.
SettingsKept ==
    [][daemon' = "up" /\ daemon # "up" =>
         /\ job.is.id \in hope
         /\ disk["config"].is = job.is /\ disk["secrets"].is = job.is]_storeVars

\* Optimise always runs on settings with a valid fallback schedule, through pending restarts,
\* recovered and migrated revisions and repairs, unless it was entered on settings that had
\* been replaced since they were checked, or were on disk after a failed save.
OptimiseGuarded ==
    daemon = "up" /\ grant.mode = "optimise" => unguarded \/ live.fallback
=============================================================================
