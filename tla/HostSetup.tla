----------------------------- MODULE HostSetup -----------------------------
(***************************************************************************)
(* The configuration files of the agent hosts, which djobs setup, repair   *)
(* and remove, init, and the first call of every MCP server rewrite        *)
(* (host_hooks.py, setup_cli.py, zero_touch.py, entrypoint.py): the        *)
(* entries of djobs go in and out, everything else is the user's.          *)
(*                                                                         *)
(* Hook files are read and replaced under a lock file, which whoever finds *)
(* it old removes; server files are read and written over with none.  A    *)
(* process may die, or sleep past the age of a stale lock, at any step;    *)
(* the user and the host know of no lock and write when they like.         *)
(***************************************************************************)
EXTENDS Naturals, FiniteSets

CONSTANTS
    Config,     \* the files
    Kind,       \* per file: "merged" or "owned" (hooks), "servers" or "mcp" (install-mcp's)
    Entry,      \* the hooks, or servers, a user may have in a file
    Version,    \* the adapter for a database and a mode
    Installer,  \* the processes that configure hosts
    Bootstrap,  \* those that are MCP servers
    MaxDeaths,  \* bound of the processes that die
    Unlocked    \* no lock file

VARIABLES
    configs,  \* per file: its content
    own,      \* per file: the entries it had when its user last wrote it
    loose,    \* files that a call may have written over what it did not read, or could not
    lock,     \* per file: its lock file, and whether it is old
    job,      \* per installer: the call in progress
    booted,   \* servers whose first call has been: bootstrap's _RESULTS
    mcp,      \* the version registered with the host's command line
    deaths    \* processes that have died

setupVars == <<configs, own, loose, lock, job, booted, mcp, deaths>>

ASSUME SetupConstants ==
    /\ Bootstrap \subseteq Installer
    /\ \A x \in Config : Kind[x] \in {"merged", "owned", "servers", "mcp"}

\* The content of a file: the user's entries, those of djobs, and whether it can be
\* taken: "bad" is no JSON, "list" no object, and in "field" what holds the entries
\* is none.
Unfit == {"bad", "list", "field"}
Missing == [state |-> "absent", user |-> {}, managed |-> {}]
Jobless == [op |-> "none"]
Hooks(x) == Kind[x] \in {"merged", "owned"}

SetupTypeOK ==
    /\ \A x \in Config :
        /\ configs[x].state \in Unfit \cup {"absent", "good"}
        /\ configs[x].user \cup own[x] \subseteq Entry
        /\ configs[x].managed \subseteq Version
        /\ lock[x].by \in Installer \cup {Unlocked}
    /\ loose \subseteq Config
    /\ booted \subseteq Bootstrap
    /\ mcp \in SUBSET Version

-----------------------------------------------------------------------------
(* What a call makes of the content it has read *)

\* What cannot be read, what is no object, and a hook file of somebody else are left
\* alone.  install-mcp leaves an entry it finds alone as well; --force replaces all of
\* these, and a file that is no object is replaced without it.
Refuses(w, c) ==
    \/ c.state = "bad" /\ ~w.force
    \/ c.state = "list" /\ Kind[w.config] # "mcp"
    \/ c.state = "field" /\ Kind[w.config] # "owned" /\ ~w.force
    \/ Kind[w.config] = "mcp" /\ c.managed # {} /\ ~w.force /\ c.state # "list"
    \/ Kind[w.config] = "owned" /\ c.state # "absent" /\ c.managed = {}

\* _strip_managed and _strip_kimi_block know the entries of djobs by their token.
Stripped(w, c) == {}

WrongMerged(w, c) ==   \* BUG (UserEntriesKept): the managed file is written afresh
    [state |-> "good", user |-> {}, managed |-> IF w.what = "install" THEN {w.version} ELSE {}]

Merged(w, c) ==
    IF Kind[w.config] = "owned"
    THEN IF w.what = "install" THEN [state |-> "good", user |-> {}, managed |-> {w.version}] ELSE Missing
    ELSE [state |-> "good", user |-> c.user,
          managed |-> Stripped(w, c) \cup (IF w.what = "install" THEN {w.version} ELSE {})]

\* Nothing to write: the same document, or nothing of djobs to remove; install-mcp
\* does not compare.
InPlace(w, c) ==
    IF w.what = "install" THEN Merged(w, c) = c /\ Kind[w.config] # "mcp" ELSE c.state = "absent" \/ c.managed = {}

-----------------------------------------------------------------------------
At(i, op) == job[i].op = op
Goes(i, op) == job' = [job EXCEPT ![i].op = op]
Returns(i) == job' = [job EXCEPT ![i] = Jobless]

Begins(i, x, what, v, force) ==
    /\ job[i] = Jobless
    /\ job' = [job EXCEPT ![i] = [op |-> IF Hooks(x) THEN "lock" ELSE "read", config |-> x, what |-> what,
                                  version |-> v, force |-> force, gave |-> FALSE, new |-> Missing]]
    /\ UNCHANGED <<configs, own, loose, lock, mcp, deaths>>

\* install_host_hooks, remove_host_hooks, and the server entry of a host's file.
ConfigureHost(i, x, what, v) ==
    /\ i \notin Bootstrap /\ Kind[x] # "mcp"
    /\ Begins(i, x, what, v, FALSE)
    /\ UNCHANGED booted

InstallMcp(i, x, v, force) ==
    /\ i \notin Bootstrap /\ Kind[x] = "mcp"
    /\ Begins(i, x, "install", v, force)
    /\ UNCHANGED booted

\* The first call of a server installs the adapter of the calling host, once.
BootstrapFirstCall(i, x, v) ==
    /\ i \in Bootstrap \ booted /\ Hooks(x)
    /\ Begins(i, x, "install", v, FALSE)
    /\ booted' = booted \cup {i}

\* _exclusive_config: the file is created, or it is there.
TakeLock(i) ==
    /\ At(i, "lock")
    /\ LET x == job[i].config IN
        /\ lock[x].by = Unlocked
        /\ lock' = [lock EXCEPT ![x] = [by |-> i, old |-> FALSE]]
    /\ Goes(i, "read")
    /\ UNCHANGED <<configs, own, loose, booted, mcp, deaths>>

\* It is found old, and unlinked in a second step: by then it may be another.
FindOld(i) ==
    /\ At(i, "lock")
    /\ lock[job[i].config].old
    /\ Goes(i, "break")
    /\ UNCHANGED <<configs, own, loose, lock, booted, mcp, deaths>>

BreakLock(i) ==
    /\ At(i, "break")
    /\ lock' = [lock EXCEPT ![job[i].config] = [by |-> Unlocked, old |-> FALSE]]
    /\ Goes(i, "lock")
    /\ UNCHANGED <<configs, own, loose, booted, mcp, deaths>>

\* TimeoutError after _LOCK_TIMEOUT_SECONDS.
GiveUp(i) ==
    /\ At(i, "lock")
    /\ lock[job[i].config].by # Unlocked
    /\ Returns(i)
    /\ UNCHANGED <<configs, own, loose, lock, booted, mcp, deaths>>

LockAges(x) ==
    /\ lock[x].by # Unlocked /\ ~lock[x].old
    /\ lock' = [lock EXCEPT ![x].old = TRUE]
    /\ UNCHANGED <<configs, own, loose, job, booted, mcp, deaths>>

\* The call goes on from what the file has, or from nothing if that is unfit.
ReadConfig(i) ==
    /\ At(i, "read")
    /\ LET w == job[i]
           gave == configs[w.config].state \in Unfit
           c == IF gave THEN Missing ELSE configs[w.config]
       IN  IF Refuses(w, configs[w.config]) \/ InPlace(w, c)
           THEN Goes(i, "unlock")
           ELSE job' = [job EXCEPT ![i].op = "write", ![i].gave = gave, ![i].new = Merged(w, c)]
    /\ UNCHANGED <<configs, own, loose, lock, booted, mcp, deaths>>

\* _atomic_write_text replaces a hook file; write_text empties a server file first.
WriteConfig(i) ==
    /\ At(i, "write")
    /\ LET w == job[i] IN
        IF Hooks(w.config)
        THEN configs' = [configs EXCEPT ![w.config] = w.new] /\ Goes(i, "unlock")
        ELSE configs' = [configs EXCEPT ![w.config] = [Missing EXCEPT !.state = "bad"]] /\ Goes(i, "rest")
    /\ UNCHANGED <<own, loose, lock, booted, mcp, deaths>>

WriteRest(i) ==
    /\ At(i, "rest")
    /\ configs' = [configs EXCEPT ![job[i].config] = job[i].new]
    /\ loose' = loose \cup (IF job[i].gave THEN {job[i].config} ELSE {})
    /\ Goes(i, "unlock")
    /\ UNCHANGED <<own, lock, booted, mcp, deaths>>

\* The lock file is unlinked, whosever it is by now.
Unlock(i) ==
    /\ At(i, "unlock")
    /\ lock' = IF Hooks(job[i].config) THEN [lock EXCEPT ![job[i].config] = [by |-> Unlocked, old |-> FALSE]] ELSE lock
    /\ Returns(i)
    /\ UNCHANGED <<configs, own, loose, booted, mcp, deaths>>

-----------------------------------------------------------------------------
\* setup, repair and remove ask the host's own command line first: _mcp_setup.
CheckMcp(i, v, what) ==
    /\ job[i] = Jobless /\ i \notin Bootstrap
    /\ what = "setup" => mcp = {}
    /\ what = "remove" => mcp # {}
    /\ job' = [job EXCEPT ![i] = [op |-> IF mcp = {} THEN "add" ELSE "drop", version |-> v, what |-> what]]
    /\ UNCHANGED <<configs, own, loose, lock, booted, mcp, deaths>>

DropMcp(i) ==
    /\ At(i, "drop")
    /\ mcp' = {}
    /\ IF job[i].what = "repair" THEN Goes(i, "add") ELSE Returns(i)
    /\ UNCHANGED <<configs, own, loose, lock, booted, deaths>>

\* The host refuses a name it has.
AddMcp(i) ==
    /\ At(i, "add")
    /\ mcp' = IF mcp = {} THEN {job[i].version} ELSE mcp
    /\ Returns(i)
    /\ UNCHANGED <<configs, own, loose, lock, booted, deaths>>

Killed(i) ==
    /\ job[i] # Jobless /\ deaths < MaxDeaths
    /\ deaths' = deaths + 1
    /\ Returns(i)
    /\ booted' = booted \ {i}
    /\ UNCHANGED <<configs, own, loose, lock, mcp>>

\* A call has read the file and has not written it yet.
InHand(x) == \E i \in Installer : job[i].op \in {"write", "rest"} /\ job[i].config = x

\* The user, or the host, rewrites a file, whatever calls are about to write it.
UserWrites(x, content) ==
    /\ content # configs[x]
    /\ configs' = [configs EXCEPT ![x] = content]
    /\ own' = [own EXCEPT ![x] = content.user]
    /\ loose' = IF InHand(x) THEN loose \cup {x} ELSE loose \ {x}
    /\ UNCHANGED <<lock, job, booted, mcp, deaths>>

UserEdits(x) ==
    LET c == configs[x] IN
    \/ \E e \in Entry : UserWrites(x, [c EXCEPT !.state = "good", !.user = @ \cup {e}])
    \/ \E state \in Unfit \cup {"good"} : c.state # "absent" /\ UserWrites(x, [c EXCEPT !.state = state])
    \/ UserWrites(x, Missing)

-----------------------------------------------------------------------------
SetupInit ==
    /\ configs = [x \in Config |-> Missing]
    /\ own = [x \in Config |-> {}]
    /\ loose = {}
    /\ lock = [x \in Config |-> [by |-> Unlocked, old |-> FALSE]]
    /\ job = [i \in Installer |-> Jobless]
    /\ booted = {}
    /\ mcp = {}
    /\ deaths = 0

InstallStep(i) ==
    \/ \E x \in Config, v \in Version :
        \/ \E what \in {"install", "remove"} : ConfigureHost(i, x, what, v)
        \/ \E force \in BOOLEAN : InstallMcp(i, x, v, force)
        \/ BootstrapFirstCall(i, x, v)
    \/ TakeLock(i) \/ FindOld(i) \/ BreakLock(i) \/ GiveUp(i)
    \/ ReadConfig(i) \/ WriteConfig(i) \/ WriteRest(i) \/ Unlock(i)
    \/ \E v \in Version, what \in {"setup", "repair", "remove"} : CheckMcp(i, v, what)
    \/ DropMcp(i) \/ AddMcp(i)
    \/ Killed(i)

SetupNext ==
    \/ \E i \in Installer : InstallStep(i)
    \/ \E x \in Config : LockAges(x) \/ UserEdits(x)

SetupSpec == SetupInit /\ [][SetupNext]_setupVars

-----------------------------------------------------------------------------
\* "Merge only djobs-managed adapters, preserving unrelated configuration"
\* (host_hooks.py:464): installers never lose or bring back an entry among
\* themselves, also when two are past the lock at once, when one that slept writes
\* what it read before, or died in the middle.  What can lose one is told by loose: a
\* user's edit that falls between a call's read and its write is overwritten, and
\* install-mcp starts from nothing on a file it cannot take (with --force, or if it
\* is no object), be it only because another call is writing it.  A hook file djobs
\* owns whole is replaced only if it was its own.
UserEntriesKept ==
    \A x \in Config \ loose :
        configs[x].state = "good" /\ (Kind[x] = "owned" => configs[x].managed = {})
            => configs[x].user = own[x]

\* However often, and by however many at once, the adapter is installed, for
\* whichever database: one adapter runs per event, or every event of a session
\* would be recorded twice.
OneAdapter == \A x \in Config : Cardinality(configs[x].managed) <= 1

\* An installer changes its own entries and nothing else, and leaves one of them.
ConfigsMerged == UserEntriesKept /\ OneAdapter
=============================================================================
