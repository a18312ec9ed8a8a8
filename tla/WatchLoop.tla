------------------------------ MODULE WatchLoop -------------------------------
(****************************************************************************)
(* `serve watch`: the loop that keeps a plane at a repository's HEAD        *)
(* (cli/src/commands.rs), the rebuild it and an agent's tool start          *)
(* (llm/src/preprocess/sync.rs resync, mcp/src/lib.rs rebuild_logic), and   *)
(* the plane's own properties, where the commit it was parsed at, the       *)
(* plugins that built it, the mark of a rebuild under way and its           *)
(* attachments are kept.                                                    *)
(*                                                                          *)
(* A tree's facts are its version.  What a fold does to a plane is          *)
(* PlaneFold's matter: here it makes the plane the version it routed, in    *)
(* one transaction.  The properties are read in one transaction and written *)
(* in another, by everyone but attach.                                      *)
(****************************************************************************)
EXTENDS Integers, Sequences

CONSTANTS
    None,
    Attachments,
    Windows,      \* the interleavings beyond the orderly ones, see below
    MaxCommits, MaxPlugins, MaxPlanes, MaxFails, MaxCrashes

(* "commit": HEAD moves between a fold's reading of the tree and of HEAD.    *)
(* "empty": a commit that touches no file comes when the plane is behind.    *)
(* "checkout": HEAD returns to an older commit before the last is recorded.  *)
(* "rebuild": the tool rebuilds while the loop folds or starts.              *)
(* "attach": an attachment is made while properties are held for writing.    *)
AllWindows == {"commit", "empty", "checkout", "rebuild", "attach"}

(* What a rebuild is for, or that the loop folds.                            *)
Thens == {"unborn", "force", "first", "tool", "fold"}

ASSUME WatchAssumption ==
    /\ Windows \subseteq AllWindows
    /\ None \notin Nat /\ None \notin Thens
    /\ {MaxCommits, MaxPlugins, MaxPlanes, MaxFails, MaxCrashes} \subseteq Nat

VARIABLES
    commits, head,   \* the repository: the version of each commit, and HEAD
    plugins,         \* the installed plugin set
    plane,           \* the watched plane, by name, or None
    planes,          \* how many were created
    loop, tool,      \* the watch loop and the rebuild tool
    attached,        \* what was attached and not lost with a crash (auxiliary)
    fails, crashes

vars == <<commits, head, plugins, plane, planes, loop, tool, attached, fails, crashes>>

Optional(S) == S \cup {None}

Props == [marker : BOOLEAN, commit : Optional(Nat), builtBy : Optional(Nat), drift : BOOLEAN,
          att : SUBSET Attachments]
Plane == [id : Nat, code : Optional(Nat), by : Optional(Nat), props : Props]

ASSUME PlaneAssumption == None \notin Plane

(* marker, commit, builtBy, drift, attachments: REBUILDING_PROP,             *)
(* SYNC_COMMIT_PROP, BUILT_BY_PROP, DRIFT_PROP, ATTACHMENTS.                 *)
NoProps == [marker |-> FALSE, commit |-> None, builtBy |-> None, drift |-> FALSE, att |-> {}]

(* code: the version the plane holds, None while it is empty; by: the        *)
(* plugins of the rebuild that filled it (auxiliary).                        *)
NewPlane(id, props) == [id |-> id, code |-> None, by |-> None, props |-> props]

(* head, now: the commits of watch_loop; facts, with: what was routed and    *)
(* by which plugins; id, props: a handle and its properties as read;         *)
(* then: what a rebuild is for; failed: the last fold failed (auxiliary).    *)
Off == [pc |-> "off", head |-> 0, now |-> 0, facts |-> None, with |-> None,
        id |-> 0, props |-> NoProps, then |-> None, failed |-> FALSE]

Init ==
    /\ commits = <<>> /\ head = 0
    /\ plugins = 1
    /\ plane = None /\ planes = 0
    /\ loop = Off /\ tool = Off
    /\ attached = {}
    /\ fails = 0 /\ crashes = 0

Unborn == head = 0
VersionOf(c) == IF c = 0 THEN 0 ELSE commits[c]
Tree == VersionOf(head)
Current == plane # None /\ plane.code = Tree
Settled == loop.pc = "poll" /\ loop.head = head /\ tool.pc = "off"

(* Between reading the tree and recording HEAD.                              *)
Parsing(p) == p.pc \notin {"off", "poll", "wait"}
Holding(p) == p.pc \in {"create", "builtWrite", "clearWrite", "recordWrite", "noteWrite"}
Orderly(w, condition) == w \in Windows \/ condition

-------------------------------------------------------------------------------
(* The world outside.                                                        *)

Commit(version) ==
    /\ Len(commits) < MaxCommits
    /\ Orderly("commit", ~ Parsing(loop) /\ ~ Parsing(tool))
    /\ Orderly("empty", version = Tree /\ ~ Unborn => Current)
    /\ commits' = Append(commits, version)
    /\ head' = Len(commits) + 1
    /\ UNCHANGED <<plugins, plane, planes, loop, tool, attached, fails, crashes>>

Checkout(c) ==
    /\ c # head
    /\ Orderly("commit", ~ Parsing(loop) /\ ~ Parsing(tool))
    /\ Orderly("checkout", Settled /\ Current /\ plane.props.commit = head)
    /\ head' = c
    /\ UNCHANGED <<commits, plugins, plane, planes, loop, tool, attached, fails, crashes>>

InstallPlugin ==
    /\ plugins < MaxPlugins
    /\ plugins' = plugins + 1
    /\ UNCHANGED <<commits, head, plane, planes, loop, tool, attached, fails, crashes>>

(* Attachments::attach: under one write lock.                                *)
Attach(a) ==
    /\ plane # None
    /\ a \notin plane.props.att
    /\ Orderly("attach", ~ Holding(loop) /\ ~ Holding(tool))
    /\ plane' = [plane EXCEPT !.props.att = @ \cup {a}]
    /\ attached' = attached \cup {a}
    /\ UNCHANGED <<commits, head, plugins, planes, loop, tool, fails, crashes>>

(* The server dies.  What a plane had said goes with it if it dies between   *)
(* the drop and the creation of a rebuild.                                   *)
Crash ==
    /\ crashes < MaxCrashes
    /\ loop.pc # "off" \/ tool.pc # "off"
    /\ crashes' = crashes + 1
    /\ loop' = Off /\ tool' = Off
    /\ attached' = IF plane = None THEN {} ELSE attached
    /\ UNCHANGED <<commits, head, plugins, plane, planes, fails>>

World ==
    \/ \E v \in {Tree, Len(commits) + 1} : Commit(v)
    \/ \E c \in 1..Len(commits) : Checkout(c)
    \/ InstallPlugin
    \/ \E a \in Attachments : Attach(a)
    \/ Crash

-------------------------------------------------------------------------------
(* The steps that the loop and the tool share.  Each takes the process p as  *)
(* it is and gives it as it will be; q is the process's primed variable.     *)

(* A step fails and the error is returned: the watcher stops, the tool       *)
(* answers.                                                                  *)
GivesUp(q) == q = Off

MayFail == fails < MaxFails /\ fails' = fails + 1

(* routed_facts.                                                             *)
RouteTree(p, q) ==
    /\ p.pc = "route"
    /\ \/ q = [p EXCEPT !.pc = "drop", !.facts = Tree, !.with = plugins] /\ UNCHANGED fails
       \/ GivesUp(q) /\ MayFail
    /\ UNCHANGED <<plane, planes, attached>>

(* Slip: the properties go with the plane.                                   *)
DropPlaneAndProps(p, q) ==
    /\ p.pc = "drop"
    /\ q = [p EXCEPT !.pc = "create", !.props = NoProps]
    /\ plane' = None
    /\ UNCHANGED <<planes, attached, fails>>

(* resync: the properties outlive the plane.                                 *)
DropPlane(p, q) ==
    /\ p.pc = "drop"
    /\ q = [p EXCEPT !.pc = "create", !.props = IF plane = None THEN NoProps ELSE plane.props]
    /\ plane' = None
    /\ UNCHANGED <<planes, attached, fails>>

(* With the mark in the same call.                                           *)
CreatePlane(p, q) ==
    /\ p.pc = "create"
    /\ IF plane # None THEN GivesUp(q) /\ UNCHANGED <<plane, planes>>
       ELSE /\ q = [p EXCEPT !.pc = "apply"]
            /\ planes' = planes + 1
            /\ plane' = NewPlane(planes + 1, [p.props EXCEPT !.marker = TRUE])
    /\ UNCHANGED <<attached, fails>>

(* apply_with_ops into the new plane.                                        *)
ApplyRebuild(p, q) ==
    /\ p.pc = "apply"
    /\ \/ /\ plane # None
          /\ plane' = [plane EXCEPT !.code = p.facts, !.by = p.with]
          /\ q = [p EXCEPT !.pc = "built"]
          /\ UNCHANGED fails
       \/ /\ GivesUp(q) /\ UNCHANGED plane
          /\ IF plane = None THEN UNCHANGED fails ELSE MayFail
    /\ UNCHANGED <<planes, attached>>

(* plane.properties(), by name.                                              *)
ReadProps(p, q, at, write) ==
    /\ p.pc = at
    /\ IF plane = None THEN GivesUp(q)
       ELSE q = [p EXCEPT !.pc = write, !.id = plane.id, !.props = plane.props]
    /\ UNCHANGED <<plane, planes, attached, fails>>

(* plane.set_properties(), by the handle's id.                               *)
WriteProps(p, q, write, props, done) ==
    /\ p.pc = write
    /\ IF plane = None \/ plane.id # p.id THEN GivesUp(q) /\ UNCHANGED plane
       ELSE plane' = [plane EXCEPT !.props = props] /\ q = done
    /\ UNCHANGED <<planes, attached, fails>>

To(p, pc) == [p EXCEPT !.pc = pc, !.props = NoProps, !.id = 0]

(* record_built_by, then the mark comes off.                                 *)
RecordBuiltBy(p, q) ==
    \/ ReadProps(p, q, "built", "builtWrite")
    \/ WriteProps(p, q, "builtWrite", [p.props EXCEPT !.builtBy = p.with], To(p, "clear"))

AfterRebuild(p) == IF p.then = "unborn" THEN "wait" ELSE "record"

ClearMarker(p, q) ==
    \/ ReadProps(p, q, "clear", "clearWrite")
    \/ WriteProps(p, q, "clearWrite", [p.props EXCEPT !.marker = FALSE], To(p, AfterRebuild(p)))

(* Slip: the mark comes off before the plugins are recorded.                 *)
ResyncClearsFirst(p, q) ==
    \/ RouteTree(p, q) \/ DropPlane(p, q) \/ CreatePlane(p, q) \/ ApplyRebuild(p, q)
    \/ ReadProps(p, q, "built", "clearWrite")
    \/ WriteProps(p, q, "clearWrite", [p.props EXCEPT !.marker = FALSE], To(p, "clear"))
    \/ ReadProps(p, q, "clear", "builtWrite")
    \/ WriteProps(p, q, "builtWrite", [p.props EXCEPT !.builtBy = p.with], To(p, AfterRebuild(p)))

Resync(p, q) ==
    \/ RouteTree(p, q) \/ DropPlane(p, q) \/ CreatePlane(p, q) \/ ApplyRebuild(p, q)
    \/ RecordBuiltBy(p, q) \/ ClearMarker(p, q)

(* note_plugin_drift: a plane that does not say what built it is left alone, *)
(* and so is one that has nothing to take back.                              *)
NothingToNote(props, installed) ==
    props.builtBy = None \/ (props.builtBy = installed /\ ~ props.drift)

Drifted(props, installed) == [props EXCEPT !.drift = (props.builtBy # installed)]

-------------------------------------------------------------------------------
(* The watch loop.                                                           *)

LoopMay == Orderly("rebuild", tool.pc = "off")

(* watch_loop without a commit to anchor on, or with --force.                *)
StartRebuild(force) ==
    /\ loop.pc = "off"
    /\ Unborn \/ force
    /\ planes + 2 <= MaxPlanes
    /\ loop' = [Off EXCEPT !.pc = "route", !.head = head,
                           !.then = IF Unborn THEN "unborn" ELSE "force"]
    /\ UNCHANGED <<plane, planes, attached, fails>>

(* Slip: folding forward from HEAD, whatever the plane records.              *)
CatchUpFromHead ==
    /\ loop.pc = "off" /\ ~ Unborn
    /\ plane # None
    /\ loop' = [Off EXCEPT !.pc = "note", !.head = head]
    /\ UNCHANGED <<plane, planes, attached, fails>>

(* catch_up_from: the first poll folds the gap from what is recorded.        *)
CatchUp ==
    /\ loop.pc = "off" /\ ~ Unborn
    /\ IF plane = None
         THEN planes < MaxPlanes /\ planes' = planes + 1 /\ plane' = NewPlane(planes + 1, NoProps)
         ELSE UNCHANGED <<plane, planes>>
    /\ loop' = [Off EXCEPT !.pc = "note",
                           !.head = IF plane = None THEN head
                                    ELSE IF plane.props.commit = None THEN head
                                    ELSE plane.props.commit]
    /\ UNCHANGED <<attached, fails>>

(* bootstrap_unborn: the first commit is there.                              *)
FirstCommit ==
    /\ loop.pc = "wait" /\ ~ Unborn
    /\ loop' = [loop EXCEPT !.pc = "route", !.head = head, !.then = "first"]
    /\ UNCHANGED <<plane, planes, attached, fails>>

(* The end of a tick: `head = now`.                                          *)
MovedOn(p) == [p EXCEPT !.pc = "poll", !.head = p.now, !.props = NoProps, !.id = 0,
                           !.facts = None, !.with = None]

(* poll_commits: a move that touches no file is not folded, only recorded.   *)
Poll ==
    /\ loop.pc = "poll" /\ loop.head # head
    /\ loop' = [loop EXCEPT !.now = head, !.then = "fold",
                            !.pc = IF VersionOf(loop.head) = Tree THEN "record" ELSE "fold"]
    /\ UNCHANGED <<plane, planes, attached, fails>>

(* sync_paths routes the tree as it is by now.                               *)
FoldRoute ==
    /\ loop.pc = "fold"
    /\ loop' = [loop EXCEPT !.pc = "foldApply", !.facts = Tree, !.with = plugins]
    /\ UNCHANGED <<plane, planes, attached, fails>>

FoldApply ==
    /\ loop.pc = "foldApply" /\ plane # None
    /\ plane' = [plane EXCEPT !.code = loop.facts]
    /\ loop' = [loop EXCEPT !.pc = "note", !.failed = FALSE]
    /\ UNCHANGED <<planes, attached, fails>>

(* Slip: the move is recorded all the same.                                  *)
FoldFailsRecorded ==
    /\ loop.pc \in {"fold", "foldApply"}
    /\ IF plane = None /\ loop.pc = "foldApply" THEN UNCHANGED fails ELSE MayFail
    /\ loop' = [loop EXCEPT !.pc = "record", !.failed = TRUE]
    /\ UNCHANGED <<plane, planes, attached>>

(* The fold fails: watching continues, nothing is recorded.                  *)
FoldFails ==
    /\ loop.pc \in {"fold", "foldApply"}
    /\ IF plane = None /\ loop.pc = "foldApply" THEN UNCHANGED fails ELSE MayFail
    /\ loop' = [MovedOn(loop) EXCEPT !.failed = TRUE]
    /\ UNCHANGED <<plane, planes, attached>>

(* note_plugin_drift, at startup and after a fold; its errors are dropped.   *)
AfterNote(p) == IF p.then = "fold" THEN [p EXCEPT !.pc = "record"]
                ELSE [p EXCEPT !.pc = "poll", !.then = "fold", !.facts = None, !.with = None]

(* The plugins of the fold that it follows, those of now at startup.         *)
Installed == IF loop.then = "fold" THEN loop.with ELSE plugins

Note ==
    /\ \/ /\ loop.pc = "note"
          /\ loop' = IF plane = None \/ NothingToNote(plane.props, Installed) THEN AfterNote(loop)
                     ELSE [loop EXCEPT !.pc = "noteWrite", !.id = plane.id,
                                       !.props = Drifted(plane.props, Installed)]
          /\ UNCHANGED plane
       \/ /\ loop.pc = "noteWrite"
          /\ loop' = AfterNote([loop EXCEPT !.props = NoProps, !.id = 0])
          /\ plane' = IF plane = None \/ plane.id # loop.id THEN plane
                      ELSE [plane EXCEPT !.props = loop.props]
    /\ UNCHANGED <<planes, attached, fails>>

(* record_sync_point: HEAD is read again.                                    *)
RecordRead(p, q) ==
    /\ p.pc = "record"
    /\ IF plane = None
         THEN q = IF p.then = "fold" THEN MovedOn(p) ELSE Off
         ELSE q = [p EXCEPT !.pc = "recordWrite", !.id = plane.id,
                            !.props = [plane.props EXCEPT !.commit = head]]
    /\ UNCHANGED <<plane, planes, attached, fails>>

(* What follows: the next tick, the note of startup or of the tool.          *)
Recorded(p) == IF p.then = "fold" THEN MovedOn(p)
               ELSE To(p, "note")

RecordWrite(p, q) ==
    /\ p.pc = "recordWrite"
    /\ IF plane = None \/ plane.id # p.id
         THEN q = (IF p.then = "fold" THEN MovedOn(p) ELSE Off) /\ UNCHANGED plane
         ELSE plane' = [plane EXCEPT !.props = p.props] /\ q = Recorded(p)
    /\ UNCHANGED <<planes, attached, fails>>

Loop ==
    /\ LoopMay
    /\ \/ Resync(loop, loop') \/ RecordRead(loop, loop') \/ RecordWrite(loop, loop')
       \/ FirstCommit \/ Poll \/ FoldRoute \/ FoldApply \/ Note
    /\ UNCHANGED <<commits, head, plugins, tool, crashes>>

LoopStarts ==
    /\ LoopMay
    /\ CatchUp \/ \E force \in BOOLEAN : StartRebuild(force)
    /\ UNCHANGED <<commits, head, plugins, tool, crashes>>

LoopFails ==
    /\ LoopMay
    /\ FoldFails
    /\ UNCHANGED <<commits, head, plugins, tool, crashes>>

-------------------------------------------------------------------------------
(* The tool: rebuild_logic, of a plane that knows the directory it is from.  *)

ToolStarts ==
    /\ tool.pc = "off"
    /\ Orderly("rebuild", loop.pc \in {"off", "poll"})
    /\ plane # None /\ plane.props.commit # None
    /\ planes < MaxPlanes
    /\ tool' = [Off EXCEPT !.pc = "route", !.then = "tool"]
    /\ UNCHANGED <<commits, head, plugins, plane, planes, loop, attached, fails, crashes>>

ToolNote ==
    \/ /\ tool.pc = "note"
       /\ tool' = IF plane = None \/ NothingToNote(plane.props, tool.with) THEN Off
                  ELSE [tool EXCEPT !.pc = "noteWrite", !.id = plane.id,
                                    !.props = Drifted(plane.props, tool.with)]
       /\ UNCHANGED <<plane, planes, attached, fails>>
    \/ WriteProps(tool, tool', "noteWrite", tool.props, Off)

Tool ==
    /\ tool.pc # "off"
    /\ \/ Resync(tool, tool') \/ RecordRead(tool, tool') \/ RecordWrite(tool, tool')
       \/ ToolNote
    /\ UNCHANGED <<commits, head, plugins, loop, crashes>>

Next == World \/ Loop \/ LoopStarts \/ LoopFails \/ ToolStarts \/ Tool

(* The threads run; nobody has to start the server, or a rebuild, again.     *)
Spec == Init /\ [][Next]_vars /\ WF_vars(Loop) /\ WF_vars(Tool)

-------------------------------------------------------------------------------
(* "a plane that is empty and silent about why is the window this closes",   *)
(* "a plane that is finished must already say what built it": whoever        *)
(* crashed or failed where, a plane that bears no mark and names a commit    *)
(* has been filled, and says which plugins the rebuild that made it used.    *)
MarkerHonest ==
    plane # None /\ ~ plane.props.marker =>
        /\ plane.props.commit # None => plane.code # None
        /\ plane.by # None => plane.props.builtBy = plane.by

(* "dropping them silently detached every graph this one could reach": a     *)
(* rebuild, a fold and a record of the sync point leave what was attached.   *)
AttachmentsKept == plane # None => attached \subseteq plane.props.att

(* "graph and repository are in sync", says a start that finds HEAD          *)
(* recorded: then the plane holds that commit's facts, or says that it is    *)
(* being rebuilt, whatever failed or died before.                            *)
InSync ==
    loop.pc = "off" /\ tool.pc = "off" /\ plane # None /\ ~ Unborn =>
        (plane.props.commit = head => Current \/ plane.props.marker)

(* "so a restart retries exactly the gap that failed rather than skipping    *)
(* it", and every commit folds into the graph: again and again the loop is   *)
(* at HEAD with the plane of that commit, unless its last fold failed, it    *)
(* has nothing to compare with or a rebuild died.                            *)
CatchesUp ==
    []<>(\/ loop.pc \in {"off", "wait"}
         \/ /\ Settled
            /\ \/ Current \/ loop.failed \/ plane = None
               \/ plane.props.marker \/ plane.props.commit = None)
===============================================================================
