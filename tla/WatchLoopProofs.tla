---------------------------- MODULE WatchLoopProofs ---------------------------
(****************************************************************************)
(* The plane's own properties tell the truth about it, for any number of    *)
(* commits, plugin sets, rebuilds, failures and crashes, as long as none of *)
(* the windows of WatchLoop is open.                                        *)
(*                                                                          *)
(* The argument: the loop and the tool take turns, so one of them at most   *)
(* holds properties that it has read; HEAD does not move between the        *)
(* reading of the tree and the recording of HEAD; and where the plane does  *)
(* not hold the facts of the commit that it names, it bears the mark.       *)
(****************************************************************************)
EXTENDS WatchLoop, TLAPS

NoWindow == Windows = {}

Version(cs, c) == IF c = 0 THEN 0 ELSE cs[c]

Routed == {"drop", "create", "apply", "built", "builtWrite", "clear", "clearWrite"}
Filled == {"built", "builtWrite", "clear", "clearWrite"}
Pcs == Routed \cup {"off", "route", "wait", "poll", "fold", "foldApply", "note", "noteWrite",
                    "record", "recordWrite"}

Proc == [pc : Pcs, head : Nat, now : Nat, facts : Optional(Nat), with : Optional(Nat),
         id : Nat, props : Props, then : Optional(Thens), failed : BOOLEAN]

Types ==
    /\ commits \in Seq(Nat) /\ head \in Nat /\ plugins \in Nat /\ planes \in Nat
    /\ plane \in Optional(Plane)
    /\ loop \in Proc /\ tool \in Proc
    /\ attached \subseteq Attachments

CommitIn(props, cs) == props.commit # None => props.commit \in 1..Len(cs)

(* A commit that makes new files makes a version that there never was.       *)
Repository ==
    /\ \A c \in 1..Len(commits) : commits[c] <= c
    /\ head <= Len(commits) /\ (head = 0 => commits = <<>>)
    /\ loop.head <= Len(commits)
    /\ plane # None => CommitIn(plane.props, commits)

(* The loop and the tool take turns.                                         *)
Turns ==
    /\ tool.pc # "off" => loop.pc \in {"off", "poll"} /\ head # 0 /\ tool.then = "tool"
    /\ tool.pc \notin {"wait", "poll", "fold", "foldApply"}

(* A plane that is of version t, or says that it may not be.                 *)
Good(pl, t) == pl # None => pl.code = t \/ pl.props.marker

Honest(pl) ==
    pl # None /\ ~ pl.props.marker =>
        /\ pl.props.commit # None => pl.code # None
        /\ pl.by # None => pl.props.builtBy = pl.by

(* A plane that names a commit with the files of now has them.               *)
Named(pl, cs, t) ==
    pl # None /\ pl.props.commit # None /\ Version(cs, pl.props.commit) = t => Good(pl, t)

Kept(pl, at) == pl # None => at \subseteq pl.props.att

(* What a process holds at each point of a rebuild, or of a record.          *)
Process(p, pl, cs, t, h, at) ==
    /\ p.pc \in Routed => p.facts = t /\ p.with \in Nat
    /\ p.pc = "create" => pl = None /\ at \subseteq p.props.att /\ CommitIn(p.props, cs)
    /\ p.pc = "apply" => pl # None /\ pl.props.marker
    /\ p.pc \in Filled => pl # None /\ pl.code = t /\ pl.by = p.with
    /\ p.pc \in {"clear", "clearWrite"} => pl.props.builtBy = pl.by
    /\ p.pc \in {"builtWrite", "clearWrite"} => p.props = pl.props
    /\ p.pc = "recordWrite" => pl # None /\ p.props = [pl.props EXCEPT !.commit = h]
    /\ p.pc = "noteWrite" => /\ pl # None
                             /\ \E d \in BOOLEAN : p.props = [pl.props EXCEPT !.drift = d]
    /\ p.pc \in {"record", "recordWrite"} => Good(pl, t) /\ h # 0
    /\ p.pc \in {"note", "noteWrite"} /\ p.then = "fold" => Good(pl, t)

(* What the loop has compared with lets it skip the fold where it may.       *)
Compared(lp, pl, cs, t, h) == lp.head = h \/ Version(cs, lp.head) # t \/ Good(pl, t)

Looping(lp, pl, cs, t, h) ==
    /\ lp.pc \in Routed \cup {"route"} =>
          lp.then # "fold" /\ lp.head = h /\ (h = 0 => lp.then = "unborn")
    /\ lp.pc \in {"record", "recordWrite"} => IF lp.then = "fold" THEN lp.now = h ELSE lp.head = h
    /\ lp.pc \in {"fold", "foldApply"} => lp.now = h /\ lp.then = "fold" /\ h # 0
    /\ lp.pc = "foldApply" => lp.facts = t
    /\ lp.pc \in {"note", "noteWrite"} =>
          /\ h # 0
          /\ IF lp.then = "fold" THEN lp.now = h ELSE Compared(lp, pl, cs, t, h)
    /\ lp.pc = "poll" => h # 0 /\ Compared(lp, pl, cs, t, h)

(* Without a plane nothing is attached but what a rebuild carries over.      *)
Carried == plane = None => attached = {} \/ loop.pc = "create" \/ tool.pc = "create"

Inv ==
    /\ Types /\ Repository /\ Turns
    /\ Honest(plane) /\ Named(plane, commits, Tree) /\ Kept(plane, attached)
    /\ Process(loop, plane, commits, Tree, head, attached)
    /\ Process(tool, plane, commits, Tree, head, attached)
    /\ Looping(loop, plane, commits, Tree, head)
    /\ Carried

-------------------------------------------------------------------------------
(* The steps that the loop and the tool share, of either.                    *)

(* What a step of the process in its turn, which is q after it, leaves.      *)
Sound(q) ==
    /\ q \in Proc /\ plane' \in Optional(Plane) /\ planes' \in Nat /\ attached' = attached
    /\ Honest(plane') /\ Named(plane', commits, Tree) /\ Kept(plane', attached)
    /\ Process(q, plane', commits, Tree, head, attached)
    /\ plane' # None => CommitIn(plane'.props, commits)
    /\ plane' = None => attached = {} \/ q.pc = "create"

Safe(q) == Sound(q) /\ (Good(plane, Tree) => Good(plane', Tree))

LEMMA OffIs == /\ NoProps \in Props /\ NoProps.commit = None /\ NoProps.att = {}
               /\ Off \in Proc /\ Off.pc = "off" /\ Off.head = 0 /\ Off.then = None
<1>1. NoProps \in Props /\ NoProps.commit = None /\ NoProps.att = {}
  BY DEF NoProps, Props, Optional
<1> QED
  BY <1>1 DEF Off, Proc, Pcs, Optional

LEMMA TreeIs ==
  ASSUME Types, Repository
  PROVE  /\ Tree = Version(commits, head) /\ Tree \in Nat /\ Tree # None
         /\ head # 0 => head \in 1..Len(commits)
<1>1. /\ commits \in Seq(Nat) /\ head \in Nat /\ head <= Len(commits) /\ Len(commits) \in Nat
  BY DEF Types, Repository
<1>2. head # 0 => head \in 1..Len(commits)
  BY <1>1
<1> QED
  BY <1>1, <1>2, WatchAssumption DEF Tree, VersionOf, Version

(* A step that gives up, or goes on without touching the plane.              *)
LEMMA PlaneLeft ==
  ASSUME Inv, NEW q, q \in Proc, UNCHANGED <<plane, planes, attached>>,
         Process(q, plane, commits, Tree, head, attached),
         plane = None => attached = {} \/ q.pc = "create"
  PROVE  Safe(q)
  BY DEF Safe, Sound, Inv, Types, Repository

LEMMA OffIsFine ==
  ASSUME NEW pl, NEW cs, NEW t, NEW h, NEW at, NEW q, q.pc \in {"off", "wait", "poll"}
  PROVE  Process(q, pl, cs, t, h, at)
  BY DEF Process, Routed, Filled

LEMMA ResyncSafe ==
  ASSUME Inv, NEW p, NEW q, p \in Proc, Resync(p, q),
         Process(p, plane, commits, Tree, head, attached),
         plane = None => attached = {} \/ p.pc = "create",
         head = 0 => p.then = "unborn"
  PROVE  /\ Safe(q)
         /\ \/ q = Off
            \/ /\ q.head = p.head /\ q.then = p.then
               /\ q.pc \in Routed \cup {"wait", "record"}
               /\ q.pc = "wait" => p.then = "unborn"
<1> DEFINE P(r, pl) == Process(r, pl, commits, Tree, head, attached)
<1>0. /\ plane \in Optional(Plane) /\ planes \in Nat /\ plugins \in Nat /\ Tree \in Nat
      /\ (plane # None => plane \in Plane /\ plane.props \in Props)
      /\ Honest(plane) /\ Named(plane, commits, Tree) /\ Kept(plane, attached)
      /\ (plane # None => CommitIn(plane.props, commits))
  BY TreeIs DEF Inv, Types, Repository, Optional, Plane
<1>1. ASSUME GivesUp(q), UNCHANGED <<plane, planes, attached>>, p.pc # "create"
      PROVE  Safe(q)
  BY <1>1, OffIs, OffIsFine, PlaneLeft DEF GivesUp
<1>2. CASE RouteTree(p, q)
  <2>1. UNCHANGED <<plane, planes, attached>> /\ p.pc = "route"
    BY <1>2 DEF RouteTree
  <2>2. CASE q = [p EXCEPT !.pc = "drop", !.facts = Tree, !.with = plugins]
    <3>1. /\ q \in Proc /\ q.pc = "drop" /\ q.facts = Tree /\ q.with = plugins
          /\ q.head = p.head /\ q.then = p.then
      BY <1>0, <2>2 DEF Proc, Pcs, Routed, Optional
    <3>2. P(q, plane)
      BY <1>0, <3>1 DEF Process, Routed, Filled
    <3> QED
      BY <2>1, <3>1, <3>2, PlaneLeft DEF Routed
  <2> QED
    BY <1>1, <1>2, <2>1, <2>2 DEF RouteTree, GivesUp
<1>3. CASE DropPlane(p, q)
  <2>1. /\ p.pc = "drop" /\ plane' = None /\ UNCHANGED <<planes, attached>>
        /\ q = [p EXCEPT !.pc = "create", !.props = IF plane = None THEN NoProps ELSE plane.props]
    BY <1>3 DEF DropPlane
  <2> DEFINE props == IF plane = None THEN NoProps ELSE plane.props
  <2>2. props \in Props /\ attached \subseteq props.att /\ CommitIn(props, commits)
    BY <1>0, <2>1, OffIs DEF Kept, CommitIn
  <2> HIDE DEF props
  <2>3. /\ q \in Proc /\ q.pc = "create" /\ q.facts = p.facts /\ q.with = p.with
        /\ q.head = p.head /\ q.then = p.then /\ q.props = props
    BY <2>1, <2>2 DEF Proc, Pcs, Routed, props
  <2>4. P(q, plane')
    BY <2>1, <2>2, <2>3 DEF Process, Routed, Filled
  <2> QED
    BY <1>0, <2>1, <2>3, <2>4 DEF Safe, Sound, Honest, Named, Kept, Good, Routed, Optional
<1>4. CASE CreatePlane(p, q)
  <2>1. /\ p.pc = "create" /\ plane = None /\ attached \subseteq p.props.att
        /\ CommitIn(p.props, commits) /\ p.facts = Tree /\ p.with \in Nat
    BY <1>4 DEF CreatePlane, Process, Routed
  <2>2. /\ UNCHANGED attached /\ planes' = planes + 1
        /\ q = [p EXCEPT !.pc = "apply"]
        /\ plane' = NewPlane(planes + 1, [p.props EXCEPT !.marker = TRUE])
    BY <1>4, <2>1 DEF CreatePlane
  <2> DEFINE props == [p.props EXCEPT !.marker = TRUE]
  <2>3. p.props \in Props
    BY DEF Proc
  <2>4. /\ props \in Props /\ props.commit = p.props.commit /\ props.att = p.props.att
        /\ props.marker
    BY <2>3 DEF Props
  <2> HIDE DEF props
  <2>5. /\ plane' \in Plane /\ plane'.props = props /\ plane'.code = None /\ plane'.by = None
        /\ planes' \in Nat
    BY <1>0, <2>2, <2>4 DEF NewPlane, Plane, Optional, props
  <2>6. plane' # None
    BY <2>5, PlaneAssumption
  <2>7. /\ q \in Proc /\ q.pc = "apply" /\ q.facts = p.facts /\ q.with = p.with
        /\ q.head = p.head /\ q.then = p.then
    BY <2>2 DEF Proc, Pcs, Routed
  <2>8. P(q, plane')
    BY <2>1, <2>4, <2>5, <2>6, <2>7 DEF Process, Routed, Filled
  <2>9. Good(plane', Tree) /\ Honest(plane') /\ Kept(plane', attached)
    BY <2>1, <2>4, <2>5 DEF Good, Honest, Kept
  <2>10. Named(plane', commits, Tree) /\ CommitIn(plane'.props, commits)
    BY <2>1, <2>4, <2>5, <2>9 DEF Named, CommitIn
  <2> QED
    BY <2>2, <2>5, <2>6, <2>7, <2>8, <2>9, <2>10 DEF Safe, Sound, Routed, Optional
<1>5. CASE ApplyRebuild(p, q)
  <2>1. /\ p.pc = "apply" /\ plane # None /\ plane.props.marker /\ p.facts = Tree /\ p.with \in Nat
        /\ UNCHANGED <<planes, attached>>
    BY <1>5 DEF ApplyRebuild, Process, Routed
  <2>2. CASE /\ plane' = [plane EXCEPT !.code = p.facts, !.by = p.with]
             /\ q = [p EXCEPT !.pc = "built"]
    <3>1. /\ plane' \in Plane /\ plane'.props = plane.props /\ plane'.code = Tree
          /\ plane'.by = p.with
      BY <1>0, <2>1, <2>2 DEF Plane, Optional
    <3>2. plane' # None
      BY <3>1, PlaneAssumption
    <3>3. /\ q \in Proc /\ q.pc = "built" /\ q.facts = p.facts /\ q.with = p.with
          /\ q.head = p.head /\ q.then = p.then
      BY <2>2 DEF Proc, Pcs, Routed
    <3>4. P(q, plane')
      BY <2>1, <3>1, <3>2, <3>3 DEF Process, Routed, Filled
    <3>5. Good(plane', Tree) /\ Honest(plane') /\ Kept(plane', attached)
      BY <1>0, <2>1, <3>1 DEF Good, Honest, Kept
    <3>6. Named(plane', commits, Tree) /\ CommitIn(plane'.props, commits)
      BY <1>0, <2>1, <3>1, <3>5 DEF Named, CommitIn
    <3> QED
      BY <1>0, <2>1, <3>1, <3>2, <3>3, <3>4, <3>5, <3>6 DEF Safe, Sound, Routed, Optional
  <2>3. CASE GivesUp(q) /\ UNCHANGED plane
    BY <1>1, <2>1, <2>3 DEF GivesUp
  <2> QED
    BY <1>5, <2>2, <2>3 DEF ApplyRebuild
<1>6. ASSUME NEW at \in {"built", "clear"}, NEW write \in {"builtWrite", "clearWrite"},
             at = "built" <=> write = "builtWrite", ReadProps(p, q, at, write)
      PROVE  Safe(q) /\ q.head = p.head /\ q.then = p.then /\ q.pc = write
  <2>1. /\ p.pc = at /\ plane # None /\ UNCHANGED <<plane, planes, attached>>
        /\ q = [p EXCEPT !.pc = write, !.id = plane.id, !.props = plane.props]
    BY <1>6 DEF ReadProps, Process, Filled
  <2>2. /\ q \in Proc /\ q.pc = write /\ q.facts = p.facts /\ q.with = p.with
        /\ q.head = p.head /\ q.then = p.then /\ q.props = plane.props
    BY <1>0, <2>1 DEF Proc, Pcs, Routed, Plane
  <2>3. P(q, plane)
    BY <1>6, <2>1, <2>2 DEF Process, Routed, Filled
  <2> QED
    BY <2>1, <2>2, <2>3, PlaneLeft
<1>7. CASE WriteProps(p, q, "builtWrite", [p.props EXCEPT !.builtBy = p.with], To(p, "clear"))
  <2>1. /\ p.pc = "builtWrite" /\ plane # None /\ plane.code = Tree /\ plane.by = p.with
        /\ p.props = plane.props /\ p.with \in Nat /\ p.facts = Tree
        /\ UNCHANGED <<planes, attached>>
    BY <1>7 DEF WriteProps, Process, Routed, Filled
  <2>2. CASE plane.id # p.id
    BY <1>1, <1>7, <2>1, <2>2 DEF WriteProps, GivesUp
  <2>3. CASE plane.id = p.id
    <3>1. plane' = [plane EXCEPT !.props = [plane.props EXCEPT !.builtBy = p.with]]
          /\ q = To(p, "clear")
      BY <1>7, <2>1, <2>3 DEF WriteProps
    <3>2. /\ plane' \in Plane /\ plane'.code = Tree /\ plane'.by = p.with
          /\ plane'.props.builtBy = p.with /\ plane'.props.commit = plane.props.commit
          /\ plane'.props.att = plane.props.att
      BY <1>0, <2>1, <3>1 DEF Plane, Props, Optional
    <3>3. plane' # None
      BY <3>2, PlaneAssumption
    <3>4. /\ q \in Proc /\ q.pc = "clear" /\ q.facts = p.facts /\ q.with = p.with
          /\ q.head = p.head /\ q.then = p.then
      BY <3>1, OffIs DEF To, Proc, Pcs, Routed
    <3>5. P(q, plane')
      BY <2>1, <3>2, <3>3, <3>4 DEF Process, Routed, Filled
    <3>6. Good(plane', Tree) /\ Honest(plane') /\ Kept(plane', attached)
      BY <1>0, <2>1, <3>2, WatchAssumption DEF Good, Honest, Kept
    <3>7. Named(plane', commits, Tree) /\ CommitIn(plane'.props, commits)
      BY <1>0, <2>1, <3>2, <3>6 DEF Named, CommitIn
    <3> QED
      BY <1>0, <2>1, <3>2, <3>3, <3>4, <3>5, <3>6, <3>7 DEF Safe, Sound, Routed, Optional
  <2> QED
    BY <2>2, <2>3
<1>8. CASE WriteProps(p, q, "clearWrite", [p.props EXCEPT !.marker = FALSE],
                      To(p, AfterRebuild(p)))
  <2>1. /\ p.pc = "clearWrite" /\ plane # None /\ plane.code = Tree /\ plane.by = p.with
        /\ p.props = plane.props /\ p.with \in Nat /\ plane.props.builtBy = plane.by
        /\ UNCHANGED <<planes, attached>>
    BY <1>8 DEF WriteProps, Process, Routed, Filled
  <2>2. CASE plane.id # p.id
    BY <1>1, <1>8, <2>1, <2>2 DEF WriteProps, GivesUp
  <2>3. CASE plane.id = p.id
    <3>1. plane' = [plane EXCEPT !.props = [plane.props EXCEPT !.marker = FALSE]]
          /\ q = To(p, AfterRebuild(p))
      BY <1>8, <2>1, <2>3 DEF WriteProps
    <3>2. /\ plane' \in Plane /\ plane'.code = Tree /\ plane'.by = plane.by
          /\ plane'.props.builtBy = plane.by /\ plane'.props.commit = plane.props.commit
          /\ plane'.props.att = plane.props.att
      BY <1>0, <2>1, <3>1 DEF Plane, Props, Optional
    <3>3. plane' # None
      BY <3>2, PlaneAssumption
    <3>4. /\ q \in Proc /\ q.pc = AfterRebuild(p)
          /\ q.head = p.head /\ q.then = p.then
      BY <3>1, OffIs DEF To, Proc, Pcs, AfterRebuild
    <3>5. Good(plane', Tree) /\ Honest(plane') /\ Kept(plane', attached)
      BY <1>0, <2>1, <3>2, WatchAssumption DEF Good, Honest, Kept
    <3>6. q.pc \in {"wait", "record"} /\ (q.pc = "wait" => p.then = "unborn")
          /\ (q.pc = "record" => head # 0)
      BY <3>4 DEF AfterRebuild
    <3>7. P(q, plane')
      BY <3>5, <3>6 DEF Process, Routed, Filled
    <3>8. Named(plane', commits, Tree) /\ CommitIn(plane'.props, commits)
      BY <1>0, <2>1, <3>2, <3>5 DEF Named, CommitIn
    <3> QED
      BY <1>0, <2>1, <3>2, <3>3, <3>4, <3>5, <3>6, <3>7, <3>8 DEF Safe, Sound, Routed, Optional
  <2> QED
    BY <2>2, <2>3
<1> QED
  BY <1>2, <1>3, <1>4, <1>5, <1>6, <1>7, <1>8 DEF Resync, RecordBuiltBy, ClearMarker, Routed

(* The plane gets properties that keep all but the commit and the drift.     *)
LEMMA PropsWritten ==
  ASSUME Inv, plane # None, NEW props \in Props, plane' = [plane EXCEPT !.props = props],
         props.marker = plane.props.marker, props.att = plane.props.att,
         props.builtBy = plane.props.builtBy,
         \/ props.commit = plane.props.commit
         \/ props.commit = head /\ head # 0 /\ Good(plane, Tree)
  PROVE  /\ plane' \in Plane /\ plane' # None
         /\ Honest(plane') /\ Named(plane', commits, Tree) /\ Kept(plane', attached)
         /\ Good(plane, Tree) => Good(plane', Tree)
         /\ CommitIn(plane'.props, commits)
<1>1. /\ plane \in Plane /\ Honest(plane) /\ Named(plane, commits, Tree) /\ Kept(plane, attached)
      /\ CommitIn(plane.props, commits)
      /\ Tree \in Nat /\ Tree # None /\ (head # 0 => head \in 1..Len(commits))
  BY TreeIs DEF Inv, Types, Repository, Optional
<1>2. /\ plane' \in Plane /\ plane'.props = props /\ plane'.code = plane.code
      /\ plane'.by = plane.by
  BY <1>1 DEF Plane
<1>3. plane' # None
  BY <1>2, PlaneAssumption
<1>4. Good(plane, Tree) => Good(plane', Tree)
  BY <1>2 DEF Good
<1>5. Honest(plane')
  BY <1>1, <1>2 DEF Honest, Good
<1>6. Named(plane', commits, Tree)
  BY <1>1, <1>2, <1>4 DEF Named
<1>7. Kept(plane', attached)
  BY <1>1, <1>2 DEF Kept
<1>8. CommitIn(plane'.props, commits)
  BY <1>1, <1>2 DEF CommitIn
<1> QED
  BY <1>2, <1>3, <1>4, <1>5, <1>6, <1>7, <1>8

LEMMA MovedOnIs ==
  ASSUME NEW p \in Proc
  PROVE  /\ MovedOn(p) \in Proc /\ MovedOn(p).pc = "poll" /\ MovedOn(p).head = p.now
         /\ \A pc \in Pcs : /\ To(p, pc) \in Proc /\ To(p, pc).pc = pc
                            /\ To(p, pc).head = p.head /\ To(p, pc).then = p.then
                            /\ To(p, pc).now = p.now
<1>1. MovedOn(p) \in Proc /\ MovedOn(p).pc = "poll" /\ MovedOn(p).head = p.now
  BY OffIs DEF MovedOn, Proc, Pcs, Optional
<1> QED
  BY <1>1, OffIs DEF To, Proc

LEMMA RecordSafe ==
  ASSUME Inv, NEW p, NEW q, p \in Proc, RecordRead(p, q) \/ RecordWrite(p, q),
         Process(p, plane, commits, Tree, head, attached),
         plane = None => attached = {} \/ p.pc = "create"
  PROVE  /\ Safe(q) /\ p.pc \in {"record", "recordWrite"} /\ Good(plane', Tree) /\ head # 0
         /\ \/ q = Off
            \/ /\ q.pc = "recordWrite"
               /\ q.head = p.head /\ q.now = p.now /\ q.then = p.then
            \/ p.then = "fold" /\ q = MovedOn(p)
            \/ /\ p.then # "fold" /\ q.pc = "note"
               /\ q.head = p.head /\ q.then = p.then
<1>0. /\ p.pc \in {"record", "recordWrite"} /\ UNCHANGED <<planes, attached>>
      /\ Good(plane, Tree) /\ head # 0
      /\ planes \in Nat /\ head \in Nat
      /\ (plane # None => plane \in Plane /\ plane.props \in Props)
  BY DEF RecordRead, RecordWrite, Process, Inv, Types, Optional, Plane
<1>1. ASSUME q = IF p.then = "fold" THEN MovedOn(p) ELSE Off, UNCHANGED plane
      PROVE  Safe(q)
  <2>1. q \in Proc /\ q.pc \in {"poll", "off"}
    BY <1>1, OffIs, MovedOnIs
  <2>2. Process(q, plane, commits, Tree, head, attached)
    BY <2>1, OffIsFine
  <2> QED
    BY <1>0, <1>1, <2>1, <2>2, PlaneLeft
<1>2. CASE RecordRead(p, q)
  <2>1. p.pc = "record" /\ UNCHANGED plane
    BY <1>2 DEF RecordRead
  <2>2. CASE plane = None
    BY <1>0, <1>1, <1>2, <2>1, <2>2 DEF RecordRead
  <2>3. CASE plane # None
    <3> DEFINE props == [plane.props EXCEPT !.commit = head]
    <3>1. q = [p EXCEPT !.pc = "recordWrite", !.id = plane.id, !.props = props]
      BY <1>2, <2>3 DEF RecordRead
    <3>2. props \in Props
      BY <1>0, <2>3 DEF Props, Optional
    <3>3. plane.id \in Nat
      BY <1>0, <2>3 DEF Plane
    <3>4. /\ q \in Proc /\ q.pc = "recordWrite" /\ q.head = p.head /\ q.now = p.now
          /\ q.then = p.then /\ q.props = props
      <4> HIDE DEF props
      <4> QED
        BY <3>1, <3>2, <3>3 DEF Proc, Pcs
    <3>5. Process(q, plane, commits, Tree, head, attached)
      BY <1>0, <2>3, <3>4 DEF Process, Routed, Filled
    <3> QED
      BY <1>0, <2>1, <2>3, <3>4, <3>5, PlaneLeft
  <2> QED
    BY <2>2, <2>3
<1>3. CASE RecordWrite(p, q)
  <2>1. /\ p.pc = "recordWrite" /\ plane # None
        /\ p.props = [plane.props EXCEPT !.commit = head]
    BY <1>3 DEF RecordWrite, Process
  <2>2. CASE plane.id # p.id
    BY <1>0, <1>1, <1>3, <2>2, <2>1 DEF RecordWrite
  <2>3. CASE plane.id = p.id
    <3>1. plane' = [plane EXCEPT !.props = p.props] /\ q = Recorded(p)
      BY <1>3, <2>1, <2>3 DEF RecordWrite
    <3>2. /\ p.props \in Props /\ p.props.marker = plane.props.marker
          /\ p.props.att = plane.props.att /\ p.props.builtBy = plane.props.builtBy
          /\ p.props.commit = head
      BY <1>0, <2>1 DEF Props, Proc
    <3>3. /\ plane' \in Plane /\ plane' # None
          /\ Honest(plane') /\ Named(plane', commits, Tree) /\ Kept(plane', attached)
          /\ Good(plane', Tree) /\ CommitIn(plane'.props, commits)
      BY <1>0, <2>1, <3>1, <3>2, PropsWritten
    <3>4. /\ q \in Proc /\ q.pc \in {"poll", "note"}
          /\ IF p.then = "fold" THEN q = MovedOn(p)
             ELSE q.pc = "note" /\ q.head = p.head /\ q.then = p.then
      BY <3>1, MovedOnIs DEF Recorded, Pcs
    <3>5. Process(q, plane', commits, Tree, head, attached)
      BY <3>3, <3>4 DEF Process, Routed, Filled
    <3> QED
      BY <1>0, <3>3, <3>4, <3>5 DEF Safe, Sound, Optional
  <2> QED
    BY <2>2, <2>3
<1> QED
  BY <1>2, <1>3

-------------------------------------------------------------------------------
(* The turn of the loop.                                                     *)

LEMMA TreeStays ==
  ASSUME UNCHANGED <<commits, head>>
  PROVE  Tree' = Tree
  BY DEF Tree, VersionOf

LEMMA LoopTurn ==
  ASSUME Inv, tool.pc = "off", UNCHANGED <<commits, head, plugins, tool>>, Sound(loop'),
         Looping(loop', plane', commits, Tree, head), loop'.head <= Len(commits)
  PROVE  Inv'
<1>1. Tree' = Tree /\ commits' = commits /\ head' = head /\ attached' = attached /\ tool' = tool
  BY TreeStays DEF Sound
<1>2. Types'
  BY <1>1 DEF Inv, Types, Sound
<1>3. Repository' /\ Turns' /\ Carried'
  BY <1>1 DEF Inv, Repository, Turns, Carried, Sound
<1>4. Process(tool, plane', commits, Tree, head, attached)
  BY OffIsFine
<1>5. /\ Honest(plane)' /\ Named(plane, commits, Tree)' /\ Kept(plane, attached)'
      /\ Process(loop, plane, commits, Tree, head, attached)'
      /\ Process(tool, plane, commits, Tree, head, attached)'
      /\ Looping(loop, plane, commits, Tree, head)'
  BY <1>1, <1>4 DEF Sound
<1> QED
  BY <1>2, <1>3, <1>5 DEF Inv

(* The loop goes to a place where it holds nothing, the plane being as it is.*)
LEMMA LoopGoes ==
  ASSUME Inv, tool.pc = "off", UNCHANGED <<commits, head, plugins, tool>>,
         UNCHANGED <<plane, planes, attached>>, loop.pc # "create", loop' \in Proc,
         Process(loop', plane, commits, Tree, head, attached),
         Looping(loop', plane, commits, Tree, head), loop'.head <= Len(commits)
  PROVE  Inv'
<1>1. plane = None => attached = {}
  BY DEF Inv, Carried
<1>2. Sound(loop')
  BY <1>1, PlaneLeft DEF Safe
<1> QED
  BY <1>2, LoopTurn

LEMMA LoopPlain ==
  ASSUME Inv, NoWindow, LoopMay
  PROVE  /\ tool.pc = "off" /\ loop \in Proc /\ loop.head <= Len(commits)
         /\ head \in Nat /\ head <= Len(commits) /\ Len(commits) \in Nat
         /\ plugins \in Nat /\ planes \in Nat
         /\ (plane # None => plane \in Plane /\ plane.props \in Props)
         /\ (plane = None => attached = {} \/ loop.pc = "create")
         /\ Process(loop, plane, commits, Tree, head, attached)
         /\ Looping(loop, plane, commits, Tree, head)
  BY DEF Inv, Types, Repository, NoWindow, LoopMay, Orderly, Carried, Optional, Plane

LEMMA OffLoops ==
  ASSUME NEW q, q.pc = "off", NEW pl
  PROVE  Looping(q, pl, commits, Tree, head)
  BY DEF Looping, Routed

LEMMA LoopResyncs ==
  ASSUME Inv, NoWindow, LoopMay, UNCHANGED <<commits, head, plugins, tool>>,
         Resync(loop, loop')
  PROVE  Inv'
<1>1. loop.pc \in Routed \cup {"route"}
  BY DEF Resync, RouteTree, DropPlane, CreatePlane, ApplyRebuild, RecordBuiltBy, ClearMarker,
         ReadProps, WriteProps, Routed
<1>2. loop.then # "fold" /\ loop.head = head /\ (head = 0 => loop.then = "unborn")
  BY <1>1, LoopPlain DEF Looping
<1>3. /\ Safe(loop')
      /\ \/ loop' = Off
         \/ /\ loop'.head = loop.head /\ loop'.then = loop.then
            /\ loop'.pc \in Routed \cup {"wait", "record"}
            /\ loop'.pc = "wait" => loop.then = "unborn"
  <2> DEFINE q == loop'
  <2>1. Resync(loop, q)
    OBVIOUS
  <2> HIDE DEF q
  <2>2. /\ Safe(q)
        /\ \/ q = Off
           \/ /\ q.head = loop.head /\ q.then = loop.then
              /\ q.pc \in Routed \cup {"wait", "record"}
              /\ q.pc = "wait" => loop.then = "unborn"
    BY <1>2, <2>1, LoopPlain, ResyncSafe
  <2> QED
    BY <2>2 DEF q
<1>4. loop'.head <= Len(commits)
  BY <1>2, <1>3, LoopPlain, OffIs
<1>5. CASE loop' = Off
  BY <1>3, <1>4, <1>5, LoopPlain, LoopTurn, OffIs, OffLoops DEF Safe
<1>6. CASE loop' # Off
  <2>1. Looping(loop', plane', commits, Tree, head)
    BY <1>2, <1>3, <1>6 DEF Looping, Routed
  <2> QED
    BY <1>3, <1>4, <2>1, LoopPlain, LoopTurn DEF Safe
<1> QED
  BY <1>5, <1>6

LEMMA LoopRecords ==
  ASSUME Inv, NoWindow, LoopMay, UNCHANGED <<commits, head, plugins, tool>>,
         RecordRead(loop, loop') \/ RecordWrite(loop, loop')
  PROVE  Inv'
<1> DEFINE Does(q) ==
      /\ Safe(q) /\ loop.pc \in {"record", "recordWrite"} /\ Good(plane', Tree) /\ head # 0
      /\ \/ q = Off
         \/ /\ q.pc = "recordWrite"
            /\ q.head = loop.head /\ q.now = loop.now /\ q.then = loop.then
         \/ loop.then = "fold" /\ q = MovedOn(loop)
         \/ /\ loop.then # "fold" /\ q.pc = "note"
            /\ q.head = loop.head /\ q.then = loop.then
<1>1. Does(loop')
  <2> DEFINE q == loop'
  <2>1. RecordRead(loop, q) \/ RecordWrite(loop, q)
    OBVIOUS
  <2> HIDE DEF q
  <2>2. Does(q)
    BY <2>1, LoopPlain, RecordSafe
  <2> QED
    BY <2>2 DEF q
<1>2. IF loop.then = "fold" THEN loop.now = head ELSE loop.head = head
  BY <1>1, LoopPlain DEF Looping
<1>3. loop'.head <= Len(commits)
  BY <1>1, <1>2, LoopPlain, OffIs, MovedOnIs
<1>4. Looping(loop', plane', commits, Tree, head)
  <2>1. CASE loop' = Off
    BY <2>1, OffIs, OffLoops
  <2>2. CASE loop'.pc = "recordWrite" /\ loop'.head = loop.head /\ loop'.now = loop.now
             /\ loop'.then = loop.then
    BY <1>2, <2>2 DEF Looping, Routed
  <2>3. CASE loop.then = "fold" /\ loop' = MovedOn(loop)
    <3>1. loop'.pc = "poll" /\ loop'.head = loop.now
      BY <2>3, LoopPlain, MovedOnIs
    <3> QED
      BY <1>1, <1>2, <2>3, <3>1 DEF Looping, Routed, Compared
  <2>4. CASE loop.then # "fold" /\ loop'.pc = "note" /\ loop'.head = loop.head
             /\ loop'.then = loop.then
    BY <1>1, <1>2, <2>4 DEF Looping, Routed, Compared
  <2> QED
    BY <1>1, <2>1, <2>2, <2>3, <2>4
<1> QED
  BY <1>1, <1>3, <1>4, LoopPlain, LoopTurn DEF Safe

(* A tick of the loop, up to the note that follows a fold.                   *)
LEMMA LoopTicks ==
  ASSUME Inv, NoWindow, LoopMay, UNCHANGED <<commits, head, plugins, tool>>,
         FirstCommit \/ Poll \/ FoldRoute \/ FoldFails
  PROVE  Inv'
<1>0. /\ UNCHANGED <<plane, planes, attached>> /\ loop.pc # "create"
      /\ Tree \in Nat /\ plugins \in Nat /\ head \in Nat /\ head <= Len(commits)
      /\ loop \in Proc /\ loop.now \in Nat
  BY LoopPlain, TreeIs DEF FirstCommit, Poll, FoldRoute, FoldFails, Inv, Proc
<1>1. CASE FirstCommit
  <2>1. head # 0 /\ loop' = [loop EXCEPT !.pc = "route", !.head = head, !.then = "first"]
    BY <1>1 DEF FirstCommit, Unborn
  <2>2. loop' \in Proc /\ loop'.pc = "route" /\ loop'.head = head /\ loop'.then = "first"
    BY <1>0, <2>1 DEF Proc, Pcs, Thens, Optional
  <2>3. /\ Process(loop', plane, commits, Tree, head, attached)
        /\ Looping(loop', plane, commits, Tree, head)
    BY <2>1, <2>2 DEF Process, Looping, Routed, Filled
  <2> QED
    BY <1>0, <2>2, <2>3, LoopPlain, LoopGoes
<1>2. CASE Poll
  <2> DEFINE pc == IF VersionOf(loop.head) = Tree THEN "record" ELSE "fold"
  <2>1. /\ loop.pc = "poll" /\ loop.head # head
        /\ loop' = [loop EXCEPT !.now = head, !.then = "fold", !.pc = pc]
    BY <1>2 DEF Poll
  <2>2. head # 0 /\ (pc = "record" => Good(plane, Tree)) /\ pc \in {"record", "fold"}
    BY <2>1, LoopPlain DEF Looping, Compared, VersionOf, Version
  <2> HIDE DEF pc
  <2>3. /\ loop' \in Proc /\ loop'.pc = pc /\ loop'.now = head /\ loop'.then = "fold"
        /\ loop'.head = loop.head
    BY <1>0, <2>1, <2>2 DEF Proc, Pcs, Thens, Optional
  <2>4. Process(loop', plane, commits, Tree, head, attached)
    BY <2>2, <2>3 DEF Process, Routed, Filled
  <2>5. Looping(loop', plane, commits, Tree, head)
    BY <2>2, <2>3 DEF Looping, Routed
  <2> QED
    BY <1>0, <2>3, <2>4, <2>5, LoopPlain, LoopGoes
<1>3. CASE FoldRoute
  <2>1. /\ loop.pc = "fold"
        /\ loop' = [loop EXCEPT !.pc = "foldApply", !.facts = Tree, !.with = plugins]
    BY <1>3 DEF FoldRoute
  <2>2. loop.now = head /\ loop.then = "fold" /\ head # 0
    BY <2>1, LoopPlain DEF Looping
  <2>3. /\ loop' \in Proc /\ loop'.pc = "foldApply" /\ loop'.now = head /\ loop'.then = "fold"
        /\ loop'.head = loop.head /\ loop'.facts = Tree
    BY <1>0, <2>1, <2>2 DEF Proc, Pcs, Optional
  <2>4. Process(loop', plane, commits, Tree, head, attached)
    BY <2>3 DEF Process, Routed, Filled
  <2>5. Looping(loop', plane, commits, Tree, head)
    BY <2>2, <2>3 DEF Looping, Routed
  <2> QED
    BY <1>0, <2>3, <2>4, <2>5, LoopPlain, LoopGoes
<1>4. CASE FoldFails
  <2>1. loop.pc \in {"fold", "foldApply"} /\ loop' = [MovedOn(loop) EXCEPT !.failed = TRUE]
    BY <1>4 DEF FoldFails
  <2>2. loop.now = head /\ head # 0
    BY <2>1, LoopPlain DEF Looping
  <2>3. loop' \in Proc /\ loop'.pc = "poll" /\ loop'.head = head
    BY <1>0, <2>1, <2>2, MovedOnIs DEF Proc
  <2>4. Process(loop', plane, commits, Tree, head, attached)
    BY <2>3, OffIsFine
  <2>5. Looping(loop', plane, commits, Tree, head)
    BY <2>2, <2>3 DEF Looping, Routed, Compared
  <2> QED
    BY <1>0, <2>3, <2>4, <2>5, LoopPlain, LoopGoes
<1> QED
  BY <1>1, <1>2, <1>3, <1>4

LEMMA LoopApplies ==
  ASSUME Inv, NoWindow, LoopMay, UNCHANGED <<commits, head, plugins, tool>>, FoldApply
  PROVE  Inv'
<1>1. /\ loop.pc = "foldApply" /\ plane # None /\ UNCHANGED <<planes, attached>>
      /\ plane' = [plane EXCEPT !.code = loop.facts]
      /\ loop' = [loop EXCEPT !.pc = "note", !.failed = FALSE]
  BY DEF FoldApply
<1>2. /\ loop.now = head /\ loop.then = "fold" /\ head # 0 /\ loop.facts = Tree
      /\ Tree \in Nat /\ Tree # None /\ plane \in Plane /\ planes \in Nat
      /\ loop \in Proc
  BY <1>1, LoopPlain, TreeIs DEF Looping, Inv
<1>3. /\ plane' \in Plane /\ plane'.props = plane.props /\ plane'.code = Tree
      /\ plane'.by = plane.by
  BY <1>1, <1>2 DEF Plane, Optional
<1>4. plane' # None
  BY <1>3, PlaneAssumption
<1>5. /\ loop' \in Proc /\ loop'.pc = "note" /\ loop'.now = head /\ loop'.then = "fold"
      /\ loop'.head = loop.head
  BY <1>1, <1>2 DEF Proc, Pcs
<1>6. Good(plane', Tree) /\ Honest(plane') /\ Kept(plane', attached)
  BY <1>1, <1>2, <1>3 DEF Inv, Good, Honest, Kept
<1>7. Named(plane', commits, Tree) /\ CommitIn(plane'.props, commits)
  BY <1>1, <1>3, <1>6 DEF Inv, Repository, Named
<1>8. Process(loop', plane', commits, Tree, head, attached)
  BY <1>5, <1>6 DEF Process, Routed, Filled
<1>9. Sound(loop')
  BY <1>1, <1>2, <1>3, <1>4, <1>5, <1>6, <1>7, <1>8 DEF Sound, Optional
<1>10. Looping(loop', plane', commits, Tree, head)
  BY <1>2, <1>5 DEF Looping, Routed
<1> QED
  BY <1>5, <1>9, <1>10, LoopPlain, LoopTurn

LEMMA AfterNoteIs ==
  ASSUME NEW p \in Proc
  PROVE  /\ AfterNote(p) \in Proc /\ AfterNote(p).head = p.head
         /\ AfterNote(p).now = p.now /\ AfterNote(p).then = "fold"
         /\ AfterNote(p).pc = IF p.then = "fold" THEN "record" ELSE "poll"
  BY DEF AfterNote, Proc, Pcs, Thens, Optional

(* Where the loop goes after a note, given a plane no worse than it was.     *)
LEMMA NotedGoesOn ==
  ASSUME Inv, NEW p \in Proc, NEW pl, loop.pc \in {"note", "noteWrite"},
         p.head = loop.head, p.now = loop.now, p.then = loop.then,
         Good(plane, Tree) => Good(pl, Tree)
  PROVE  /\ Process(AfterNote(p), pl, commits, Tree, head, attached)
         /\ Looping(AfterNote(p), pl, commits, Tree, head)
<1>1. /\ head # 0 /\ (loop.then = "fold" => Good(pl, Tree) /\ loop.now = head)
      /\ (loop.then # "fold" => Compared(loop, pl, commits, Tree, head))
  BY DEF Inv, Process, Looping, Compared
<1>2. CASE loop.then = "fold"
  BY <1>1, <1>2, AfterNoteIs DEF Process, Looping, Routed, Filled
<1>3. CASE loop.then # "fold"
  <2>1. AfterNote(p).pc = "poll" /\ AfterNote(p).head = loop.head
    BY <1>3, AfterNoteIs
  <2> QED
    BY <1>1, <1>3, <2>1, OffIsFine DEF Looping, Routed, Compared
<1> QED
  BY <1>2, <1>3

LEMMA DriftIs ==
  ASSUME NEW props \in Props, NEW installed
  PROVE  /\ Drifted(props, installed) \in Props
         /\ \E d \in BOOLEAN : Drifted(props, installed) = [props EXCEPT !.drift = d]
<1> DEFINE d == (props.builtBy # installed)
<1>1. d \in BOOLEAN
  OBVIOUS
<1>2. Drifted(props, installed) = [props EXCEPT !.drift = d]
  BY DEF Drifted
<1> HIDE DEF d
<1> QED
  BY <1>1, <1>2 DEF Props

LEMMA LoopNotes ==
  ASSUME Inv, NoWindow, LoopMay, UNCHANGED <<commits, head, plugins, tool>>, Note
  PROVE  Inv'
<1>0. /\ UNCHANGED <<planes, attached>> /\ loop.pc \in {"note", "noteWrite"} /\ loop \in Proc
      /\ (plane # None => plane \in Plane /\ plane.props \in Props /\ plane.id \in Nat)
      /\ planes \in Nat /\ plane \in Optional(Plane)
  BY LoopPlain DEF Note, Plane, Inv, Types
<1>1. CASE loop.pc = "note" /\ UNCHANGED plane
           /\ (plane = None \/ NothingToNote(plane.props, Installed))
  <2>1. loop' = AfterNote(loop)
    BY <1>1 DEF Note
  <2>2. /\ Process(loop', plane, commits, Tree, head, attached)
        /\ Looping(loop', plane, commits, Tree, head)
    BY <1>0, <2>1, NotedGoesOn
  <2>3. loop' \in Proc /\ loop'.head = loop.head
    BY <1>0, <2>1, AfterNoteIs
  <2> QED
    BY <1>0, <1>1, <2>2, <2>3, LoopPlain, LoopGoes
<1>2. CASE loop.pc = "note" /\ UNCHANGED plane
           /\ ~ (plane = None \/ NothingToNote(plane.props, Installed))
  <2> DEFINE props == Drifted(plane.props, Installed)
  <2>1. loop' = [loop EXCEPT !.pc = "noteWrite", !.id = plane.id, !.props = props]
    BY <1>2 DEF Note
  <2>2. props \in Props /\ \E d \in BOOLEAN : props = [plane.props EXCEPT !.drift = d]
    BY <1>0, <1>2, DriftIs
  <2> HIDE DEF props
  <2>3. /\ loop' \in Proc /\ loop'.pc = "noteWrite" /\ loop'.head = loop.head
        /\ loop'.now = loop.now /\ loop'.then = loop.then /\ loop'.props = props
    BY <1>0, <1>2, <2>1, <2>2 DEF Proc, Pcs
  <2>4. Process(loop', plane, commits, Tree, head, attached)
    BY <1>2, <2>2, <2>3, LoopPlain DEF Process, Routed, Filled
  <2>5. Looping(loop', plane, commits, Tree, head)
    BY <1>2, <2>3, LoopPlain DEF Looping, Routed, Compared
  <2> QED
    BY <1>0, <1>2, <2>3, <2>4, <2>5, LoopPlain, LoopGoes
<1>3. CASE loop.pc = "noteWrite"
  <2> DEFINE p == [loop EXCEPT !.props = NoProps, !.id = 0]
  <2>1. /\ loop' = AfterNote(p)
        /\ plane' = IF plane.id # loop.id THEN plane ELSE [plane EXCEPT !.props = loop.props]
        /\ plane # None
        /\ \E d \in BOOLEAN : loop.props = [plane.props EXCEPT !.drift = d]
    BY <1>3, LoopPlain DEF Note, Process
  <2>2. p \in Proc /\ p.head = loop.head /\ p.now = loop.now /\ p.then = loop.then
    BY <1>0, OffIs DEF Proc
  <2> HIDE DEF p
  <2>3. /\ plane' \in Plane /\ plane' # None
        /\ Honest(plane') /\ Named(plane', commits, Tree) /\ Kept(plane', attached)
        /\ (Good(plane, Tree) => Good(plane', Tree))
        /\ CommitIn(plane'.props, commits)
    <3>1. CASE plane.id # loop.id
      BY <1>0, <2>1, <3>1 DEF Inv, Repository
    <3>2. CASE plane.id = loop.id
      <4>1. /\ loop.props \in Props /\ loop.props.marker = plane.props.marker
            /\ loop.props.att = plane.props.att /\ loop.props.builtBy = plane.props.builtBy
            /\ loop.props.commit = plane.props.commit
        BY <1>0, <2>1 DEF Props, Proc
      <4> QED
        BY <2>1, <3>2, <4>1, PropsWritten
    <3> QED
      BY <3>1, <3>2
  <2>4. /\ Process(AfterNote(p), plane', commits, Tree, head, attached)
        /\ Looping(AfterNote(p), plane', commits, Tree, head)
    BY <1>0, <2>2, <2>3, NotedGoesOn
  <2>5. loop' \in Proc /\ loop'.head = loop.head
    BY <2>1, <2>2, AfterNoteIs
  <2>6. Sound(loop')
    BY <1>0, <2>1, <2>3, <2>4, <2>5 DEF Sound, Optional
  <2> QED
    BY <2>1, <2>4, <2>5, <2>6, LoopPlain, LoopTurn
<1> QED
  BY <1>0, <1>1, <1>2, <1>3 DEF Note

LEMMA LoopStarting ==
  ASSUME Inv, NoWindow, LoopMay, UNCHANGED <<commits, head, plugins, tool>>,
         CatchUp \/ \E force \in BOOLEAN : StartRebuild(force)
  PROVE  Inv'
<1>0. /\ loop.pc = "off" /\ UNCHANGED attached /\ head \in Nat /\ head <= Len(commits)
      /\ planes \in Nat /\ (plane = None => attached = {})
      /\ (plane # None => plane.props \in Props /\ CommitIn(plane.props, commits)
                          /\ Named(plane, commits, Tree))
  BY LoopPlain DEF CatchUp, StartRebuild, Inv, Repository
<1>1. ASSUME NEW force \in BOOLEAN, StartRebuild(force)
      PROVE  Inv'
  <2> DEFINE then == IF Unborn THEN "unborn" ELSE "force"
  <2>1. /\ UNCHANGED <<plane, planes>>
        /\ loop' = [Off EXCEPT !.pc = "route", !.head = head, !.then = then]
    BY <1>1 DEF StartRebuild
  <2>2. then \in {"unborn", "force"} /\ (head = 0 => then = "unborn")
    BY DEF Unborn
  <2> HIDE DEF then
  <2>3. loop' \in Proc /\ loop'.pc = "route" /\ loop'.head = head /\ loop'.then = then
    BY <1>0, <2>1, <2>2, OffIs DEF Proc, Pcs, Thens, Optional
  <2>4. Process(loop', plane, commits, Tree, head, attached)
    BY <2>3 DEF Process, Routed, Filled
  <2>5. Looping(loop', plane, commits, Tree, head)
    BY <2>2, <2>3 DEF Looping, Routed
  <2> QED
    BY <1>0, <2>1, <2>3, <2>4, <2>5, LoopPlain, LoopGoes
<1>2. CASE CatchUp
  <2> DEFINE at == IF plane = None THEN head
                   ELSE IF plane.props.commit = None THEN head ELSE plane.props.commit
  <2>1. head # 0 /\ loop' = [Off EXCEPT !.pc = "note", !.head = at]
    BY <1>2 DEF CatchUp, Unborn
  <2>2. /\ at \in Nat /\ at <= Len(commits)
        /\ plane = None \/ Compared([head |-> at], plane, commits, Tree, head)
        /\ plane = None => at = head
    BY <1>0, LoopPlain DEF CommitIn, Compared, Named
  <2> HIDE DEF at
  <2>3. /\ loop' \in Proc /\ loop'.pc = "note" /\ loop'.head = at /\ loop'.then = None
        /\ loop'.then # "fold"
    <3>1. None # "fold"
      BY WatchAssumption DEF Thens
    <3> QED
      BY <2>1, <2>2, <3>1, OffIs DEF Proc, Pcs
  <2>4. \A pl : Process(loop', pl, commits, Tree, head, attached)
    BY <2>3 DEF Process, Routed, Filled
  <2>5. CASE plane # None
    <3>1. UNCHANGED <<plane, planes>>
      BY <1>2, <2>5 DEF CatchUp
    <3>2. Looping(loop', plane, commits, Tree, head)
      BY <2>1, <2>2, <2>3, <2>5 DEF Looping, Routed, Compared
    <3> QED
      BY <1>0, <2>2, <2>3, <2>4, <3>1, <3>2, LoopPlain, LoopGoes
  <2>6. CASE plane = None
    <3>1. planes' = planes + 1 /\ plane' = NewPlane(planes + 1, NoProps)
      BY <1>2, <2>6 DEF CatchUp
    <3>2. /\ plane' \in Plane /\ plane'.props = NoProps /\ plane'.code = None
          /\ plane'.by = None /\ planes' \in Nat
      BY <1>0, <3>1, OffIs DEF NewPlane, Plane, Optional
    <3>3. plane' # None
      BY <3>2, PlaneAssumption
    <3>4. /\ Honest(plane') /\ Named(plane', commits, Tree) /\ Kept(plane', attached)
          /\ CommitIn(plane'.props, commits)
      BY <1>0, <2>6, <3>2, OffIs DEF Honest, Named, Kept, CommitIn
    <3>5. Looping(loop', plane', commits, Tree, head)
      BY <2>1, <2>2, <2>3, <2>6 DEF Looping, Routed, Compared
    <3>6. Sound(loop')
      BY <1>0, <2>3, <2>4, <3>2, <3>3, <3>4 DEF Sound, Optional
    <3> QED
      BY <2>2, <2>3, <3>5, <3>6, LoopPlain, LoopTurn
  <2> QED
    BY <2>5, <2>6
<1> QED
  BY <1>1, <1>2

-------------------------------------------------------------------------------
(* The turn of the tool.                                                     *)

LEMMA ToolTurn ==
  ASSUME Inv, UNCHANGED <<commits, head, plugins, loop>>, Safe(tool'),
         loop.pc \in {"off", "poll"}, tool'.pc \notin {"wait", "poll", "fold", "foldApply"},
         tool'.pc # "off" => tool'.then = "tool" /\ head # 0
  PROVE  Inv'
<1>1. Tree' = Tree /\ commits' = commits /\ head' = head /\ attached' = attached /\ loop' = loop
  BY TreeStays DEF Safe, Sound
<1>2. Types'
  BY <1>1 DEF Inv, Types, Safe, Sound
<1>3. Repository' /\ Turns' /\ Carried'
  BY <1>1 DEF Inv, Repository, Turns, Carried, Safe, Sound
<1>4. Process(loop, plane', commits, Tree, head, attached)
  BY OffIsFine
<1>5. Looping(loop, plane', commits, Tree, head)
  BY DEF Inv, Looping, Compared, Routed, Safe
<1>6. /\ Honest(plane)' /\ Named(plane, commits, Tree)' /\ Kept(plane, attached)'
      /\ Process(loop, plane, commits, Tree, head, attached)'
      /\ Process(tool, plane, commits, Tree, head, attached)'
      /\ Looping(loop, plane, commits, Tree, head)'
  BY <1>1, <1>4, <1>5 DEF Safe, Sound
<1> QED
  BY <1>2, <1>3, <1>6 DEF Inv

LEMMA ToolPlain ==
  ASSUME Inv, tool.pc # "off"
  PROVE  /\ tool \in Proc /\ loop.pc \in {"off", "poll"} /\ head # 0 /\ tool.then = "tool"
         /\ planes \in Nat /\ (plane # None => plane \in Plane /\ plane.props \in Props)
         /\ (plane = None => attached = {} \/ tool.pc = "create")
         /\ Process(tool, plane, commits, Tree, head, attached)
  BY DEF Inv, Types, Turns, Carried, Optional, Plane

LEMMA ToolRebuilds ==
  ASSUME Inv, tool.pc # "off", UNCHANGED <<commits, head, plugins, loop>>,
         Resync(tool, tool')
  PROVE  Inv'
<1>1. /\ Safe(tool')
      /\ \/ tool' = Off
         \/ /\ tool'.then = "tool"
            /\ tool'.pc \in Routed \cup {"record"}
  <2> DEFINE q == tool'
  <2>1. Resync(tool, q)
    OBVIOUS
  <2> HIDE DEF q
  <2>2. /\ Safe(q)
        /\ \/ q = Off
           \/ /\ q.head = tool.head /\ q.then = tool.then
              /\ q.pc \in Routed \cup {"wait", "record"}
              /\ q.pc = "wait" => tool.then = "unborn"
    BY <2>1, ToolPlain, ResyncSafe
  <2> QED
    BY <2>2, ToolPlain DEF q
<1>2. CASE tool' = Off
  BY <1>1, <1>2, ToolPlain, ToolTurn, OffIs
<1>3. CASE tool' # Off
  BY <1>1, <1>3, ToolPlain, ToolTurn DEF Routed
<1> QED
  BY <1>2, <1>3

LEMMA ToolRecords ==
  ASSUME Inv, tool.pc # "off", UNCHANGED <<commits, head, plugins, loop>>,
         RecordRead(tool, tool') \/ RecordWrite(tool, tool')
  PROVE  Inv'
<1>1. /\ Safe(tool')
      /\ \/ tool' = Off
         \/ tool'.then = "tool" /\ tool'.pc \in {"recordWrite", "note"}
  <2> DEFINE q == tool'
  <2>1. RecordRead(tool, q) \/ RecordWrite(tool, q)
    OBVIOUS
  <2> HIDE DEF q
  <2>2. /\ Safe(q)
        /\ \/ q = Off
           \/ q.pc = "recordWrite" /\ q.then = tool.then
           \/ tool.then = "fold"
           \/ q.pc = "note" /\ q.then = tool.then
    BY <2>1, ToolPlain, RecordSafe
  <2> QED
    BY <2>2, ToolPlain DEF q
<1>2. CASE tool' = Off
  BY <1>1, <1>2, ToolPlain, ToolTurn, OffIs
<1>3. CASE tool' # Off
  BY <1>1, <1>3, ToolPlain, ToolTurn
<1> QED
  BY <1>2, <1>3

LEMMA ToolNotes ==
  ASSUME Inv, tool.pc # "off", UNCHANGED <<commits, head, plugins, loop>>, ToolNote
  PROVE  Inv'
<1>0. UNCHANGED <<planes, attached>> /\ tool.pc \in {"note", "noteWrite"}
  BY DEF ToolNote, WriteProps
<1>1. CASE tool' = Off /\ UNCHANGED plane
  <2>1. Process(tool', plane, commits, Tree, head, attached)
    BY <1>1, OffIs, OffIsFine
  <2>2. plane = None => attached = {}
    BY <1>0, ToolPlain
  <2>3. Safe(tool')
    BY <1>0, <1>1, <2>1, <2>2, OffIs, PlaneLeft
  <2> QED
    BY <1>1, <2>3, ToolPlain, ToolTurn, OffIs
<1>2. CASE tool.pc = "note" /\ ~ (plane = None \/ NothingToNote(plane.props, tool.with))
  <2> DEFINE props == Drifted(plane.props, tool.with)
  <2>1. /\ UNCHANGED plane
        /\ tool' = [tool EXCEPT !.pc = "noteWrite", !.id = plane.id, !.props = props]
    BY <1>2 DEF ToolNote, WriteProps
  <2>2. props \in Props /\ \E d \in BOOLEAN : props = [plane.props EXCEPT !.drift = d]
    BY <1>2, ToolPlain, DriftIs
  <2> HIDE DEF props
  <2>3. plane.id \in Nat
    BY <1>2, ToolPlain DEF Plane
  <2>4. /\ tool' \in Proc /\ tool'.pc = "noteWrite" /\ tool'.then = "tool"
        /\ tool'.props = props
    BY <2>1, <2>2, <2>3, ToolPlain DEF Proc, Pcs
  <2>5. Process(tool', plane, commits, Tree, head, attached)
    BY <1>2, <2>2, <2>4 DEF Process, Routed, Filled
  <2>6. Safe(tool')
    BY <1>0, <1>2, <2>1, <2>4, <2>5, PlaneLeft
  <2> QED
    BY <2>4, <2>6, ToolPlain, ToolTurn
<1>3. CASE /\ tool.pc = "noteWrite" /\ tool' = Off
           /\ plane' = [plane EXCEPT !.props = tool.props]
  <2>1. plane # None /\ \E d \in BOOLEAN : tool.props = [plane.props EXCEPT !.drift = d]
    BY <1>3, ToolPlain DEF Process
  <2>2. /\ tool.props \in Props /\ tool.props.marker = plane.props.marker
        /\ tool.props.att = plane.props.att /\ tool.props.builtBy = plane.props.builtBy
        /\ tool.props.commit = plane.props.commit
    BY <2>1, ToolPlain DEF Props, Proc
  <2>3. /\ plane' \in Plane /\ plane' # None
        /\ Honest(plane') /\ Named(plane', commits, Tree) /\ Kept(plane', attached)
        /\ (Good(plane, Tree) => Good(plane', Tree))
        /\ CommitIn(plane'.props, commits)
    BY <1>3, <2>1, <2>2, PropsWritten
  <2>4. Process(tool', plane', commits, Tree, head, attached)
    BY <1>3, OffIs, OffIsFine
  <2>5. Safe(tool')
    BY <1>0, <1>3, <2>3, <2>4, ToolPlain, OffIs DEF Safe, Sound, Optional
  <2> QED
    BY <1>3, <2>5, ToolPlain, ToolTurn, OffIs
<1> QED
  BY <1>1, <1>2, <1>3 DEF ToolNote, WriteProps, GivesUp

LEMMA ToolStarting ==
  ASSUME Inv, NoWindow, ToolStarts
  PROVE  Inv'
<1>1. /\ UNCHANGED <<commits, head, plugins, plane, planes, loop, attached>>
      /\ loop.pc \in {"off", "poll"} /\ plane # None /\ plane.props.commit # None
      /\ tool' = [Off EXCEPT !.pc = "route", !.then = "tool"]
  BY DEF ToolStarts, NoWindow, Orderly
<1>2. tool' \in Proc /\ tool'.pc = "route" /\ tool'.then = "tool"
  BY <1>1, OffIs DEF Proc, Pcs, Thens, Optional
<1>3. head # 0
  <2>1. plane.props.commit \in 1..Len(commits)
    BY <1>1 DEF Inv, Repository, CommitIn
  <2>2. head = 0 => Len(commits) = 0
    BY DEF Inv, Repository
  <2> QED
    BY <2>1, <2>2
<1>4. Process(tool', plane, commits, Tree, head, attached)
  BY <1>2 DEF Process, Routed, Filled
<1>5. Safe(tool')
  BY <1>1, <1>2, <1>4, PlaneLeft
<1> QED
  BY <1>1, <1>2, <1>3, <1>5, ToolTurn

-------------------------------------------------------------------------------
(* The world outside.                                                        *)

LEMMA Committing ==
  ASSUME Inv, NoWindow, NEW v \in {Tree, Len(commits) + 1}, Commit(v)
  PROVE  Inv'
<1>1. /\ commits' = Append(commits, v) /\ head' = Len(commits) + 1
      /\ UNCHANGED <<plugins, plane, planes, loop, tool, attached>>
      /\ loop.pc \in {"off", "poll", "wait"} /\ tool.pc = "off"
      /\ (v = Tree /\ head # 0 => plane # None /\ plane.code = Tree)
  BY DEF Commit, NoWindow, Orderly, Parsing, Inv, Turns, Unborn, Current
<1>2. /\ commits \in Seq(Nat) /\ Len(commits) \in Nat /\ Tree \in Nat /\ head \in Nat
      /\ head <= Len(commits) /\ (head = 0 => commits = <<>>)
      /\ loop.head <= Len(commits) /\ loop.head \in Nat
      /\ (plane # None => CommitIn(plane.props, commits))
      /\ \A c \in 1..Len(commits) : commits[c] \in Nat /\ commits[c] <= c
  <2>1. Types /\ Repository
    BY DEF Inv
  <2>2. loop.head \in Nat /\ commits \in Seq(Nat) /\ head \in Nat
    BY <2>1 DEF Types, Proc
  <2>3. \A c \in 1..Len(commits) : commits[c] \in Nat /\ commits[c] <= c
    BY <2>1, <2>2 DEF Repository
  <2> QED
    BY <2>1, <2>2, <2>3, TreeIs DEF Repository
<1>3. Tree <= Len(commits)
  BY <1>2 DEF Tree, VersionOf
<1>4. /\ v \in Nat /\ v <= Len(commits) + 1 /\ commits' \in Seq(Nat)
      /\ Len(commits') = Len(commits) + 1 /\ commits'[Len(commits) + 1] = v
      /\ \A c \in 1..Len(commits) : commits'[c] = commits[c]
  BY <1>1, <1>2, <1>3
<1>5. Tree' = v /\ head' # 0
  BY <1>1, <1>2, <1>4 DEF Tree, VersionOf
<1>6. Types'
  BY <1>1, <1>2, <1>4 DEF Inv, Types
<1>7. Repository'
  <2>1. ASSUME NEW c \in 1..Len(commits')
        PROVE  commits'[c] <= c
    <3>1. c \in 1..Len(commits) \/ c = Len(commits) + 1
      BY <1>2, <1>4
    <3>2. CASE c \in 1..Len(commits)
      <4>1. commits'[c] = commits[c] /\ commits[c] <= c
        BY <1>2, <1>4, <3>2
      <4> QED
        BY <4>1
    <3>3. CASE c = Len(commits) + 1
      BY <1>4, <3>3
    <3> QED
      BY <3>1, <3>2, <3>3
  <2>2. head' <= Len(commits') /\ loop'.head <= Len(commits')
    BY <1>1, <1>2, <1>4
  <2>3. plane # None => CommitIn(plane.props, commits')
    BY <1>2, <1>4 DEF CommitIn
  <2> QED
    BY <1>1, <1>5, <2>1, <2>2, <2>3 DEF Repository
<1>8. \A c \in 1..Len(commits) : commits[c] = v => Good(plane, v)
  <2>1. ASSUME NEW c \in 1..Len(commits), commits[c] = v
        PROVE  Good(plane, v)
    <3>1. v = Tree
      BY <1>2, <2>1
    <3>2. head # 0
      BY <1>2, <2>1
    <3> QED
      BY <1>1, <3>1, <3>2 DEF Good
  <2> QED
    BY <2>1
<1>9. Named(plane, commits', v)
  <2> SUFFICES ASSUME plane # None, plane.props.commit # None,
                      Version(commits', plane.props.commit) = v
               PROVE  Good(plane, v)
    BY DEF Named
  <2>1. plane.props.commit \in 1..Len(commits) /\ plane.props.commit # 0
    BY <1>2 DEF CommitIn
  <2>2. commits[plane.props.commit] = v
    BY <1>4, <2>1 DEF Version
  <2> QED
    BY <1>8, <2>1, <2>2
<1>10. Looping(loop, plane, commits', v, head')
  <2>1. CASE loop.pc = "poll"
    <3>1. head # 0
      BY <2>1 DEF Inv, Looping
    <3>2. CASE loop.head = 0
      <4>1. v = 0 => v = Tree
        BY <1>2
      <4> QED
        BY <1>1, <1>5, <2>1, <3>1, <3>2, <4>1 DEF Looping, Compared, Version, Good, Routed
    <3>3. CASE loop.head # 0
      <4>1. loop.head \in 1..Len(commits)
        BY <1>2, <3>3
      <4>2. Version(commits', loop.head) # v \/ Good(plane, v)
        BY <1>4, <1>8, <3>3, <4>1 DEF Version
      <4> QED
        BY <1>5, <2>1, <4>2 DEF Looping, Compared, Routed
    <3> QED
      BY <3>2, <3>3
  <2>2. CASE loop.pc # "poll"
    BY <1>1, <2>2 DEF Looping, Routed
  <2> QED
    BY <2>1, <2>2
<1>11. /\ Process(loop, plane, commits', v, head', attached)
       /\ Process(tool, plane, commits', v, head', attached)
  BY <1>1, OffIsFine
<1>12. Turns' /\ Carried' /\ Honest(plane)' /\ Kept(plane, attached)'
  BY <1>1 DEF Inv, Turns, Carried
<1>13. /\ Named(plane, commits, Tree)'
       /\ Process(loop, plane, commits, Tree, head, attached)'
       /\ Process(tool, plane, commits, Tree, head, attached)'
       /\ Looping(loop, plane, commits, Tree, head)'
  BY <1>1, <1>5, <1>9, <1>10, <1>11
<1> QED
  BY <1>6, <1>7, <1>12, <1>13 DEF Inv

LEMMA CheckingOut ==
  ASSUME Inv, NoWindow, NEW c \in 1..Len(commits), Checkout(c)
  PROVE  Inv'
<1>1. /\ head' = c /\ UNCHANGED <<commits, plugins, plane, planes, loop, tool, attached>>
      /\ loop.pc = "poll" /\ loop.head = head /\ tool.pc = "off"
      /\ plane # None /\ plane.code = Tree /\ plane.props.commit = head
  BY DEF Checkout, NoWindow, Orderly, Settled, Current
<1>2. commits \in Seq(Nat) /\ Len(commits) \in Nat /\ Tree = Version(commits, head)
  BY TreeIs DEF Inv, Types
<1>3. c \in Nat /\ c # 0 /\ c <= Len(commits)
  BY <1>2
<1>4. Tree' = commits[c]
  BY <1>1, <1>3 DEF Tree, VersionOf
<1>5. Named(plane, commits, commits[c])
  BY <1>1, <1>2 DEF Named, Good
<1>6. Looping(loop, plane, commits, commits[c], c)
  BY <1>1, <1>2, <1>3 DEF Looping, Compared, Good, Routed
<1>7. /\ Process(loop, plane, commits, commits[c], c, attached)
      /\ Process(tool, plane, commits, commits[c], c, attached)
  BY <1>1, OffIsFine
<1>8. Types' /\ Repository' /\ Turns' /\ Carried' /\ Honest(plane)' /\ Kept(plane, attached)'
  BY <1>1, <1>3 DEF Inv, Types, Repository, Turns, Carried
<1>9. /\ Named(plane, commits, Tree)'
      /\ Process(loop, plane, commits, Tree, head, attached)'
      /\ Process(tool, plane, commits, Tree, head, attached)'
      /\ Looping(loop, plane, commits, Tree, head)'
  BY <1>1, <1>4, <1>5, <1>6, <1>7
<1> QED
  BY <1>8, <1>9 DEF Inv

LEMMA Installing ==
  ASSUME Inv, InstallPlugin
  PROVE  Inv'
<1>1. /\ UNCHANGED <<commits, head, plane, planes, loop, tool, attached>>
      /\ plugins' \in Nat
  BY DEF InstallPlugin, Inv, Types
<1>2. Tree' = Tree
  BY <1>1, TreeStays
<1>3. Types' /\ Repository' /\ Turns' /\ Carried'
  BY <1>1 DEF Inv, Types, Repository, Turns, Carried
<1> QED
  BY <1>1, <1>2, <1>3 DEF Inv

LEMMA AttachLeaves ==
  ASSUME NEW p, NEW pl, NEW pm, NEW t, NEW h, NEW at, NEW as, NEW cs,
         Process(p, pl, cs, t, h, at), ~ Holding(p),
         pl # None, pm # None, pm.code = pl.code, pm.by = pl.by,
         pm.props.marker = pl.props.marker, pm.props.builtBy = pl.props.builtBy
  PROVE  Process(p, pm, cs, t, h, as)
  BY DEF Process, Holding, Good, Routed, Filled

LEMMA Attaching ==
  ASSUME Inv, NoWindow, NEW a \in Attachments, Attach(a)
  PROVE  Inv'
<1>1. /\ plane # None /\ ~ Holding(loop) /\ ~ Holding(tool)
      /\ plane' = [plane EXCEPT !.props.att = @ \cup {a}] /\ attached' = attached \cup {a}
      /\ UNCHANGED <<commits, head, plugins, planes, loop, tool>>
  BY DEF Attach, NoWindow, Orderly
<1>2. Tree' = Tree
  BY <1>1, TreeStays
<1>3. plane \in Plane /\ attached \subseteq Attachments
  BY <1>1 DEF Inv, Types, Optional
<1>4. /\ plane' \in Plane /\ plane'.code = plane.code /\ plane'.by = plane.by
      /\ plane'.props.marker = plane.props.marker
      /\ plane'.props.builtBy = plane.props.builtBy
      /\ plane'.props.commit = plane.props.commit
      /\ plane'.props.att = plane.props.att \cup {a}
  BY <1>1, <1>3 DEF Plane, Props
<1>5. plane' # None
  BY <1>4, PlaneAssumption
<1>6. /\ Process(loop, plane', commits, Tree, head, attached')
      /\ Process(tool, plane', commits, Tree, head, attached')
  BY <1>1, <1>4, <1>5, AttachLeaves DEF Inv
<1>7. Good(plane', Tree) <=> Good(plane, Tree)
  BY <1>1, <1>4, <1>5 DEF Good
<1>8. Looping(loop, plane', commits, Tree, head)
  BY <1>7 DEF Inv, Looping, Compared
<1>9. Honest(plane') /\ Named(plane', commits, Tree) /\ Kept(plane', attached')
  BY <1>1, <1>4, <1>5, <1>7 DEF Inv, Honest, Named, Kept
<1>10. Types' /\ Repository' /\ Turns' /\ Carried'
  BY <1>1, <1>3, <1>4, <1>5 DEF Inv, Types, Repository, Turns, Carried, CommitIn, Optional
<1>11. /\ Honest(plane)' /\ Named(plane, commits, Tree)' /\ Kept(plane, attached)'
       /\ Process(loop, plane, commits, Tree, head, attached)'
       /\ Process(tool, plane, commits, Tree, head, attached)'
       /\ Looping(loop, plane, commits, Tree, head)'
  BY <1>1, <1>2, <1>6, <1>8, <1>9
<1> QED
  BY <1>10, <1>11 DEF Inv

LEMMA Crashing ==
  ASSUME Inv, Crash
  PROVE  Inv'
<1>1. /\ loop' = Off /\ tool' = Off /\ attached' = IF plane = None THEN {} ELSE attached
      /\ UNCHANGED <<commits, head, plugins, plane, planes>>
  BY DEF Crash
<1>2. Tree' = Tree
  BY <1>1, TreeStays
<1>3. \A at : Process(Off, plane, commits, Tree, head, at)
  BY OffIs, OffIsFine
<1>4. Looping(Off, plane, commits, Tree, head)
  BY OffIs, OffLoops
<1>5. Types' /\ Repository' /\ Turns' /\ Carried'
  BY <1>1, OffIs DEF Inv, Types, Repository, Turns, Carried
<1>6. Kept(plane, attached')
  BY <1>1 DEF Inv, Kept
<1>7. /\ Honest(plane)' /\ Named(plane, commits, Tree)' /\ Kept(plane, attached)'
      /\ Process(loop, plane, commits, Tree, head, attached)'
      /\ Process(tool, plane, commits, Tree, head, attached)'
      /\ Looping(loop, plane, commits, Tree, head)'
  BY <1>1, <1>2, <1>3, <1>4, <1>6 DEF Inv
<1> QED
  BY <1>5, <1>7 DEF Inv

-------------------------------------------------------------------------------
LEMMA InitInv == Init => Inv
<1> SUFFICES ASSUME Init PROVE Inv
  OBVIOUS
<1>1. /\ commits = <<>> /\ head = 0 /\ plugins = 1 /\ plane = None /\ planes = 0
      /\ loop = Off /\ tool = Off /\ attached = {} /\ Tree = 0
  BY DEF Init, Tree, VersionOf
<1>2. Types /\ Repository /\ Turns /\ Carried
  BY <1>1, OffIs DEF Types, Repository, Turns, Carried, Optional
<1>3. Honest(plane) /\ Named(plane, commits, Tree) /\ Kept(plane, attached)
  BY <1>1 DEF Honest, Named, Kept
<1>4. /\ Process(loop, plane, commits, Tree, head, attached)
      /\ Process(tool, plane, commits, Tree, head, attached)
      /\ Looping(loop, plane, commits, Tree, head)
  BY <1>1, OffIs, OffIsFine, OffLoops
<1> QED
  BY <1>2, <1>3, <1>4 DEF Inv

LEMMA StepInv ==
  ASSUME NoWindow, Inv, [Next]_vars
  PROVE  Inv'
<1>1. CASE World
  BY <1>1, Committing, CheckingOut, Installing, Attaching, Crashing DEF World
<1>2. CASE Loop
  BY <1>2, LoopResyncs, LoopRecords, LoopTicks, LoopApplies, LoopNotes DEF Loop
<1>3. CASE LoopStarts
  BY <1>3, LoopStarting DEF LoopStarts
<1>4. CASE LoopFails
  BY <1>4, LoopTicks DEF LoopFails
<1>5. CASE ToolStarts
  BY <1>5, ToolStarting
<1>6. CASE Tool
  BY <1>6, ToolRebuilds, ToolRecords, ToolNotes DEF Tool
<1>7. CASE UNCHANGED vars
  <2>1. /\ UNCHANGED <<commits, head, plugins, plane, planes, loop, tool, attached>>
    BY <1>7 DEF vars
  <2>2. Tree' = Tree
    BY <2>1, TreeStays
  <2>3. Types' /\ Repository' /\ Turns' /\ Carried'
    BY <2>1 DEF Inv, Types, Repository, Turns, Carried
  <2> QED
    BY <2>1, <2>2, <2>3 DEF Inv
<1> QED
  BY <1>1, <1>2, <1>3, <1>4, <1>5, <1>6, <1>7 DEF Next

LEMMA AlwaysInv ==
  ASSUME NoWindow
  PROVE  Spec => []Inv
<1>1. Inv /\ [Next]_vars => Inv'
  BY StepInv
<1> QED
  BY <1>1, InitInv, PTL DEF Spec

(* Whatever fails and whoever dies at whatever step of a rebuild, a plane    *)
(* that bears no mark of one (REBUILDING_PROP) and names a commit has been   *)
(* filled, and says which plugins filled it: record_built_by comes before    *)
(* the mark is taken off, and nobody writes properties over others' later    *)
(* ones.                                                                     *)
THEOREM MarkTellsTheTruth ==
  ASSUME NoWindow
  PROVE  Spec => []MarkerHonest
<1>1. Inv => MarkerHonest
  BY DEF Inv, Honest, MarkerHonest
<1> QED
  BY <1>1, AlwaysInv, PTL

(* What was attached to a plane stays attached through every rebuild, fold   *)
(* and record of the sync point: resync carries the properties over the drop *)
(* of the plane.                                                             *)
THEOREM RebuildsKeepAttachments ==
  ASSUME NoWindow
  PROVE  Spec => []AttachmentsKept
<1>1. Inv => AttachmentsKept
  BY DEF Inv, Kept, AttachmentsKept
<1> QED
  BY <1>1, AlwaysInv, PTL

(* A start of serve watch that finds HEAD recorded finds the facts of HEAD   *)
(* in the plane, or the mark: record_sync_point never names a commit whose   *)
(* fold failed or was never made.                                            *)
THEOREM RecordedIsInSync ==
  ASSUME NoWindow
  PROVE  Spec => []InSync
<1>1. Inv => InSync
  <2> SUFFICES ASSUME Inv, plane # None, ~ Unborn, plane.props.commit = head
               PROVE  Current \/ plane.props.marker
    BY DEF InSync
  <2>1. Tree = Version(commits, head) /\ head \in Nat /\ head # None
    BY TreeIs, WatchAssumption DEF Inv, Types
  <2> QED
    BY <2>1 DEF Inv, Named, Good, Current
<1> QED
  BY <1>1, AlwaysInv, PTL
===============================================================================
