-------------------------------- MODULE Holon --------------------------------
(***************************************************************************)
(* Holons (crates/holos-holon): a tick applies a delta to a holon's scene, *)
(* runs the boundary's rules, validates the result against the boundary,   *)
(* appends an event and moves the version on, all in one commit scope; a   *)
(* branch copies a holon.                                                  *)
(*                                                                         *)
(* The store is used through its promise, AbstractStore: what the open     *)
(* scope has written so far, and what is there if it does not commit.  The *)
(* rules keep a copy of one holon's scene, the bridge                      *)
(* (crates/holos-shacl/src/engine.rs), which is told of each tick's delta  *)
(* before anyone knows whether the delta will be kept.                     *)
(***************************************************************************)
EXTENDS Integers, Sequences, FiniteSets, FiniteSetsExt

CONSTANTS
    HolonId,       \* the holons
    Ruled,         \* the one whose rules are kept across ticks
    Triple,        \* what scenes hold
    Shape,         \* the shapes of the boundary
    Reads,         \* the triples each shape looks at
    Violated,      \* the shapes each set of triples violates
    Closure,       \* what the rules make of each set of triples
    MaxVersion,    \* bound: no tick starts at this version
    MaxEvents,     \* bound: no tick starts when the logs have this many events
    MaxDelta,      \* bound: a delta has at most this many triples
    TicksMayFail,  \* the store may refuse the commit of a tick
    Joins          \* a tick may run in a scope its caller opened

ASSUME HolonAssumption == Ruled \in HolonId

ASSUME RuleAssumption ==
    /\ Closure \in [SUBSET Triple -> SUBSET Triple]
    /\ \A S \in SUBSET Triple : S \subseteq Closure[S]

\* A shape judges nothing but the triples it reads.
ASSUME ShapeAssumption ==
    /\ Reads \in [Shape -> SUBSET Triple]
    /\ Violated \in [SUBSET Triple -> SUBSET Shape]
    /\ \A S, T \in SUBSET Triple : \A sh \in Shape :
          S \cap Reads[sh] = T \cap Reads[sh] => (sh \in Violated[S] <=> sh \in Violated[T])

ASSUME SwitchAssumption == {TicksMayFail, Joins} \subseteq BOOLEAN

VARIABLES
    holons,            \* what a read sees: scenes, events, version rows, the registry
    at_begin,          \* what there was when the open scope began
    scope_open,        \* a commit scope is open
    bridged,           \* EngineRun::bridged, the copy of Ruled's scene
    since_checkpoint,  \* EngineRun::pending: the changes since the checkpoint
    checkpointed,      \* EngineRun::pending is Some
    failed,            \* a tick that joined the open scope has failed
    lost,              \* auxiliary: the store lost a tick after the bridge had heard of it
    tick               \* the tick under way

holon_vars == <<holons, at_begin, scope_open, bridged, since_checkpoint, checkpointed, failed, lost, tick>>

Change == [triple : Triple, added : BOOLEAN]

\* The ruled holon has been registered, and its rules prepared, and nothing else has happened.
NewStore ==
    [scene      |-> [h \in HolonId |-> {}],
     base       |-> [h \in HolonId |-> {}],
     events     |-> [h \in HolonId |-> {}],
     versions   |-> [h \in HolonId |-> {}],
     branched   |-> [h \in HolonId |-> 0],
     registered |-> {Ruled},
     rejects    |-> {Ruled}]

\* No tick is under way.
Idle == [pc |-> "idle", holon |-> Ruled, owned |-> FALSE, rules |-> FALSE, version |-> 0,
         adding |-> {}, removing |-> {}, inferred |-> {}, applied |-> <<>>,
         missed |-> {}, admitted |-> FALSE, ok |-> FALSE]

-----------------------------------------------------------------------------
(* Pure parts                                                              *)

\* The row of the lowest object is the one a scan gives first, and 0 is also "no row".
version(st, h) == IF st.versions[h] = {} THEN 0 ELSE Min(st.versions[h])

\* A new version row beside the old one.
M_set_version_keeps_old(st, h, v) == [st EXCEPT !.versions[h] = @ \cup {v}]

\* Remove the old row, unless it says 0, and insert the new one.
set_version(st, h, v) ==
    LET previous == version(st, h)
    IN  [st EXCEPT !.versions[h] = (IF previous = 0 THEN @ ELSE @ \ {previous}) \cup {v}]

\* The changes of a delta reduced to one per row, the last one winning.
LastChange(changes, x) ==
    LET at == {i \in DOMAIN changes : changes[i].triple = x}
    IN  changes[Max(at)].added

Net(graph, changes) ==
    LET touched == {changes[i].triple : i \in DOMAIN changes}
    IN  (graph \ touched) \cup {x \in touched : LastChange(changes, x)}

\* The changes that take a sequence of changes back.
InverseOf(changes) ==
    [i \in DOMAIN changes |->
        [triple |-> changes[Len(changes) + 1 - i].triple,
         added  |-> ~changes[Len(changes) + 1 - i].added]]

\* The shapes an incremental revalidation must look at again.
Implicated(changes) ==
    {sh \in Shape : \E i \in DOMAIN changes : changes[i].triple \in Reads[sh]}

-----------------------------------------------------------------------------
(* A tick                                                                  *)

Here == tick.holon
Scene == holons.scene[Here]

\* begin_commit: the tick opens a scope unless its caller has.
begin_commit(holon, rules, adding, removing) ==
    /\ tick.pc = "idle"
    /\ ~failed
    /\ holon \in holons.registered
    /\ holon = Ruled => rules
    /\ version(holons, holon) < MaxVersion
    /\ MapThenSumSet(LAMBDA h : Cardinality(holons.events[h]), HolonId) < MaxEvents
    /\ scope_open' = TRUE
    /\ at_begin' = IF scope_open THEN at_begin ELSE holons
    /\ tick' = [Idle EXCEPT !.pc = "apply", !.holon = holon, !.rules = rules,
                            !.owned = ~scope_open,
                            !.version = version(holons, holon) + 1,
                            !.adding = adding, !.removing = removing]
    /\ UNCHANGED <<holons, bridged, since_checkpoint, checkpointed, failed, lost>>

\* One triple of the delta.  Only what changed the scene is remembered.
Applied(x, added) ==
    IF (x \in Scene) = added THEN tick.applied
    ELSE Append(tick.applied, [triple |-> x, added |-> added])

ApplyAdd(x) ==
    /\ tick.pc = "apply"
    /\ x \in tick.adding
    /\ holons' = [holons EXCEPT !.scene[Here] = @ \cup {x}]
    /\ tick' = [tick EXCEPT !.adding = @ \ {x}, !.applied = Applied(x, TRUE)]
    /\ UNCHANGED <<at_begin, scope_open, bridged, since_checkpoint, checkpointed, failed, lost>>

ApplyRemove(x) ==
    /\ tick.pc = "apply"
    /\ tick.adding = {}
    /\ x \in tick.removing
    /\ holons' = [holons EXCEPT !.scene[Here] = @ \ {x}]
    /\ tick' = [tick EXCEPT !.removing = @ \ {x}, !.applied = Applied(x, FALSE)]
    /\ UNCHANGED <<at_begin, scope_open, bridged, since_checkpoint, checkpointed, failed, lost>>

AllApplied == tick.pc = "apply" /\ tick.adding = {} /\ tick.removing = {}

SkipRules ==
    /\ AllApplied
    /\ ~tick.rules
    /\ tick' = [tick EXCEPT !.pc = "validate"]
    /\ UNCHANGED <<holons, at_begin, scope_open, bridged, since_checkpoint, checkpointed, failed, lost>>

\* Rules kept for another holon: the tick fails before the bridge is told anything.
WrongRules ==
    /\ AllApplied
    /\ tick.rules
    /\ Here # Ruled
    /\ tick' = [tick EXCEPT !.pc = "end"]
    /\ UNCHANGED <<holons, at_begin, scope_open, bridged, since_checkpoint, checkpointed, failed, lost>>

\* A bridge that is told of a delta without a checkpoint to come back to.
M_fire_no_checkpoint ==
    /\ AllApplied
    /\ tick.rules
    /\ Here = Ruled
    /\ bridged' = Net(bridged, tick.applied)
    /\ tick' = [tick EXCEPT !.pc = "infer", !.inferred = Closure[bridged'] \ bridged']
    /\ UNCHANGED <<holons, at_begin, scope_open, since_checkpoint, checkpointed, failed, lost>>

\* fire: checkpoint, apply, infer.  What the rules infer is not put in the bridge.
fire_rules ==
    /\ AllApplied
    /\ tick.rules
    /\ Here = Ruled
    /\ bridged' = Net(bridged, tick.applied)
    /\ since_checkpoint' = tick.applied
    /\ checkpointed' = TRUE
    /\ tick' = [tick EXCEPT !.pc = "infer", !.inferred = Closure[bridged'] \ bridged']
    /\ UNCHANGED <<holons, at_begin, scope_open, failed, lost>>

\* An inference written to the scene and left out of the event.
M_WriteInferred_unrecorded(x) ==
    /\ tick.pc = "infer"
    /\ x \in tick.inferred
    /\ holons' = [holons EXCEPT !.scene[Here] = @ \cup {x}]
    /\ tick' = [tick EXCEPT !.inferred = @ \ {x}]
    /\ UNCHANGED <<at_begin, scope_open, bridged, since_checkpoint, checkpointed, failed, lost>>

WriteInferred(x) ==
    /\ tick.pc = "infer"
    /\ x \in tick.inferred
    /\ holons' = [holons EXCEPT !.scene[Here] = @ \cup {x}]
    /\ tick' = [tick EXCEPT !.inferred = @ \ {x}, !.applied = Applied(x, TRUE)]
    /\ UNCHANGED <<at_begin, scope_open, bridged, since_checkpoint, checkpointed, failed, lost>>

AllInferred ==
    /\ tick.pc = "infer"
    /\ tick.inferred = {}
    /\ tick' = [tick EXCEPT !.pc = "validate"]
    /\ UNCHANGED <<holons, at_begin, scope_open, bridged, since_checkpoint, checkpointed, failed, lost>>

\* A refusal that leaves the scene as the delta made it.
M_validate_keeps ==
    /\ tick.pc = "validate"
    /\ \E found \in SUBSET Violated[Scene] :
          tick' = [tick EXCEPT !.pc = "record",
                               !.missed = IF found = {} THEN Violated[Scene] \cap Implicated(tick.applied)
                                          ELSE {},
                               !.admitted = (found = {} \/ Here \notin holons.rejects)]
    /\ UNCHANGED <<holons, at_begin, scope_open, bridged, since_checkpoint, checkpointed, failed, lost>>

\* Validate, and take the delta back if the boundary refuses it.  A revalidation reports
\* violations the scene has, and may overlook some, even of what the changes implicate.
validate ==
    /\ tick.pc = "validate"
    /\ \E found \in SUBSET Violated[Scene] :
          LET admitted == found = {} \/ Here \notin holons.rejects
          IN  /\ tick' = [tick EXCEPT !.pc = "record", !.admitted = admitted,
                                      !.missed = IF found = {}
                                                 THEN Violated[Scene] \cap Implicated(tick.applied)
                                                 ELSE {}]
              /\ holons' = IF admitted THEN holons
                          ELSE [holons EXCEPT !.scene[Here] = Net(@, InverseOf(tick.applied))]
    /\ UNCHANGED <<at_begin, scope_open, bridged, since_checkpoint, checkpointed, failed, lost>>

\* The event, admitted or not, and then the version.  (What the revalidation overlooked is
\* the model's own note.)
record ==
    /\ tick.pc = "record"
    /\ holons' = set_version([holons EXCEPT !.events[Here] = @ \cup
                                {[version |-> tick.version, changes |-> tick.applied,
                                  missed |-> tick.missed, admitted |-> tick.admitted]}],
                            Here, tick.version)
    /\ tick' = [tick EXCEPT !.pc = "end", !.ok = TRUE]
    /\ UNCHANGED <<at_begin, scope_open, bridged, since_checkpoint, checkpointed, failed, lost>>

\* A write the policy denies, a store that fails, rules that do not converge: `?` anywhere
\* in the body.
TickFails ==
    /\ tick.pc \in {"apply", "infer", "validate", "record"}
    /\ tick' = [tick EXCEPT !.pc = "end"]
    /\ UNCHANGED <<holons, at_begin, scope_open, bridged, since_checkpoint, checkpointed, failed, lost>>

\* settle: accept what was kept, revert the rest.
Settled(kept) ==
    bridged' = IF ~kept /\ checkpointed THEN Net(bridged, InverseOf(since_checkpoint)) ELSE bridged

settle(kept) ==
    IF tick.rules
    THEN /\ Settled(kept)
         /\ since_checkpoint' = <<>>
         /\ checkpointed' = FALSE
    ELSE UNCHANGED <<bridged, since_checkpoint, checkpointed>>

\* end_commit and settle.
end_commit ==
    /\ tick.pc = "end"
    /\ settle(tick.ok /\ tick.admitted)
    /\ scope_open' = ~tick.owned
    /\ holons' = IF tick.owned /\ ~tick.ok THEN at_begin ELSE holons
    /\ at_begin' = IF tick.owned THEN NewStore ELSE at_begin
    /\ failed' = (~tick.owned /\ ~tick.ok)
    /\ tick' = Idle
    /\ UNCHANGED lost

\* The commit fails, and `?` leaves before the rules are settled.
TickRefused ==
    /\ TicksMayFail
    /\ tick.pc = "end"
    /\ tick.owned /\ tick.ok
    /\ scope_open' = FALSE
    /\ holons' = at_begin
    /\ at_begin' = NewStore
    /\ tick' = Idle
    /\ lost' = (lost \/ tick.rules)
    /\ UNCHANGED <<bridged, since_checkpoint, checkpointed, failed>>

-----------------------------------------------------------------------------
(* The rest of the interface                                               *)

\* With Admission::Reject, or with AdmitAndRecord.
register(holon, reject) ==
    /\ tick.pc = "idle"
    /\ ~scope_open
    /\ holon \notin holons.registered
    /\ holons' = [holons EXCEPT !.registered = @ \cup {holon},
                              !.rejects = IF reject THEN @ \cup {holon} ELSE @]
    /\ UNCHANGED <<at_begin, scope_open, bridged, since_checkpoint, checkpointed, failed, lost, tick>>

\* One scope: the scene is copied, the child registered with its parent's admission and
\* given its parent's version.
\* If any of it fails nothing has changed.
branch(source, child) ==
    /\ tick.pc = "idle"
    /\ ~scope_open
    /\ source \in holons.registered
    /\ child \notin holons.registered
    /\ holons' = set_version([holons EXCEPT !.scene[child] = @ \cup holons.scene[source],
                                          !.base[child] = holons.scene[source],
                                          !.branched[child] = version(holons, source),
                                          !.registered = @ \cup {child},
                                          !.rejects = IF source \in @ THEN @ \cup {child} ELSE @],
                            child, version(holons, source))
    /\ UNCHANGED <<at_begin, scope_open, bridged, since_checkpoint, checkpointed, failed, lost, tick>>

\* Rules::prepare: bridge the scene again.
prepare_run ==
    /\ tick.pc = "idle"
    /\ bridged' = holons.scene[Ruled]
    /\ since_checkpoint' = <<>>
    /\ checkpointed' = FALSE
    /\ lost' = FALSE
    /\ UNCHANGED <<holons, at_begin, scope_open, failed, tick>>

\* A caller's own scope, for ticks to join.  It does not keep a tick that failed.
CallerBegins ==
    /\ Joins
    /\ tick.pc = "idle"
    /\ ~scope_open
    /\ scope_open' = TRUE
    /\ at_begin' = holons
    /\ UNCHANGED <<holons, bridged, since_checkpoint, checkpointed, failed, lost, tick>>

CallerEnds(kept) ==
    /\ tick.pc = "idle"
    /\ scope_open
    /\ kept => ~failed
    /\ failed' = FALSE
    /\ scope_open' = FALSE
    /\ holons' = IF kept THEN holons ELSE at_begin
    /\ at_begin' = NewStore
    /\ lost' = (lost \/ (~kept /\ holons # at_begin))
    /\ UNCHANGED <<bridged, since_checkpoint, checkpointed, tick>>

\* The process dies; what was not committed is gone, and rules are prepared again.
Crash ==
    /\ holons' = IF scope_open THEN at_begin ELSE holons
    /\ at_begin' = NewStore
    /\ scope_open' = FALSE
    /\ bridged' = holons'.scene[Ruled]
    /\ since_checkpoint' = <<>>
    /\ checkpointed' = FALSE
    /\ failed' = FALSE
    /\ lost' = FALSE
    /\ tick' = Idle

-----------------------------------------------------------------------------
HolonInit ==
    /\ holons = NewStore
    /\ at_begin = NewStore
    /\ scope_open = FALSE
    /\ bridged = {}
    /\ since_checkpoint = <<>>
    /\ checkpointed = FALSE
    /\ failed = FALSE
    /\ lost = FALSE
    /\ tick = Idle

SmallDelta ==
    {d \in (SUBSET Triple) \X (SUBSET Triple) : Cardinality(d[1]) + Cardinality(d[2]) <= MaxDelta}

HolonNext ==
    \/ \E holon \in HolonId, rules \in BOOLEAN, delta \in SmallDelta :
          begin_commit(holon, rules, delta[1], delta[2])
    \/ \E x \in Triple : ApplyAdd(x) \/ ApplyRemove(x) \/ WriteInferred(x)
    \/ SkipRules
    \/ WrongRules
    \/ fire_rules
    \/ AllInferred
    \/ validate
    \/ record
    \/ TickFails
    \/ end_commit
    \/ TickRefused
    \/ \E holon \in HolonId, reject \in BOOLEAN : register(holon, reject)
    \/ \E source, child \in HolonId : branch(source, child)
    \/ prepare_run
    \/ CallerBegins
    \/ \E kept \in BOOLEAN : CallerEnds(kept)
    \/ Crash

HolonSpec == HolonInit /\ [][HolonNext]_holon_vars
-----------------------------------------------------------------------------
(* Properties                                                              *)

\* What a crash at this instant would leave.
Durable == IF scope_open THEN at_begin ELSE holons

\* One event for each version since the holon began.
TickCounts(st, g) ==
    /\ {e.version : e \in st.events[g]} = (st.branched[g] + 1) .. version(st, g)
    /\ \A e, f \in st.events[g] : e.version = f.version => e = f

\* The versions of a branch continue its parent's: its first tick is the next one, whatever
\* version the branch was taken at.
VersionsContinue == \A g \in HolonId : TickCounts(Durable, g)

\* The version row of a branch taken at version 0, which set_version never removes.
Stuck(st, g) == 0 \in st.versions[g]

\* The log of a holon is one event for each version since it began, whatever failed, was
\* refused or was lost in a crash: no tick ever takes another's version.  The one exception
\* is a holon branched at version 0.
OneEventPerVersion == \A g \in HolonId : ~Stuck(Durable, g) => TickCounts(Durable, g)

\* The event of version v in a log.
EventAt(events, v) == CHOOSE e \in events : e.version = v

\* What the admitted events of a log make of the scene the holon began with.
Replayed(st, g) ==
    LET after[v \in 0 .. version(st, g)] ==
            IF v <= st.branched[g] THEN st.base[g]
            ELSE IF EventAt(st.events[g], v).admitted
                 THEN Net(after[v - 1], EventAt(st.events[g], v).changes)
                 ELSE after[v - 1]
    IN  after[version(st, g)]

\* The log and the scene never disagree: replaying what the log says was admitted,
\* inferences included, gives the scene, at every instant a crash could come.  The exception
\* is the same: the ticks of a holon branched at version 0 share one version.
LogTellsScene ==
    \A g \in HolonId : ~Stuck(Durable, g) => Replayed(Durable, g) = Durable.scene[g]

\* The shapes a holon violated when it began, and those whose violation the revalidation of
\* an admitted tick overlooked although its changes implicated them.
Overlooked(st, g) ==
    Violated[st.base[g]] \cup UNION {e.missed : e \in {f \in st.events[g] : f.admitted}}

\* A boundary that rejects is crossed only where a revalidation overlooks a violation: not
\* because a tick looks again at nothing but what its own changes, the rules' inferences
\* among them, could have affected, nor by what was refused, branched, lost or half done.
BoundaryHolds ==
    \A g \in Durable.rejects : Violated[Durable.scene[g]] \subseteq Overlooked(Durable, g)

Inferable == {x \in Triple : \E S \in SUBSET (Triple \ {x}) : x \in Closure[S]}

\* Between ticks the bridge is in step with the scene: it believes in nothing the scene
\* does not have, and lacks nothing but what the rules would infer again.
BridgeAlwaysInStep ==
    tick.pc = "idle" /\ ~scope_open =>
        /\ bridged \subseteq holons.scene[Ruled]
        /\ holons.scene[Ruled] \ bridged \subseteq Inferable

\* The same, whatever was refused, failed or crashed, until the store loses a tick that the
\* bridge has been told is kept: its own commit fails, or the scope it joined is rolled back.
BridgeInStep == ~lost => BridgeAlwaysInStep
=============================================================================
